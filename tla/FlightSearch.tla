---------------------------- MODULE FlightSearch ----------------------------
(***************************************************************************)
(* What the search use case promises the caller of POST /flights/search,   *)
(* with nothing of how it keeps the promise: no cache, no fan-out, no      *)
(* provider that hangs, no other search.  A well-formed request is         *)
(* answered within its budget; each of its legs either fails or names some *)
(* of the providers and shows what these have for it, as they had it not   *)
(* long ago; and the whole fails only if every leg does.  SearchService    *)
(* implements this.                                                        *)
(***************************************************************************)
EXTENDS Integers, Sequences

CONSTANTS
    Searches,    \* the requests that are served
    Requests,    \* what they may ask for: see SearchService
    Providers,   \* the airlines
    Inventory,   \* the offers each of them has
    Budget,      \* how long an answer may take
    MaxAge       \* how old what it shows may be

VARIABLES
    now,         \* the clock
    search,      \* each search: where it stands, its request, its status code
    answer       \* what each search was told, leg by leg

vars == <<now, search, answer>>

Init ==
    /\ now = 0
    /\ search = [s \in Searches |-> [at |-> "idle"]]
    /\ answer = [s \in Searches |-> <<>>]

\* Offer f may be shown to the caller of r for leg l.
Fits(r, l, f) ==
    /\ f.sound /\ f.leg = l /\ f.cabin = r.cabin /\ f.seats >= r.passengers
    /\ r.directOnly => f.direct

\* Of the offers the providers in ps have, those that fit, each flight at its lowest fare.
Shown(r, l, ps) ==
    LET fitting == {f \in UNION {Inventory[p] : p \in ps} : Fits(r, l, f)}
    IN  {f \in fitting : \A e \in fitting : e.number = f.number => f.fare <= e.fare}

\* What a caller is told of a leg: which providers answered, what they have for it, and how long
\* ago that was.  A leg that failed names none.
LegAnswer(r, l, ps, t) ==
    IF ps = {} THEN [from |-> {}, flights |-> {}, age |-> 0]
               ELSE [from |-> ps, flights |-> Shown(r, l, ps), age |-> t]

Refuse(s, r) ==
    /\ search[s].at = "idle" /\ ~r.wellFormed
    /\ search' = [search EXCEPT ![s] = [at |-> "answered", req |-> r, code |-> 400]]
    /\ UNCHANGED <<now, answer>>

Receive(s, r) ==
    /\ search[s].at = "idle" /\ r.wellFormed
    /\ search' = [search EXCEPT ![s] = [at |-> "running", req |-> r, started |-> now]]
    /\ UNCHANGED <<now, answer>>

Answer(s) ==
    /\ search[s].at = "running"
    /\ LET r == search[s].req
       IN  \E from \in [DOMAIN r.legs -> SUBSET Providers], age \in [DOMAIN r.legs -> 0 .. MaxAge] :
              /\ r.knownSort \/ \A i \in DOMAIN r.legs : from[i] = {}
              /\ search' = [search EXCEPT ![s] =
                              [at |-> "answered", req |-> r,
                               code |-> IF \A i \in DOMAIN r.legs : from[i] = {} THEN 502 ELSE 200]]
              /\ answer' = [answer EXCEPT ![s] =
                              [i \in DOMAIN r.legs |-> LegAnswer(r, r.legs[i], from[i], age[i])]]
    /\ UNCHANGED now

\* Time passes, but never past the budget of a search that is running.
Tick ==
    /\ \A s \in Searches : search[s].at = "running" => now < search[s].started + Budget
    /\ now' = now + 1
    /\ UNCHANGED <<search, answer>>

Next ==
    \/ Tick
    \/ \E s \in Searches :
          \/ \E r \in Requests : Refuse(s, r) \/ Receive(s, r)
          \/ Answer(s)

Spec == Init /\ [][Next]_vars
=============================================================================
