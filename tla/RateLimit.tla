------------------------------- MODULE RateLimit -------------------------------
(***************************************************************************)
(* The quota of the report and submission endpoints                        *)
(* (api/middleware/rate-limit.go): a Redis counter per client and service, *)
(* that the first request of a window creates with an expiry.  The         *)
(* detail page reads the expiry, to offer the report button or to say when *)
(* it comes back.  Counters of different keys have nothing in common, so   *)
(* one key is modelled, in production and with a limit and a window above  *)
(* zero (the middleware lets everything pass otherwise).                   *)
(***************************************************************************)
EXTENDS Integers, FiniteSets

CONSTANTS
  Limit,      \* RateLimitConfig.Limit
  Window,     \* RateLimitConfig.Window, in milliseconds
  Second,     \* milliseconds in a second
  MaxTime,    \* bound: the clock stops here
  MaxHits,    \* bound: requests and page views
  MaxFaults   \* bound: Redis commands that fail

ASSUME LimitAssumption ==
  /\ {Limit, Window, Second} \subseteq Nat \ {0}
  /\ Window % Second = 0
  /\ {MaxTime, MaxHits, MaxFaults} \subseteq Nat

NoKey == [count |-> 0]
NoOffer == -1

VARIABLES
  now,       \* Redis's clock, in milliseconds
  counter,   \* the key: its count, when it was created and when it expires; or NoKey
  admitted,  \* history: the requests let through, each with its instant and its counter
  told,      \* history: of which counter clients were told to wait, and until when
  offer,     \* history: when a page last offered to report, with no request since
  refused,   \* history: whether an offer that was taken up later was refused
  hits, faults   \* bound counters

vars == <<now, counter, admitted, told, offer, refused, hits, faults>>

TypeOK ==
  /\ now \in 0..MaxTime
  /\ counter # NoKey =>
       /\ counter \in [count : Nat \ {0}, born : 0..now, expires : Nat]
       /\ counter.expires \in counter.born..(counter.born + Window)
  /\ admitted \subseteq
       [request : 1..hits, at : 0..now, born : 0..now, number : Nat \ {0}]
  /\ told \subseteq [born : 0..now, until : Nat]
  /\ offer \in {NoOffer} \cup 0..now
  /\ refused \in BOOLEAN
  /\ hits \in Nat

Init ==
  /\ now = 0
  /\ counter = NoKey
  /\ admitted = {}
  /\ told = {}
  /\ offer = NoOffer
  /\ refused = FALSE
  /\ hits = 0
  /\ faults = 0

-------------------------------------------------------------------------------
\* Redis: a key is still there in the millisecond of its expiry, with a PTTL of 0.
Live == counter # NoKey /\ now <= counter.expires

\* Mutant of rateLimitScript: each request starts the window anew.
rateLimitScriptSliding ==
  IF Live THEN [counter EXCEPT !.count = @ + 1, !.expires = now + Window]
  ELSE [count |-> 1, born |-> now, expires |-> now + Window]

\* Mutant of rateLimitScript: the counter restarts when half of the window is over.
rateLimitScriptEarly ==
  IF Live /\ 2 * (counter.expires - now) > Window THEN [counter EXCEPT !.count = @ + 1]
  ELSE [count |-> 1, born |-> now, expires |-> now + Window]

\* INCR, PEXPIRE when the counter is new, and PTTL, in one script.
rateLimitScript ==
  IF Live THEN [counter EXCEPT !.count = @ + 1]
  ELSE [count |-> 1, born |-> now, expires |-> now + Window]

\* Mutant of resetSeconds: rounded down.
resetSecondsDown(ttl) == IF ttl < Second THEN Window \div Second ELSE ttl \div Second

\* ceil(ttl.Seconds()), and the whole window when that is 0.
resetSeconds(ttl) ==
  IF ttl <= 0 THEN Window \div Second ELSE (ttl + Second - 1) \div Second

Wait(key) == [born |-> key.born, until |-> now + Second * resetSeconds(key.expires - now)]

Counted == hits < MaxHits /\ hits' = hits + 1

\* NewRateLimit: the request counts, and passes up to the limit.
RateLimit ==
  LET key == rateLimitScript IN
  /\ Counted
  /\ counter' = key
  /\ IF key.count > Limit
     THEN /\ told' = told \cup {Wait(key)}
          /\ refused' = (refused \/ (offer # NoOffer /\ offer < now))
          /\ UNCHANGED admitted
     ELSE /\ admitted' = admitted \cup
               {[request |-> hits', at |-> now, born |-> key.born, number |-> key.count]}
          /\ UNCHANGED <<told, refused>>
  /\ offer' = NoOffer
  /\ UNCHANGED <<now, faults>>

\* The script fails, or its answer is lost: the request passes whatever the count.
RateLimitFails ==
  /\ Counted
  /\ faults < MaxFaults
  /\ faults' = faults + 1
  /\ \/ UNCHANGED <<counter, offer>>
     \/ counter' = rateLimitScript /\ offer' = NoOffer
  /\ UNCHANGED <<now, admitted, told, refused>>

\* Mutant of CanReport: the expiry is not looked at.
CanReportAlways == TRUE

\* ttl <= 0: no key, or one that expires in this millisecond.
CanReport == ~(Live /\ counter.expires > now)

\* GetReportRateLimitState, for a page.
GetReportRateLimitState ==
  /\ Counted
  /\ IF CanReport THEN offer' = now /\ UNCHANGED told
     ELSE told' = told \cup {Wait(counter)} /\ UNCHANGED offer
  /\ UNCHANGED <<now, counter, admitted, refused, faults>>

\* Redis removes an expired key sooner or later.
Expire ==
  /\ counter # NoKey
  /\ ~Live
  /\ counter' = NoKey
  /\ UNCHANGED <<now, admitted, told, offer, refused, hits, faults>>

Tick ==
  /\ now < MaxTime
  /\ now' = now + 1
  /\ UNCHANGED <<counter, admitted, told, offer, refused, hits, faults>>

Next ==
  \/ RateLimit
  \/ RateLimitFails
  \/ GetReportRateLimitState
  \/ Expire
  \/ Tick

Spec == Init /\ [][Next]_vars

-------------------------------------------------------------------------------
\* Whatever the moment a client begins at, no span as long as a window sees more
\* than two windows' worth of requests pass by the counter's decision. Requests that are
\* let through because the script failed (RateLimitFails) are not counted, and
\* nothing bounds them.
QuotaInAnySpan ==
  \A t \in 0..MaxTime :
    Cardinality({a \in admitted : t <= a.at /\ a.at < t + Window}) <= 2 * Limit

\* Whoever waits for as long as Retry-After or the page says is past the counter
\* that kept the request out, although the seconds are rounded and other requests
\* with the same key are refused, and counted, meanwhile.
WaitingSuffices ==
  \A w \in told : now > w.until => ~(Live /\ counter.born = w.born)

\* A report button that a page has offered works when it is pressed in a later
\* millisecond, unless another request with the same key came first.
OfferIsGood == ~refused
===============================================================================
