---------------------------- MODULE RateLimitProofs ----------------------------
(***************************************************************************)
(* Theorems about RateLimit, for every limit, every window of whole        *)
(* seconds and every length of a second in the clock's unit.               *)
(***************************************************************************)
EXTENDS RateLimit, FiniteSetTheorems, TLAPS

\* A counter lives for exactly one window.
KeyInv == counter # NoKey => counter.expires = counter.born + Window

\* Nobody is told to wait for less than the counter's life.
ToldInv == \A w \in told : w.until >= w.born + Window

\* A page offered to report only when the counter could not refuse any more.
OfferInv ==
  /\ offer # NoOffer => counter = NoKey \/ counter.expires <= offer
  /\ OfferIsGood

\* What the counters let through: up to Limit requests each, while it lives, under
\* different numbers; and a counter begins after the life of every earlier one.
AdmittedInv ==
  /\ \A a \in admitted :
       /\ a.number <= Limit
       /\ a.at \in a.born..(a.born + Window)
       /\ \/ counter # NoKey /\ a.born = counter.born /\ a.number <= counter.count
          \/ a.born + Window < (IF counter = NoKey THEN now ELSE counter.born)
  /\ \A a, b \in admitted :
       /\ a.born < b.born => a.born + Window < b.born
       /\ a.born = b.born /\ a.number = b.number => a = b

IInv == TypeOK /\ KeyInv /\ ToldInv /\ OfferInv /\ AdmittedInv

\* Rounding up to whole seconds never loses any of the time to live.
LEMMA RoundedUp ==
  ASSUME NEW ttl \in Nat
  PROVE  /\ resetSeconds(ttl) \in Nat
         /\ Second * resetSeconds(ttl) \in Nat
         /\ Second * resetSeconds(ttl) >= ttl
<1> DEFINE n == ttl + Second - 1
           q == n \div Second
           r == n % Second
<1>1. Second \in Nat \ {0} /\ Window \in Nat \ {0}
  BY LimitAssumption
<1>2. CASE ttl <= 0
  <2>1. Window \div Second \in Nat
    BY <1>1, SMT
  <2>2. Second * (Window \div Second) \in Nat
    BY <1>1, <2>1, SMT
  <2>3. resetSeconds(ttl) = Window \div Second
    BY <1>2 DEF resetSeconds
  <2>4. QED
    BY <1>2, <2>1, <2>2, <2>3
<1>3. CASE ttl > 0
  <2>1. n \in Nat
    BY <1>1
  <2>2. q \in Nat /\ r \in Nat /\ r < Second /\ n = Second * q + r
    BY <1>1, <2>1, SMT
  <2>3. Second * q \in Nat
    BY <1>1, <2>2, SMT
  <2>4. resetSeconds(ttl) = q
    BY <1>3 DEF resetSeconds
  <2> HIDE DEF q, r
  <2>5. QED
    BY <1>1, <2>2, <2>3, <2>4
<1>4. QED
  BY <1>2, <1>3

\* The key that the script leaves.
LEMMA ScriptKey ==
  ASSUME TypeOK, KeyInv
  PROVE  /\ rateLimitScript \in [count : Nat \ {0}, born : 0..now, expires : Nat]
         /\ rateLimitScript.expires = rateLimitScript.born + Window
         /\ rateLimitScript.expires >= now
         /\ ~Live => rateLimitScript.count = 1
BY LimitAssumption DEF TypeOK, KeyInv, Live, rateLimitScript

\* Whoever is told to wait is told to outwait the key.
LEMMA WaitCovers ==
  ASSUME TypeOK, NEW key \in [count : Nat \ {0}, born : 0..now, expires : Nat],
         key.expires = key.born + Window, key.expires >= now
  PROVE  Wait(key) \in [born : 0..now, until : Nat] /\ Wait(key).until >= key.born + Window
<1> DEFINE ttl == key.expires - now
<1>1. now \in Nat /\ ttl \in Nat /\ now + ttl = key.expires
  BY LimitAssumption DEF TypeOK
<1>2. Second * resetSeconds(ttl) \in Nat /\ Second * resetSeconds(ttl) >= ttl
  BY <1>1, RoundedUp
<1>3. Wait(key) = [born |-> key.born, until |-> now + Second * resetSeconds(ttl)]
  BY DEF Wait
<1> HIDE DEF ttl
<1>4. QED
  BY <1>1, <1>2, <1>3

\* What a step that leaves the counter and the promises alone keeps.
LEMMA Unchanged ==
  ASSUME IInv, UNCHANGED <<counter, admitted, told, offer, refused>>,
         now' = now \/ now' = now + 1
  PROVE  KeyInv' /\ ToldInv' /\ OfferInv' /\ AdmittedInv'
<1>1. KeyInv' /\ ToldInv' /\ OfferInv'
  BY DEF IInv, KeyInv, ToldInv, OfferInv, OfferIsGood
<1>2. AdmittedInv'
  <2>1. now \in Nat
    BY LimitAssumption DEF IInv, TypeOK
  <2>2. \A a \in admitted : a.born \in Nat /\ a.born + Window \in Nat
    BY LimitAssumption DEF IInv, TypeOK
  <2>3. QED
    BY <2>1, <2>2 DEF IInv, AdmittedInv
<1>3. QED
  BY <1>1, <1>2

\* The key that the script leaves, beside those that let earlier requests through.
LEMMA ScriptAfter ==
  ASSUME TypeOK, KeyInv, AdmittedInv, NEW a \in admitted
  PROVE  \/ a.born = rateLimitScript.born /\ a.number < rateLimitScript.count
         \/ a.born + Window < rateLimitScript.born
<1>1. /\ a.born \in Nat /\ a.number \in Nat /\ now \in Nat /\ Window \in Nat
  BY LimitAssumption DEF TypeOK
<1>2. CASE Live
  <2>1. counter # NoKey /\ counter.count \in Nat /\ counter.born \in Nat
    BY <1>2 DEF TypeOK, Live
  <2>2. /\ rateLimitScript.count = counter.count + 1
        /\ rateLimitScript.born = counter.born
    BY <1>2, <2>1 DEF rateLimitScript, TypeOK
  <2>3. QED
    BY <1>1, <2>1, <2>2 DEF AdmittedInv
<1>3. CASE ~Live
  <2>1. rateLimitScript.born = now
    BY <1>3 DEF rateLimitScript
  <2>2. CASE counter = NoKey
    BY <2>1, <2>2 DEF AdmittedInv
  <2>3. CASE counter # NoKey
    <3>1. counter.born \in Nat /\ counter.expires \in Nat /\ counter.count \in Nat
          /\ counter.expires = counter.born + Window /\ counter.expires < now
      BY <1>1, <1>3, <2>3 DEF TypeOK, KeyInv, Live
    <3>2. QED
      BY <1>1, <2>1, <2>3, <3>1 DEF AdmittedInv
  <2>4. QED
    BY <2>2, <2>3
<1>4. QED
  BY <1>2, <1>3

\* The script keeps what the counters let through in order, whatever is done with
\* its answer.
LEMMA ScriptKeepsAdmitted ==
  ASSUME TypeOK, KeyInv, AdmittedInv, counter' = rateLimitScript, admitted' = admitted
  PROVE  AdmittedInv'
<1>1. counter' # NoKey /\ counter'.count \in Nat
  <2>1. counter' \in [count : Nat \ {0}, born : 0..now, expires : Nat]
    BY ScriptKey
  <2>2. counter'.count # 0
    BY <2>1
  <2>3. QED
    BY <2>1 DEF NoKey
<1>2. \A a \in admitted : a.number \in Nat
  BY DEF TypeOK
<1>3. \A a \in admitted :
        \/ a.born = counter'.born /\ a.number <= counter'.count
        \/ a.born + Window < counter'.born
  BY <1>1, <1>2, ScriptAfter
<1>4. QED
  BY <1>1, <1>3 DEF AdmittedInv

\* A counted request keeps the invariant.
LEMMA RateLimitStep ==
  ASSUME IInv, RateLimit
  PROVE  IInv'
<1> USE DEF IInv
<1>1. /\ counter' = rateLimitScript /\ offer' = NoOffer /\ now' = now
      /\ hits' = hits + 1 /\ faults' = faults
  BY DEF RateLimit, Counted
<1>2. counter' \in [count : Nat \ {0}, born : 0..now, expires : Nat]
      /\ counter'.expires = counter'.born + Window
  BY <1>1, ScriptKey
<1>3. KeyInv'
  BY <1>2 DEF KeyInv
<1>4. /\ told' \subseteq [born : 0..now, until : Nat]
      /\ ToldInv'
  <2>1. CASE told' = told
    BY <2>1 DEF TypeOK, ToldInv
  <2>2. CASE told' = told \cup {Wait(rateLimitScript)}
    <3>1. /\ Wait(rateLimitScript) \in [born : 0..now, until : Nat]
          /\ Wait(rateLimitScript).until >= rateLimitScript.born + Window
      BY ScriptKey, WaitCovers
    <3>2. Wait(rateLimitScript).born = rateLimitScript.born
      BY DEF Wait
    <3>3. QED
      BY <2>2, <3>1, <3>2 DEF TypeOK, ToldInv
  <2>3. QED
    BY <2>1, <2>2 DEF RateLimit
<1>5. ~refused'
  <2>1. CASE rateLimitScript.count > Limit
    <3>1. Live
      BY <2>1, ScriptKey, LimitAssumption
    <3>2. ~(offer # NoOffer /\ offer < now)
      BY <3>1, LimitAssumption DEF Live, OfferInv, TypeOK
    <3>3. QED
      BY <2>1, <3>2 DEF RateLimit, OfferInv, OfferIsGood
  <2>2. CASE ~(rateLimitScript.count > Limit)
    BY <2>2 DEF RateLimit, OfferInv, OfferIsGood
  <2>3. QED
    BY <2>1, <2>2
<1>6. /\ admitted' \subseteq [request : 1..hits', at : 0..now, born : 0..now, number : Nat \ {0}]
      /\ AdmittedInv'
  <2> DEFINE new == [request |-> hits', at |-> now,
                     born |-> rateLimitScript.born, number |-> rateLimitScript.count]
  <2>1. \A a \in admitted :
          a \in [request : 1..hits', at : 0..now, born : 0..now, number : Nat \ {0}]
    BY <1>1 DEF TypeOK
  <2>2. CASE admitted' = admitted
    BY <1>1, <2>1, <2>2, ScriptKeepsAdmitted
  <2>3. CASE rateLimitScript.count <= Limit /\ admitted' = admitted \cup {new}
    <3>1. /\ new.request = hits' /\ new.at = now
          /\ new.born = rateLimitScript.born /\ new.number = rateLimitScript.count
      OBVIOUS
    <3>2. new \in [request : 1..hits', at : 0..now, born : 0..now, number : Nat \ {0}]
      <4>1. hits' \in 1..hits' /\ now \in 0..now
        BY <1>1, LimitAssumption DEF TypeOK
      <4>2. QED
        BY <1>1, <1>2, <4>1
    <3>3. new.at \in new.born..(new.born + Window)
      <4>1. rateLimitScript.born \in 0..now /\ rateLimitScript.expires >= now
            /\ rateLimitScript.expires = rateLimitScript.born + Window
        BY ScriptKey
      <4>2. QED
        BY <3>1, <4>1, LimitAssumption DEF TypeOK
    <3>4. counter' # NoKey /\ counter'.born \in Nat /\ counter'.count \in Nat
      BY <1>2, LimitAssumption DEF NoKey, TypeOK
    <3>5. \A a \in admitted :
            /\ a.born \in Nat /\ a.number \in Nat
            /\ \/ a.born = new.born /\ a.number < new.number
               \/ a.born + Window < new.born
      BY <3>1, ScriptAfter DEF TypeOK
    <3> HIDE DEF new
    <3>6. \A a \in admitted' :
            /\ a.number <= Limit
            /\ a.at \in a.born..(a.born + Window)
            /\ \/ counter' # NoKey /\ a.born = counter'.born /\ a.number <= counter'.count
               \/ a.born + Window < counter'.born
      BY <1>1, <2>3, <3>1, <3>3, <3>4, <3>5 DEF AdmittedInv
    <3>7. \A a, b \in admitted' :
            /\ a.born < b.born => a.born + Window < b.born
            /\ a.born = b.born /\ a.number = b.number => a = b
      <4> SUFFICES ASSUME NEW a \in admitted', NEW b \in admitted'
                   PROVE  /\ a.born < b.born => a.born + Window < b.born
                          /\ a.born = b.born /\ a.number = b.number => a = b
        OBVIOUS
      <4>1. new.born \in Nat /\ new.number \in Nat /\ Window \in Nat
        BY <3>2, LimitAssumption, <1>1 DEF TypeOK
      <4>2. CASE a \in admitted /\ b \in admitted
        BY <4>2 DEF AdmittedInv
      <4>3. CASE a \in admitted /\ b = new
        BY <3>5, <4>1, <4>3
      <4>4. CASE a = new /\ b \in admitted
        BY <3>5, <4>1, <4>4
      <4>5. CASE a = new /\ b = new
        BY <4>1, <4>5
      <4>6. QED
        BY <2>3, <4>2, <4>3, <4>4, <4>5
    <3>8. QED
      BY <2>1, <2>3, <3>2, <3>4, <3>6, <3>7 DEF AdmittedInv
  <2>4. QED
    BY <2>2, <2>3, <1>2, LimitAssumption DEF RateLimit
<1>7. TypeOK'
  <2>1. counter'.expires \in counter'.born..(counter'.born + Window)
    BY <1>2, LimitAssumption DEF TypeOK
  <2>2. refused' \in BOOLEAN
    <3>1. CASE refused' = refused
      BY <3>1 DEF TypeOK
    <3>2. CASE refused' = (refused \/ (offer # NoOffer /\ offer < now))
      BY <3>2
    <3>3. QED
      BY <3>1, <3>2 DEF RateLimit
  <2>3. hits' \in Nat
    BY <1>1 DEF TypeOK
  <2>4. QED
    BY <1>1, <1>2, <1>4, <1>6, <2>1, <2>2, <2>3 DEF TypeOK
<1>8. OfferInv'
  BY <1>1, <1>5 DEF OfferInv, OfferIsGood
<1>9. QED
  BY <1>3, <1>4, <1>6, <1>7, <1>8

\* A request that passes because the script failed keeps the invariant, counted or not.
LEMMA FailsStep ==
  ASSUME IInv, RateLimitFails
  PROVE  IInv'
<1> USE DEF IInv
<1>1. UNCHANGED <<now, admitted, told, refused>>
  BY DEF RateLimitFails
<1> DEFINE A(h) == [request : 1..h, at : 0..now, born : 0..now, number : Nat \ {0}]
<1>2. hits' \in Nat /\ admitted \subseteq A(hits')
  <2>1. hits' = hits + 1 /\ hits \in Nat
    BY DEF RateLimitFails, Counted, TypeOK
  <2>2. QED
    BY <2>1 DEF TypeOK
<1>3. CASE UNCHANGED <<counter, offer>>
  <2>1. TypeOK'
    BY <1>1, <1>2, <1>3 DEF TypeOK
  <2>2. QED
    BY <1>1, <1>3, <2>1, Unchanged
<1>4. CASE counter' = rateLimitScript /\ offer' = NoOffer
  <2>1. counter' \in [count : Nat \ {0}, born : 0..now, expires : Nat]
        /\ counter'.expires = counter'.born + Window
    BY <1>4, ScriptKey
  <2>2. counter'.expires \in counter'.born..(counter'.born + Window)
    BY <2>1, LimitAssumption DEF TypeOK
  <2>3. TypeOK'
    BY <1>1, <1>2, <1>4, <2>1, <2>2 DEF TypeOK
  <2>4. KeyInv' /\ ToldInv' /\ OfferInv'
    BY <1>1, <1>4, <2>1 DEF KeyInv, ToldInv, OfferInv, OfferIsGood
  <2>5. AdmittedInv'
    BY <1>1, <1>4, ScriptKeepsAdmitted
  <2>6. QED
    BY <2>3, <2>4, <2>5
<1>5. QED
  BY <1>3, <1>4 DEF RateLimitFails

\* A page view keeps the invariant.
LEMMA PageStep ==
  ASSUME IInv, GetReportRateLimitState
  PROVE  IInv'
<1> USE DEF IInv
<1>1. UNCHANGED <<now, counter, admitted, refused, faults>>
  BY DEF GetReportRateLimitState
<1>2. KeyInv' /\ AdmittedInv'
  BY <1>1 DEF KeyInv, AdmittedInv
<1> DEFINE A(h) == [request : 1..h, at : 0..now, born : 0..now, number : Nat \ {0}]
<1>3. hits' \in Nat /\ admitted \subseteq A(hits')
  <2>1. hits' = hits + 1 /\ hits \in Nat
    BY DEF GetReportRateLimitState, Counted, TypeOK
  <2>2. QED
    BY <2>1 DEF TypeOK
<1>4. CASE CanReport
  <2>1. offer' = now /\ told' = told
    BY <1>4 DEF GetReportRateLimitState
  <2>2. counter = NoKey \/ counter.expires <= now
    BY <1>4, LimitAssumption DEF CanReport, Live, TypeOK
  <2>3. QED
    BY <1>1, <1>2, <1>3, <2>1, <2>2 DEF TypeOK, ToldInv, OfferInv, OfferIsGood
<1>5. CASE ~CanReport
  <2>1. told' = told \cup {Wait(counter)} /\ offer' = offer
    BY <1>5 DEF GetReportRateLimitState
  <2>2. counter # NoKey /\ counter.expires >= now
    BY <1>5, LimitAssumption DEF CanReport, Live, TypeOK
  <2>3. /\ Wait(counter) \in [born : 0..now, until : Nat]
        /\ Wait(counter).until >= counter.born + Window
    BY <2>2, WaitCovers DEF TypeOK, KeyInv
  <2>4. Wait(counter).born = counter.born
    BY DEF Wait
  <2>5. ToldInv'
    BY <2>1, <2>3, <2>4 DEF ToldInv
  <2>6. TypeOK'
    BY <1>1, <1>3, <2>1, <2>3 DEF TypeOK
  <2>7. OfferInv'
    BY <1>1, <2>1 DEF OfferInv, OfferIsGood
  <2>8. QED
    BY <1>2, <2>5, <2>6, <2>7
<1>6. QED
  BY <1>4, <1>5

\* The invariant is inductive.
THEOREM Inductive == Spec => []IInv
<1>1. Init => IInv
  <2> SUFFICES ASSUME Init
               PROVE  IInv
    OBVIOUS
  <2>1. admitted = {} /\ hits \in Nat /\ told = {} /\ ~refused
    BY DEF Init
  <2>2. now \in 0..MaxTime /\ counter = NoKey /\ offer = NoOffer
    BY LimitAssumption DEF Init
  <2>3. refused \in BOOLEAN
    BY DEF Init
  <2>4. TypeOK
    BY <2>1, <2>2, <2>3 DEF TypeOK
  <2>5. QED
    BY <2>1, <2>2, <2>4 DEF IInv, KeyInv, ToldInv, OfferInv, OfferIsGood,
                            AdmittedInv
<1>2. IInv /\ [Next]_vars => IInv'
  <2> SUFFICES ASSUME IInv, [Next]_vars
               PROVE  IInv'
    OBVIOUS
  <2>1. CASE RateLimit
    BY <2>1, RateLimitStep
  <2>2. CASE RateLimitFails
    BY <2>2, FailsStep
  <2>3. CASE GetReportRateLimitState
    BY <2>3, PageStep
  <2>4. CASE Expire
    <3>1. /\ counter' = NoKey /\ ~Live /\ counter # NoKey
          /\ UNCHANGED <<now, admitted, told, offer, refused, hits, faults>>
      BY <2>4 DEF Expire
    <3>2. TypeOK' /\ KeyInv' /\ ToldInv' /\ OfferInv'
      BY <3>1 DEF IInv, TypeOK, KeyInv, ToldInv, OfferInv, OfferIsGood
    <3>3. counter.born + Window < now /\ counter.born \in Nat /\ now \in Nat
      BY <3>1, LimitAssumption DEF IInv, TypeOK, KeyInv, Live
    <3>4. \A a \in admitted : a.born \in Nat /\ a.born + Window < now
      BY <3>1, <3>3, LimitAssumption DEF IInv, AdmittedInv, TypeOK
    <3>5. AdmittedInv'
      BY <3>1, <3>4 DEF IInv, AdmittedInv
    <3>6. QED
      BY <3>2, <3>5 DEF IInv
  <2>5. CASE Tick
    <3>1. TypeOK'
      <4>1. now' = now + 1 /\ now' \in 0..MaxTime /\ now \in Nat
        BY <2>5, LimitAssumption DEF Tick, IInv, TypeOK
      <4>2. 0..now \subseteq 0..now'
        BY <4>1
      <4>3. QED
        BY <2>5, <4>1, <4>2 DEF Tick, IInv, TypeOK
    <3>2. QED
      BY <2>5, <3>1, Unchanged DEF Tick, IInv
  <2>6. CASE UNCHANGED vars
    <3>1. TypeOK'
      BY <2>6 DEF vars, IInv, TypeOK
    <3>2. QED
      BY <2>6, <3>1, Unchanged DEF vars, IInv
  <2>7. QED
    BY <2>1, <2>2, <2>3, <2>4, <2>5, <2>6 DEF Next
<1>3. QED
  BY <1>1, <1>2, PTL DEF Spec

\* The clock, the counter and what clients were told are always well-formed.
THEOREM TypeCorrect == Spec => []TypeOK
<1>1. IInv => TypeOK
  BY DEF IInv
<1>2. QED
  BY <1>1, Inductive, PTL

\* Whoever waits as long as told is past the counter that kept the request out.
THEOREM WaitIsEnough == Spec => []WaitingSuffices
<1>1. IInv => WaitingSuffices
  <2> SUFFICES ASSUME IInv, NEW w \in told, now > w.until, Live, counter.born = w.born
               PROVE  FALSE
    BY DEF WaitingSuffices
  <2>1. w.until >= counter.expires
    BY DEF IInv, ToldInv, KeyInv, Live
  <2>2. now \in Int /\ counter.expires \in Int /\ w.until \in Int
    BY DEF IInv, TypeOK, Live
  <2>3. QED
    BY <2>1, <2>2 DEF Live
<1>2. QED
  BY <1>1, Inductive, PTL

\* The report button that a page offers works, if nobody else used the key first.
THEOREM OffersAreGood == Spec => []OfferIsGood
<1>1. IInv => OfferIsGood
  BY DEF IInv, OfferInv
<1>2. QED
  BY <1>1, Inductive, PTL

\* The requests let through in a span no longer than a window, numbered: those of
\* one counter first, then those of the only other one that the span can hold.
LEMMA TwoCounters ==
  ASSUME IInv, NEW t \in Nat
  PROVE  Cardinality({a \in admitted : t <= a.at /\ a.at < t + Window}) <= 2 * Limit
<1> DEFINE S == {a \in admitted : t <= a.at /\ a.at < t + Window}
<1>1. Limit \in Nat /\ Window \in Nat /\ now \in Nat
  BY LimitAssumption DEF IInv, TypeOK
<1>2. \A a \in S : /\ a.born \in Nat /\ a.at \in Nat /\ a.number \in 1..Limit
                  /\ a.born <= a.at /\ a.at <= a.born + Window
  BY <1>1 DEF IInv, TypeOK, AdmittedInv
<1>3. CASE S = {}
  BY <1>1, <1>3, FS_EmptySet
<1>4. CASE S # {}
  <2>1. PICK first \in S : TRUE
    BY <1>4
  <2> DEFINE f == [a \in S |-> IF a.born = first.born THEN a.number ELSE Limit + a.number]
  <2>2. f \in [S -> 1..(2 * Limit)]
    BY <1>1, <1>2
  <2>3. \A a, b \in S : a.born # first.born /\ b.born # first.born => a.born = b.born
    <3>1. \A a, b \in S : ~(a.born + Window < b.born /\ b.born + Window < first.born)
      BY <1>1, <1>2, <2>1
    <3>2. \A a, b \in S : ~(a.born + Window < first.born /\ first.born + Window < b.born)
      BY <1>1, <1>2, <2>1
    <3>3. \A a, b \in S : ~(first.born + Window < a.born /\ a.born + Window < b.born)
      BY <1>1, <1>2, <2>1
    <3>4. \A a, b \in S : a.born < b.born => a.born + Window < b.born
      BY DEF IInv, AdmittedInv
    <3>5. QED
      BY <1>2, <2>1, <3>1, <3>2, <3>3, <3>4
  <2>4. \A a, b \in S : f[a] = f[b] => a = b
    <3> SUFFICES ASSUME NEW a \in S, NEW b \in S, f[a] = f[b]
                 PROVE  a = b
      OBVIOUS
    <3>1. a.born = b.born /\ a.number = b.number
      BY <1>1, <1>2, <2>3
    <3>2. QED
      BY <3>1 DEF IInv, AdmittedInv
  <2>5. f \in Injection(S, 1..(2 * Limit))
    BY <2>2, <2>4 DEF Injection, IsInjective
  <2>6. IsFiniteSet(1..(2 * Limit)) /\ Cardinality(1..(2 * Limit)) = 2 * Limit
    <3>1. Limit > 0 /\ 2 * Limit \in Int /\ ~(1 > 2 * Limit) /\ (2 * Limit - 1) + 1 = 2 * Limit
      BY LimitAssumption
    <3>2. QED
      BY <3>1, FS_Interval
  <2> HIDE DEF S, f
  <2>7. Cardinality(S) <= Cardinality(1..(2 * Limit))
    BY <2>5, <2>6, FS_Injection
  <2>8. QED
    BY <2>6, <2>7 DEF S
<1>5. QED
  BY <1>3, <1>4

\* No span as long as a window sees more than two windows' worth of requests pass.
THEOREM QuotaHolds == Spec => []QuotaInAnySpan
<1>1. IInv => QuotaInAnySpan
  <2>1. 0..MaxTime \subseteq Nat
    BY LimitAssumption
  <2>2. QED
    BY <2>1, TwoCounters DEF QuotaInAnySpan
<1>2. QED
  BY <1>1, Inductive, PTL
===============================================================================
