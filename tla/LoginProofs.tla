---------------------------- MODULE LoginProofs ----------------------------
(***************************************************************************)
(* Machine-checked proofs about LoginRateLimit, for any sources, limits,   *)
(* window and difference of the clocks.                                    *)
(*                                                                         *)
(*   AlwaysDecodable     StaysDecodable                                    *)
(*   RetryStaysHonoured  RetryIsHonoured: no window ends later than one    *)
(*                       window after the fastest clock (EndsBy)           *)
(*   ThrottledTakesNone  ThrottledTakesNothing                             *)
(*   GrantsStayBounded   GrantsBounded: a bucket's count pays for what     *)
(*                       passed since its window began, and one window's   *)
(*                       worth for what passed before (Line)               *)
(*                                                                         *)
(* Both limiters keep a state whose table of sources is finite, within its *)
(* capacity and its limits (Table, Counted).                               *)
(***************************************************************************)
EXTENDS LoginRateLimit, FiniteSetTheorems, TLAPS

\* A table of sources within its capacity.
Table(f) ==
    /\ f = [k \in DOMAIN f |-> f[k]]
    /\ DOMAIN f \subseteq Source
    /\ IsFiniteSet(DOMAIN f)
    /\ Cardinality(DOMAIN f) <= MaxClients
    /\ \A k \in DOMAIN f : f[k] \in Bucket

\* A state of the limiters.
State(st) ==
    /\ st = [global |-> st.global, clients |-> st.clients]
    /\ st.global \in Bucket
    /\ Table(st.clients)

\* Counts that decodeState accepts.
Counted(st) ==
    /\ st.global.count <= GlobalLimit
    /\ \A k \in DOMAIN st.clients : st.clients[k].count <= ClientLimit

\* Every window has ended at this time.
EndsBy(st, time) ==
    /\ st.global.reset <= time
    /\ \A k \in DOMAIN st.clients : st.clients[k].reset <= time

Drift == IF backend = "postgres" THEN Skew ELSE 0

Inv ==
    /\ backend \in {"postgres", "proxy"}
    /\ clock \in Nat /\ clock >= Skew
    /\ State(limits)
    /\ backend = "postgres" => Counted(limits)
    /\ EndsBy(limits, clock + Window + Drift)

\* A table with the bucket of one source set, a bucket with one more attempt, and
\* what LoginLimiter counts up to.
With(f, key, b) == [k \in DOMAIN f \cup {key} |-> IF k = key THEN b ELSE f[k]]

OneMore(b) == [b EXCEPT !.count = @ + 1]

More(b, limit) == Min({b.count + 1, limit + 1})

Opened(now) == [count |-> 1, reset |-> now + Window]

\* The limits are positive numbers.
LEMMA Positive ==
    /\ GlobalLimit \in Nat /\ GlobalLimit >= 1
    /\ ClientLimit \in Nat /\ ClientLimit >= 1
    /\ MaxClients \in Nat /\ MaxClients >= 1
    /\ Window \in Nat /\ Window >= 1
    /\ Skew \in Nat
    /\ None \notin Source
  BY LimitAssumption

(***************************************************************************)
(* Tables of sources.                                                      *)
(***************************************************************************)

\* Forgetting the windows that ended leaves a table, of the others.
LEMMA LiveTable ==
    ASSUME NEW f, Table(f), NEW now \in Nat
    PROVE  /\ Table(Live(f, now))
           /\ DOMAIN Live(f, now) = {k \in DOMAIN f : f[k].reset > now}
           /\ \A k \in DOMAIN Live(f, now) : Live(f, now)[k] = f[k]
  <1> DEFINE kept == {k \in DOMAIN f : f[k].reset > now}
  <1>1. Live(f, now) = [k \in kept |-> f[k]]
    BY DEF Live, Restrict
  <1>2. IsFiniteSet(kept) /\ Cardinality(kept) <= Cardinality(DOMAIN f)
    <2>1. kept \in SUBSET DOMAIN f /\ IsFiniteSet(DOMAIN f)
      BY DEF Table
    <2> HIDE DEF kept
    <2>2. QED
      BY <2>1, FS_Subset
  <1>3. Cardinality(kept) \in Nat /\ Cardinality(DOMAIN f) \in Nat
    BY <1>2, FS_CardinalityType DEF Table
  <1>4. Cardinality(kept) <= MaxClients
    BY <1>2, <1>3, Positive DEF Table
  <1>5. QED
    BY <1>1, <1>2, <1>4 DEF Table

\* One more source fits while the table is not at its capacity.
LEMMA LargerTable ==
    ASSUME NEW f, Table(f), NEW key \in Source, NEW b \in Bucket,
           key \in DOMAIN f \/ ~AtCapacity(f)
    PROVE  Table(With(f, key, b))
  <1> DEFINE keys == DOMAIN f \cup {key}
             g == [k \in keys |-> IF k = key THEN b ELSE f[k]]
  <1>1. IsFiniteSet(keys)
        /\ Cardinality(keys) = IF key \in DOMAIN f THEN Cardinality(DOMAIN f)
                               ELSE Cardinality(DOMAIN f) + 1
    BY FS_AddElement DEF Table
  <1>2. Cardinality(DOMAIN f) \in Nat
    BY FS_CardinalityType DEF Table
  <1>3. Cardinality(keys) <= MaxClients
    BY <1>1, <1>2, Positive DEF Table, AtCapacity
  <1>4. keys \subseteq Source /\ \A k \in keys : g[k] \in Bucket
    BY DEF Table
  <1>5. DOMAIN g = keys
    OBVIOUS
  <1>6. QED
    BY <1>1, <1>3, <1>4, <1>5 DEF Table, With

(***************************************************************************)
(* "postgres"                                                              *)
(***************************************************************************)

\* What is decoded is a state, whose counts and windows are old or new ones.
LEMMA Decoded ==
    ASSUME NEW st, State(st), NEW now \in Nat
    PROVE  LET s == decodeState(st, now) IN
           /\ State(s)
           /\ s.global = (IF st.global.reset <= now
                          THEN [count |-> 0, reset |-> now + Window] ELSE st.global)
           /\ s.clients = Live(st.clients, now)
           /\ Counted(st) => Counted(s)
           /\ \A time \in Nat : EndsBy(st, time) /\ now + Window <= time => EndsBy(s, time)
  <1> DEFINE s == decodeState(st, now)
  <1>1. /\ s = [global |-> s.global, clients |-> s.clients]
        /\ s.global = (IF st.global.reset <= now
                       THEN [count |-> 0, reset |-> now + Window] ELSE st.global)
        /\ s.clients = Live(st.clients, now)
    BY DEF decodeState
  <1>2. s.global \in Bucket
    BY <1>1, Positive DEF State, Bucket
  <1>3. Table(s.clients)
    BY <1>1, LiveTable DEF State
  <1> HIDE DEF s
  <1>4. DOMAIN s.clients \subseteq DOMAIN st.clients
        /\ \A k \in DOMAIN s.clients : s.clients[k] = st.clients[k]
    <2>1. Table(st.clients)
      BY DEF State
    <2>2. /\ DOMAIN Live(st.clients, now) = {k \in DOMAIN st.clients : st.clients[k].reset > now}
          /\ \A k \in DOMAIN Live(st.clients, now) : Live(st.clients, now)[k] = st.clients[k]
      BY <2>1, LiveTable
    <2>3. QED
      BY <1>1, <2>2
  <1>5. State(s)
    BY <1>1, <1>2, <1>3 DEF State
  <1>6. Counted(st) => Counted(s)
    BY <1>1, <1>4, Positive DEF Counted
  <1>7. \A time \in Nat : EndsBy(st, time) /\ now + Window <= time => EndsBy(s, time)
    BY <1>1, <1>4, Positive DEF EndsBy
  <1>8. QED
    BY <1>1, <1>5, <1>6, <1>7 DEF s

\* nextLoginRateLimit refuses this source on this decoded state.
Refused(s, key) ==
    \/ key \in DOMAIN s.clients /\ AtLimit(s.clients[key], ClientLimit)
    \/ AtLimit(s.global, GlobalLimit)
    \/ Tracked(key) /\ key \notin DOMAIN s.clients /\ AtCapacity(s.clients)

\* The bucket of a source that is let through.
Filled(s, key, now) ==
    IF key \in DOMAIN s.clients THEN OneMore(s.clients[key]) ELSE Opened(now)

Advanced(s, key, now) ==
    [global |-> OneMore(s.global),
     clients |-> IF ~Tracked(key) THEN s.clients
                 ELSE With(s.clients, key, Filled(s, key, now))]

\* A decision, in terms of the decoded state.
LEMMA Decision ==
    ASSUME NEW st, NEW key, NEW now, NEW s, s = decodeState(st, now)
    PROVE  /\ nextLoginRateLimit(st, key, now).allowed \in BOOLEAN
           /\ nextLoginRateLimit(st, key, now).allowed <=> ~Refused(s, key)
           /\ Refused(s, key) => nextLoginRateLimit(st, key, now).state = s
           /\ ~Refused(s, key) =>
                nextLoginRateLimit(st, key, now).state = Advanced(s, key, now)
  <1>1. CASE Refused(s, key)
    BY <1>1 DEF nextLoginRateLimit, Refused
  <1>2. CASE ~Refused(s, key)
    BY <1>2 DEF nextLoginRateLimit, Refused, Filled, Advanced, With, OneMore, Opened
  <1>3. QED
    BY <1>1, <1>2

\* nextLoginRateLimit writes a state that decodeState accepts, with no window
\* longer than its own.
LEMMA SharedKeeps ==
    ASSUME NEW st, State(st), Counted(st), NEW key \in Source \cup {None},
           NEW now \in Nat, NEW time \in Nat, EndsBy(st, time), now + Window <= time
    PROVE  LET after == nextLoginRateLimit(st, key, now).state IN
           State(after) /\ Counted(after) /\ EndsBy(after, time)
  <1> DEFINE s == decodeState(st, now)
             after == nextLoginRateLimit(st, key, now).state
  <1>1. State(s) /\ Counted(s) /\ EndsBy(s, time)
    BY Decoded
  <1>2. CASE Refused(s, key)
    BY <1>1, <1>2, Decision
  <1>3. CASE ~Refused(s, key)
    <2>1. after = Advanced(s, key, now)
      BY <1>3, Decision
    <2> HIDE DEF s, after
    <2>a. /\ after = [global |-> after.global, clients |-> after.clients]
          /\ after.global = OneMore(s.global)
          /\ after.clients = IF ~Tracked(key) THEN s.clients
                             ELSE With(s.clients, key, Filled(s, key, now))
      BY <2>1 DEF Advanced
    <2>2. /\ after.global \in Bucket
          /\ after.global.count <= GlobalLimit
          /\ after.global.reset <= time
      <3>1. s.global \in Bucket /\ s.global.reset <= time /\ ~(s.global.count >= GlobalLimit)
        BY <1>1, <1>3 DEF State, EndsBy, Refused, AtLimit
      <3>2. QED
        BY <2>a, <3>1, Positive DEF Bucket, OneMore
    <2>3. CASE ~Tracked(key)
      <3>1. after.clients = s.clients
        BY <2>a, <2>3
      <3>2. QED
        BY <1>1, <2>a, <2>2, <3>1 DEF State, Counted, EndsBy, after
    <2>4. CASE Tracked(key)
      <3>1. key \in Source
        BY <2>4 DEF Tracked
      <3>2. /\ Filled(s, key, now) \in Bucket
            /\ Filled(s, key, now).count <= ClientLimit
            /\ Filled(s, key, now).reset <= time
        <4>1. CASE key \in DOMAIN s.clients
          <5>1. /\ s.clients[key] \in Bucket
                /\ s.clients[key].reset <= time
                /\ ~(s.clients[key].count >= ClientLimit)
            BY <1>1, <1>3, <4>1 DEF State, Table, EndsBy, Refused, AtLimit
          <5>2. QED
            BY <4>1, <5>1, Positive DEF Filled, Bucket, OneMore
        <4>2. CASE key \notin DOMAIN s.clients
          BY <4>2, Positive DEF Filled, Bucket, Opened
        <4>3. QED
          BY <4>1, <4>2
      <3>a. after.clients = With(s.clients, key, Filled(s, key, now))
        BY <2>a, <2>4
      <3>3. Table(after.clients)
        <4>1. key \in DOMAIN s.clients \/ ~AtCapacity(s.clients)
          BY <1>3, <2>4 DEF Refused
        <4>2. QED
          BY <1>1, <3>1, <3>2, <3>a, <4>1, LargerTable DEF State
      <3>4. \A k \in DOMAIN after.clients :
              \/ after.clients[k] = Filled(s, key, now)
              \/ k \in DOMAIN s.clients /\ after.clients[k] = s.clients[k]
        BY <3>a DEF With
      <3>5. State(after) /\ Counted(after)
        BY <1>1, <2>a, <2>2, <3>2, <3>3, <3>4 DEF State, Counted
      <3>6. EndsBy(after, time)
        BY <1>1, <2>2, <3>2, <3>4 DEF EndsBy
      <3>7. QED
        BY <3>5, <3>6 DEF after
    <2>5. QED
      BY <2>3, <2>4 DEF after
  <1>4. QED
    BY <1>2, <1>3

(***************************************************************************)
(* "proxy"                                                                 *)
(***************************************************************************)

\* Min of two numbers.
LEMMA MinOfTwo ==
    ASSUME NEW a \in Nat, NEW b \in Nat
    PROVE  Min({a, b}) = IF a <= b THEN a ELSE b
  <1> DEFINE m == IF a <= b THEN a ELSE b
  <1>1. \A x \in {a, b} : (\A y \in {a, b} : x =< y) <=> x = m
    OBVIOUS
  <1>2. m \in {a, b}
    OBVIOUS
  <1> HIDE DEF m
  <1>3. Min({a, b}) = m
    BY <1>1, <1>2 DEF Min
  <1>4. QED
    BY <1>3 DEF m

\* A table with one count replaced.
Raised(f, key, n) == [f EXCEPT ![key].count = n]

\* What LoginLimiter.take decides and keeps, in terms of the live windows.
LEMMA Taken ==
    ASSUME NEW f, NEW key, NEW limit, NEW now, NEW live, live = Live(f, now)
    PROVE  /\ key \in DOMAIN live =>
                /\ take(f, key, limit, now).allowed <=> More(live[key], limit) <= limit
                /\ take(f, key, limit, now).attempts
                     = Raised(live, key, More(live[key], limit))
           /\ key \notin DOMAIN live =>
                take(f, key, limit, now).allowed <=> ~AtCapacity(live)
           /\ key \notin DOMAIN live /\ AtCapacity(live) =>
                take(f, key, limit, now).attempts = live
           /\ key \notin DOMAIN live /\ ~AtCapacity(live) =>
                take(f, key, limit, now).attempts = With(live, key, Opened(now))
  <1>1. CASE key \in DOMAIN live
    <2> DEFINE now_live == Live(f, now)
    <2>1. take(f, key, limit, now)
            = [allowed |-> More(now_live[key], limit) <= limit,
               attempts |-> Raised(now_live, key, More(now_live[key], limit))]
      BY <1>1, Zenon DEF take, More, Raised
    <2>2. take(f, key, limit, now).attempts
            = Raised(live, key, More(live[key], limit))
      BY <2>1
    <2>3. take(f, key, limit, now).allowed = (More(live[key], limit) <= limit)
      BY <2>1
    <2>4. take(f, key, limit, now).allowed <=> More(live[key], limit) <= limit
      BY <2>3, Zenon
    <2>5. QED
      BY <1>1, <2>2, <2>4
  <1>2. CASE key \notin DOMAIN live /\ AtCapacity(live)
    BY <1>2 DEF take
  <1>3. CASE key \notin DOMAIN live /\ ~AtCapacity(live)
    BY <1>3 DEF take, With, Opened
  <1>4. QED
    BY <1>1, <1>2, <1>3

\* An attempt keeps the table of sources within its capacity, and opens no
\* window longer than its own.
LEMMA TakeKeeps ==
    ASSUME NEW f, Table(f), NEW key \in Source, NEW now \in Nat, NEW time \in Nat,
           \A k \in DOMAIN f : f[k].reset <= time, now + Window <= time
    PROVE  LET g == take(f, key, ClientLimit, now).attempts IN
           Table(g) /\ \A k \in DOMAIN g : g[k].reset <= time
  <1> DEFINE live == Live(f, now)
             g == take(f, key, ClientLimit, now).attempts
             more == More(live[key], ClientLimit)
  <1>1. /\ Table(live)
        /\ \A k \in DOMAIN live : live[k].reset <= time /\ live[k] \in Bucket
    <2>1. /\ Table(live)
          /\ DOMAIN live = {k \in DOMAIN f : f[k].reset > now}
          /\ \A k \in DOMAIN live : live[k] = f[k]
      BY LiveTable
    <2> HIDE DEF live
    <2>2. QED
      BY <2>1 DEF Table
  <1>2. CASE key \in DOMAIN live
    <2>1. g = Raised(live, key, more)
      BY <1>2, Taken
    <2>2. live[key] \in Bucket /\ live[key].count \in Nat
      BY <1>1, <1>2 DEF Bucket
    <2>3. more \in Nat
      <3>1. live[key].count + 1 \in Nat /\ ClientLimit + 1 \in Nat
        BY <2>2, Positive
      <3>2. QED
        BY <3>1, MinOfTwo DEF More
    <2> HIDE DEF live, g, more
    <2>4. [live[key] EXCEPT !.count = more] \in Bucket
          /\ [live[key] EXCEPT !.count = more].reset = live[key].reset
      BY <2>2, <2>3 DEF Bucket
    <2>5. /\ DOMAIN g = DOMAIN live
          /\ g = [k \in DOMAIN g |-> g[k]]
          /\ g[key] = [live[key] EXCEPT !.count = more]
          /\ \A k \in DOMAIN live : k # key => g[k] = live[k]
      BY <1>2, <2>1 DEF Raised
    <2>6. QED
      BY <1>1, <2>4, <2>5 DEF Table, g
  <1>3. CASE key \notin DOMAIN live /\ AtCapacity(live)
    <2>1. g = live
      BY <1>3, Taken
    <2>2. QED
      BY <1>1, <2>1
  <1>4. CASE key \notin DOMAIN live /\ ~AtCapacity(live)
    <2>1. g = With(live, key, Opened(now))
      BY <1>4, Taken
    <2>2. Opened(now) \in Bucket /\ Opened(now).reset <= time
      BY Positive DEF Bucket, Opened
    <2> HIDE DEF live, g
    <2>3. Table(g)
      BY <1>1, <1>4, <2>1, <2>2, LargerTable
    <2>4. \A k \in DOMAIN g : g[k].reset <= time
      BY <1>1, <2>1, <2>2 DEF With
    <2>5. QED
      BY <2>3, <2>4 DEF g
  <1>5. QED
    BY <1>2, <1>3, <1>4

\* So does the limiter of the total.
LEMMA TotalKeeps ==
    ASSUME NEW total \in Bucket, NEW now \in Nat, NEW time \in Nat,
           total.reset <= time, now + Window <= time
    PROVE  LET t == takeTotal(total, now).total IN t \in Bucket /\ t.reset <= time
  <1> DEFINE t == takeTotal(total, now).total
  <1>1. CASE total.reset <= now
    BY <1>1, Positive DEF takeTotal, Bucket
  <1>2. CASE ~(total.reset <= now)
    <2> DEFINE more == Min({total.count + 1, GlobalLimit + 1})
    <2>1. total.count + 1 \in Nat /\ GlobalLimit + 1 \in Nat
      BY Positive DEF Bucket
    <2>2. more \in Nat
      BY <2>1, MinOfTwo
    <2>3. t = [total EXCEPT !.count = more]
      BY <1>2 DEF takeTotal
    <2> HIDE DEF more, t
    <2>4. QED
      BY <2>2, <2>3 DEF Bucket, t
  <1>3. QED
    BY <1>1, <1>2

\* The state of the two limiters, and that of a source's own limiter replaced.
Both(total, attempts) == [global |-> total, clients |-> attempts]

OwnOnly(st, attempts) == [st EXCEPT !.clients = attempts]

\* allowLoginAttempt takes from the total only what the source's own limiter
\* let through.
LEMMA TwoLimiters ==
    ASSUME NEW st, NEW key, NEW now
    PROVE  /\ take(st.clients, key, ClientLimit, now).allowed =>
                /\ allowLoginAttempt(st, key, now).allowed
                     = takeTotal(st.global, now).allowed
                /\ allowLoginAttempt(st, key, now).state
                     = Both(takeTotal(st.global, now).total,
                            take(st.clients, key, ClientLimit, now).attempts)
           /\ ~take(st.clients, key, ClientLimit, now).allowed =>
                /\ allowLoginAttempt(st, key, now).allowed = FALSE
                /\ allowLoginAttempt(st, key, now).state
                     = OwnOnly(st, take(st.clients, key, ClientLimit, now).attempts)
  BY DEF allowLoginAttempt, Both, OwnOnly

\* The two in-memory limiters keep their state within its bounds.
LEMMA ProxyKeeps ==
    ASSUME NEW st, State(st), NEW key \in Source, NEW now \in Nat, NEW time \in Nat,
           EndsBy(st, time), now + Window <= time
    PROVE  LET after == allowLoginAttempt(st, key, now).state IN
           State(after) /\ EndsBy(after, time)
  <1> DEFINE own == take(st.clients, key, ClientLimit, now)
             all == takeTotal(st.global, now)
             after == allowLoginAttempt(st, key, now).state
  <1>1. /\ Table(own.attempts)
        /\ \A k \in DOMAIN own.attempts : own.attempts[k].reset <= time
    BY TakeKeeps DEF State, EndsBy
  <1>2. all.total \in Bucket /\ all.total.reset <= time
    BY TotalKeeps DEF State, EndsBy
  <1>3. after = Both(all.total, own.attempts) \/ after = OwnOnly(st, own.attempts)
    BY TwoLimiters
  <1> HIDE DEF own, all, after
  <1>4. QED
    BY <1>1, <1>2, <1>3 DEF State, EndsBy, after, Both, OwnOnly

(***************************************************************************)
(* The invariant.                                                          *)
(***************************************************************************)

\* The limiter starts without windows.
LEMMA LoginInit == Init => Inv
  <1> SUFFICES ASSUME Init PROVE Inv
    OBVIOUS
  <1>1. /\ DOMAIN limits.clients = {}
        /\ limits = [global |-> limits.global, clients |-> limits.clients]
        /\ limits.clients = [k \in DOMAIN limits.clients |-> limits.clients[k]]
        /\ limits.global = [count |-> 0, reset |-> 0]
    BY DEF Init, NoBucket
  <1>2. Table(limits.clients)
    BY <1>1, FS_EmptySet, Positive DEF Table
  <1>3. QED
    BY <1>1, <1>2, Positive DEF Init, Inv, State, Counted, EndsBy, Bucket, Drift

\* Every attempt, at any clock, and every tick keep it.
LEMMA LoginStep ==
    ASSUME Inv, [Next]_vars
    PROVE  Inv'
  <1>1. ASSUME NEW key \in Key, NEW d \in 0..2 * Skew, backend = "proxy" => d = Skew,
               Login(key, clock + d - Skew)
        PROVE  Inv'
    <2> DEFINE now == clock + d - Skew
               time == clock + Window + Drift
    <2>1. /\ now \in Nat /\ time \in Nat
          /\ now + Window <= time
      BY <1>1, Positive DEF Inv, Drift
    <2>2. backend' = backend /\ clock' = clock /\ limits' = Attempt(limits, key, now).state
      BY <1>1 DEF Login
    <2>3. EndsBy(limits, time)
      BY DEF Inv
    <2> HIDE DEF now, time
    <2>4. CASE backend = "postgres"
      <3>1. key \in Source \cup {None}
        BY <2>4 DEF Key
      <3>2. /\ State(limits') /\ Counted(limits')
            /\ EndsBy(limits', time)
        BY <2>1, <2>2, <2>3, <2>4, <3>1, SharedKeeps DEF Attempt, Inv
      <3>3. QED
        BY <2>2, <3>2 DEF Inv, State, Counted, EndsBy, Drift, time
    <2>5. CASE backend = "proxy"
      <3>1. key \in Source
        BY <2>5 DEF Key
      <3>2. State(limits') /\ EndsBy(limits', time)
        BY <2>1, <2>2, <2>3, <2>5, <3>1, ProxyKeeps DEF Attempt, Inv
      <3>3. QED
        BY <2>2, <2>5, <3>2 DEF Inv, State, Counted, EndsBy, Drift, time
    <2>6. QED
      BY <2>4, <2>5 DEF Inv
  <1>2. CASE Tick
    <2>1. clock' = clock + 1 /\ backend' = backend /\ limits' = limits
      BY <1>2 DEF Tick
    <2>2. EndsBy(limits', clock' + Window + Drift')
      <3>1. /\ limits.global.reset \in Nat
            /\ \A k \in DOMAIN limits.clients : limits.clients[k].reset \in Nat
        BY DEF Inv, State, Table, Bucket
      <3>2. QED
        BY <2>1, <3>1, Positive DEF Inv, EndsBy, Drift
    <2>3. QED
      BY <2>1, <2>2, Positive DEF Inv, State, Counted, EndsBy, Drift
  <1>3. CASE UNCHANGED vars
    BY <1>3 DEF vars, Inv, State, Counted, EndsBy, Drift
  <1>4. QED
    BY <1>1, <1>2, <1>3 DEF Next

\* The invariant holds in every behaviour.
LEMMA LoginInv == Spec => []Inv
  <1>1. QED
    BY LoginInit, LoginStep, PTL DEF Spec

\* The shared state is always one that decodeState accepts, and the tables of
\* both limiters are bounded.
THEOREM AlwaysDecodable == Spec => []StaysDecodable
  <1>1. Inv => StaysDecodable
    BY DEF Inv, State, Table, Counted, StaysDecodable
  <1>2. QED
    BY <1>1, LoginInv, PTL

(***************************************************************************)
(* Coming back.                                                            *)
(***************************************************************************)

\* When every window has ended, whoever comes is let through.
LEMMA AllForgotten ==
    ASSUME Inv, NEW key \in Key, NEW now \in Nat, EndsBy(limits, now)
    PROVE  Attempt(limits, key, now).allowed
  <1>1. Table(limits.clients)
    BY DEF Inv, State
  <1>2. DOMAIN Live(limits.clients, now) = {}
    <2>1. \A k \in DOMAIN limits.clients : ~(limits.clients[k].reset > now)
      BY <1>1 DEF EndsBy, Table, Bucket
    <2>2. QED
      BY <1>1, <2>1, LiveTable
  <1>3. ~AtCapacity(Live(limits.clients, now))
    BY <1>2, FS_EmptySet, Positive DEF AtCapacity
  <1>4. CASE backend = "postgres"
    <2> DEFINE s == decodeState(limits, now)
    <2>1. /\ s.clients = Live(limits.clients, now)
          /\ s.global.count = 0
      BY DEF decodeState, EndsBy
    <2>2. ~Refused(s, key)
      BY <1>2, <1>3, <2>1, Positive DEF Refused, AtLimit
    <2>3. QED
      BY <1>4, <2>2, Decision DEF Attempt
  <1>5. CASE backend # "postgres"
    <2> DEFINE own == take(limits.clients, key, ClientLimit, now)
               all == takeTotal(limits.global, now)
    <2>1. own.allowed
      BY <1>2, <1>3, Taken
    <2>2. all.allowed
      BY DEF takeTotal, EndsBy
    <2>3. allowLoginAttempt(limits, key, now).allowed = all.allowed
      BY <2>1, TwoLimiters
    <2>4. QED
      BY <1>5, <2>2, <2>3 DEF Attempt
  <1>6. QED
    BY <1>4, <1>5

\* Whoever is refused gets through one window later, whichever clocks wrote and
\* read the state.
THEOREM RetryStaysHonoured == Spec => []RetryIsHonoured
  <1>1. Inv => RetryIsHonoured
    <2> SUFFICES ASSUME Inv, NEW k \in Key
                 PROVE  Attempt(limits, k, clock + Window + Drift).allowed
      BY DEF RetryIsHonoured, Drift
    <2>1. clock + Window + Drift \in Nat
      BY Positive DEF Inv, Drift
    <2>2. EndsBy(limits, clock + Window + Drift)
      BY DEF Inv
    <2>3. QED
      BY <2>1, <2>2, AllForgotten
  <1>2. QED
    BY <1>1, LoginInv, PTL

(***************************************************************************)
(* Throttled sources.                                                      *)
(***************************************************************************)

\* Fewer sources with the same windows have used no more, whenever it is looked at.
LEMMA FewerUsed ==
    ASSUME NEW before, Table(before.clients), NEW after, NEW j, NEW at \in Int,
           DOMAIN after.clients \subseteq DOMAIN before.clients,
           j \in DOMAIN after.clients => after.clients[j] = before.clients[j]
    PROVE  OwnUsed(after, j, at) <= OwnUsed(before, j, at)
  <1>1. \A x \in DOMAIN before.clients : before.clients[x].count \in Nat
    BY DEF Table, Bucket
  <1>2. OwnUsed(before, j, at) \in Nat
    BY <1>1 DEF OwnUsed
  <1>3. OwnUsed(after, j, at) = OwnUsed(before, j, at) \/ OwnUsed(after, j, at) = 0
    BY DEF OwnUsed
  <1>4. QED
    BY <1>2, <1>3

\* A throttled attempt only brings the shared state up to date.
LEMMA ThrottledShared ==
    ASSUME Inv, backend = "postgres", NEW now \in Nat, NEW k \in DOMAIN limits.clients,
           limits.clients[k].count >= ClientLimit, limits.clients[k].reset > now
    PROVE  NothingTaken(limits, Attempt(limits, k, now).state, k, now)
  <1> DEFINE s == decodeState(limits, now)
  <1>0. /\ Table(limits.clients) /\ clock \in Nat
        /\ limits.global \in Bucket
    BY DEF Inv, State
  <1>1. /\ s.clients = Live(limits.clients, now)
        /\ s.global = IF limits.global.reset <= now
                      THEN [count |-> 0, reset |-> now + Window] ELSE limits.global
    BY DEF decodeState
  <1>2. /\ k \in DOMAIN s.clients /\ s.clients[k] = limits.clients[k]
        /\ DOMAIN s.clients \subseteq DOMAIN limits.clients
        /\ \A j \in DOMAIN s.clients : s.clients[j] = limits.clients[j]
    <2>1. /\ DOMAIN s.clients = {x \in DOMAIN limits.clients : limits.clients[x].reset > now}
          /\ \A x \in DOMAIN s.clients : s.clients[x] = limits.clients[x]
      <3>1. /\ DOMAIN Live(limits.clients, now)
                 = {x \in DOMAIN limits.clients : limits.clients[x].reset > now}
            /\ \A x \in DOMAIN Live(limits.clients, now) :
                 Live(limits.clients, now)[x] = limits.clients[x]
        BY <1>0, LiveTable
      <3> HIDE DEF s
      <3>2. QED
        BY <1>1, <3>1
    <2> HIDE DEF s
    <2>2. QED
      BY <2>1
  <1>3. Refused(s, k)
    BY <1>2 DEF Refused, AtLimit
  <1>4. Attempt(limits, k, now).state = s
    BY <1>3, Decision DEF Attempt
  <1> HIDE DEF s
  <1>5. ASSUME NEW at \in Int
        PROVE  SharedUsed(s, at) <= SharedUsed(limits, at)
    <2>1. s.global = limits.global \/ s.global = [count |-> 0, reset |-> now + Window]
      BY <1>1
    <2>2. SharedUsed(s, at) = SharedUsed(limits, at) \/ SharedUsed(s, at) = 0
      BY <2>1 DEF SharedUsed
    <2>3. SharedUsed(limits, at) \in Nat
      BY <1>0 DEF SharedUsed, Bucket
    <2>4. QED
      BY <2>2, <2>3
  <1>6. ASSUME NEW at \in Int, NEW j \in Source \ {k}
        PROVE  OwnUsed(s, j, at) <= OwnUsed(limits, j, at)
    BY <1>0, <1>2, FewerUsed
  <1>7. (clock - Skew)..(clock + Skew + Window) \subseteq Int
    BY <1>0, Positive
  <1>8. NothingTaken(limits, s, k, now)
    BY <1>1, <1>2, <1>5, <1>6, <1>7 DEF NothingTaken
  <1>9. QED
    BY <1>4, <1>8

\* A throttled attempt changes a count that is above its limit, and not the total.
LEMMA ThrottledProxy ==
    ASSUME Inv, backend = "proxy", NEW k \in DOMAIN limits.clients,
           limits.clients[k].count >= ClientLimit, limits.clients[k].reset > clock
    PROVE  NothingTaken(limits, Attempt(limits, k, clock).state, k, clock)
  <1> DEFINE f == limits.clients
             live == Live(f, clock)
             more == More(live[k], ClientLimit)
             own == take(f, k, ClientLimit, clock)
             after == Attempt(limits, k, clock).state
  <1>0. /\ State(limits) /\ Table(f)
        /\ clock \in Nat
    BY Positive DEF Inv, State
  <1>1. /\ Table(live)
        /\ DOMAIN live = {x \in DOMAIN f : f[x].reset > clock}
        /\ \A x \in DOMAIN live : live[x] = f[x]
        /\ k \in DOMAIN live
    <2>1. /\ Table(live)
          /\ DOMAIN live = {x \in DOMAIN f : f[x].reset > clock}
          /\ \A x \in DOMAIN live : live[x] = f[x]
      BY <1>0, LiveTable
    <2>2. QED
      BY <2>1
  <1>2. \A x \in DOMAIN f : f[x] \in Bucket /\ f[x].reset \in Nat /\ f[x].count \in Nat
    BY <1>0 DEF Table, Bucket
  <1>3. more = ClientLimit + 1
    <2>1. live[k].count + 1 \in Nat /\ ClientLimit + 1 \in Nat
      BY <1>1, <1>2, Positive
    <2>2. more = IF live[k].count + 1 <= ClientLimit + 1 THEN live[k].count + 1
                 ELSE ClientLimit + 1
      BY <2>1, MinOfTwo DEF More
    <2>3. live[k].count >= ClientLimit /\ live[k].count \in Nat
      BY <1>1, <1>2
    <2>4. QED
      BY <2>2, <2>3, Positive
  <1>4. /\ own.attempts = Raised(live, k, more)
        /\ ~own.allowed
    <2>1. own.attempts = Raised(live, k, more) /\ (own.allowed <=> more <= ClientLimit)
      BY <1>1, Taken
    <2>2. ~(more <= ClientLimit)
      BY <1>3, Positive
    <2>3. QED
      BY <2>1, <2>2
  <1>5. after = OwnOnly(limits, own.attempts)
    BY <1>4, TwoLimiters DEF Attempt
  <1>6. after.clients = own.attempts /\ after.global = limits.global
    BY <1>0, <1>5 DEF State, OwnOnly
  <1> DEFINE g == after.clients
  <1>7. /\ DOMAIN g = DOMAIN live
        /\ \A x \in DOMAIN live : x # k => g[x] = f[x]
        /\ g[k].reset = f[k].reset
    <2>1. g = Raised(live, k, more)
      BY <1>4, <1>6
    <2>2. live[k] \in Bucket
      BY <1>1, <1>2
    <2> HIDE DEF live, g, more, f
    <2>3. QED
      BY <1>1, <2>1, <2>2 DEF Bucket, Raised
  <1> HIDE DEF live, own, after, more, g, f
  <1>8. DOMAIN after.clients \subseteq DOMAIN limits.clients
        /\ \A x \in DOMAIN after.clients : x # k => after.clients[x] = limits.clients[x]
    BY <1>1, <1>7 DEF f, g
  <1>9. ASSUME NEW at \in Int, NEW j \in Source \ {k}
        PROVE  OwnUsed(after, j, at) <= OwnUsed(limits, j, at)
    <2>1. Table(limits.clients)
      BY <1>0 DEF f
    <2>2. QED
      BY <1>8, <2>1, FewerUsed
  <1>10. ASSUME NEW at \in Int
         PROVE  SharedUsed(after, at) <= SharedUsed(limits, at)
    <2>1. SharedUsed(after, at) = SharedUsed(limits, at)
      BY <1>6 DEF SharedUsed
    <2>2. SharedUsed(limits, at) \in Nat
      BY <1>0 DEF SharedUsed, State, Bucket
    <2>3. QED
      BY <2>1, <2>2
  <1>11. (clock - Skew)..(clock + Skew + Window) \subseteq Int
    BY <1>0, Positive
  <1>12. NothingTaken(limits, after, k, clock)
    BY <1>6, <1>8, <1>9, <1>10, <1>11 DEF NothingTaken
  <1>13. QED
    BY <1>12 DEF after

\* Whichever instance and clock answers, a throttled source uses up nothing of what
\* the others share or have.
THEOREM ThrottledTakesNone == Spec => []ThrottledTakesNothing
  <1>1. Inv => ThrottledTakesNothing
    <2> SUFFICES ASSUME Inv, NEW k \in DOMAIN limits.clients, NEW d \in 0..2 * Skew,
                        backend = "proxy" => d = Skew,
                        limits.clients[k].count >= ClientLimit,
                        limits.clients[k].reset > clock + d - Skew
                 PROVE  NothingTaken(limits, Attempt(limits, k, clock + d - Skew).state,
                                     k, clock + d - Skew)
      BY DEF ThrottledTakesNothing
    <2>1. PICK now \in Nat : now = clock + d - Skew
      BY Positive DEF Inv
    <2>2. CASE backend = "postgres"
      BY <2>1, <2>2, ThrottledShared
    <2>3. CASE backend = "proxy"
      <3>1. now = clock
        BY <2>1, <2>3, Positive DEF Inv
      <3>2. QED
        BY <2>1, <2>3, <3>1, ThrottledProxy
    <2>4. QED
      BY <2>2, <2>3 DEF Inv
  <1>2. QED
    BY <1>1, LoginInv, PTL

(***************************************************************************)
(* How many attempts pass.                                                 *)
(***************************************************************************)

Everyone == Source \cup {None}

\* The attempts a history records: of one source at one age, of some at some
\* ages, and the number of these.
Then(h, k, a) == {<<k, a, n>> : n \in 1..h[k][a]}

Of(h, keys, ages) ==
    UNION {{<<k, a, n>> : n \in 1..h[k][a]} : k \in keys, a \in ages}

Number(h, keys, ages) == Cardinality(Of(h, keys, ages))

Recorded(h) ==
    /\ h \in [Everyone -> [Ages -> Nat]]
    /\ IsFiniteSet(Of(h, Everyone, Ages))

\* The history after one more attempt, and one tick later.
Noted(h, key) == [h EXCEPT ![key][0] = @ + 1]

Older(h) == [k \in DOMAIN h |-> [a \in Ages |-> IF a = 0 THEN 0 ELSE h[k][a - 1]]]

\* Ages are numbers, 0 the first of them.
LEMMA AgesAreNumbers == Ages \subseteq Nat /\ 0 \in Ages
  BY LimitAssumption DEF Ages

\* What a history records.
LEMMA WhatIsRecorded ==
    ASSUME NEW h, NEW keys, NEW ages, NEW x
    PROVE  x \in Of(h, keys, ages)
             <=> \E k \in keys, a \in ages : \E n \in 1..h[k][a] : x = <<k, a, n>>
  <1>1. \A k, a : x \in Then(h, k, a) <=> \E n \in 1..h[k][a] : x = <<k, a, n>>
    BY DEF Then
  <1>2. Of(h, keys, ages) = UNION {Then(h, k, a) : k \in keys, a \in ages}
    BY DEF Of, Then
  <1>3. x \in UNION {Then(h, k, a) : k \in keys, a \in ages}
          <=> \E k \in keys, a \in ages : x \in Then(h, k, a)
    OBVIOUS
  <1>4. QED
    BY <1>1, <1>2, <1>3

\* A part of a history is finite.
LEMMA PartIsFinite ==
    ASSUME NEW h, Recorded(h), NEW keys \in SUBSET Everyone, NEW ages \in SUBSET Ages
    PROVE  IsFiniteSet(Of(h, keys, ages)) /\ Number(h, keys, ages) \in Nat
  <1>1. Of(h, keys, ages) \in SUBSET Of(h, Everyone, Ages)
    BY WhatIsRecorded
  <1>2. IsFiniteSet(Of(h, keys, ages))
    BY <1>1, FS_Subset DEF Recorded
  <1>3. QED
    BY <1>2, FS_CardinalityType DEF Number

\* One more attempt counts once, for its own source.
LEMMA OneIsNoted ==
    ASSUME NEW h, Recorded(h), NEW key \in Everyone
    PROVE  /\ Recorded(Noted(h, key))
           /\ \A keys \in SUBSET Everyone, ages \in SUBSET Ages :
                /\ Number(Noted(h, key), keys, ages) <= Number(h, keys, ages) + 1
                /\ key \notin keys =>
                     Number(Noted(h, key), keys, ages) = Number(h, keys, ages)
  <1> DEFINE g == Noted(h, key)
             new == <<key, 0, h[key][0] + 1>>
  <1>1. /\ g \in [Everyone -> [Ages -> Nat]]
        /\ g[key][0] = h[key][0] + 1
        /\ \A k \in Everyone, a \in Ages : k # key \/ a # 0 => g[k][a] = h[k][a]
        /\ h[key][0] \in Nat
    BY AgesAreNumbers DEF Recorded, Noted
  <1> HIDE DEF g
  <1>2. ASSUME NEW keys \in SUBSET Everyone, NEW ages \in SUBSET Ages
        PROVE  /\ Of(g, keys, ages) \subseteq Of(h, keys, ages) \cup {new}
               /\ key \notin keys => Of(g, keys, ages) = Of(h, keys, ages)
    <2>1. ASSUME NEW x \in Of(g, keys, ages) PROVE x \in Of(h, keys, ages) \cup {new}
      <3>1. PICK k \in keys, a \in ages : \E n \in 1..g[k][a] : x = <<k, a, n>>
        BY <2>1, WhatIsRecorded
      <3>2. PICK n \in 1..g[k][a] : x = <<k, a, n>>
        BY <3>1
      <3>3. CASE k # key \/ a # 0
        <4>1. n \in 1..h[k][a]
          BY <1>1, <3>2, <3>3
        <4>2. QED
          BY <3>2, <4>1, WhatIsRecorded
      <3>4. CASE k = key /\ a = 0
        <4>1. n \in 1..h[k][a] \/ n = h[key][0] + 1
          BY <1>1, <3>2, <3>4
        <4>2. QED
          BY <3>2, <3>4, <4>1, WhatIsRecorded
      <3>5. QED
        BY <3>3, <3>4
    <2>2. CASE key \notin keys
      <3>1. \A k \in keys, a \in ages : g[k][a] = h[k][a]
        BY <1>1, <2>2
      <3>2. \A x : x \in Of(g, keys, ages) <=> x \in Of(h, keys, ages)
        BY <3>1, WhatIsRecorded
      <3>3. QED
        BY <3>2
    <2>3. QED
      BY <2>1, <2>2
  <1>3. ASSUME NEW keys \in SUBSET Everyone, NEW ages \in SUBSET Ages
        PROVE  /\ IsFiniteSet(Of(g, keys, ages))
               /\ Number(g, keys, ages) <= Number(h, keys, ages) + 1
               /\ key \notin keys => Number(g, keys, ages) = Number(h, keys, ages)
    <2> DEFINE more == Of(h, keys, ages) \cup {new}
    <2>1. IsFiniteSet(Of(h, keys, ages)) /\ Number(h, keys, ages) \in Nat
      BY PartIsFinite
    <2>2. /\ IsFiniteSet(more)
          /\ Cardinality(more) = IF new \in Of(h, keys, ages) THEN Number(h, keys, ages)
                                 ELSE Number(h, keys, ages) + 1
      BY <2>1, FS_AddElement DEF Number
    <2>3. Of(g, keys, ages) \in SUBSET more
      BY <1>2
    <2> HIDE DEF more
    <2>4. IsFiniteSet(Of(g, keys, ages)) /\ Cardinality(Of(g, keys, ages)) <= Cardinality(more)
      BY <2>2, <2>3, FS_Subset
    <2>5. Cardinality(Of(g, keys, ages)) \in Nat
      BY <2>4, FS_CardinalityType
    <2>6. Number(g, keys, ages) <= Number(h, keys, ages) + 1
      BY <2>1, <2>2, <2>4, <2>5 DEF Number
    <2>7. QED
      BY <1>2, <2>4, <2>6 DEF Number
  <1>4. QED
    BY <1>1, <1>3 DEF Recorded, g

\* A tick only forgets.
LEMMA OlderIsFewer ==
    ASSUME NEW h, Recorded(h)
    PROVE  /\ Recorded(Older(h))
           /\ \A keys \in SUBSET Everyone, ages \in SUBSET Ages, before \in SUBSET Ages :
                (\A a \in ages : a > 0 => a - 1 \in before) =>
                    Number(Older(h), keys, ages) <= Number(h, keys, before)
  <1> DEFINE g == Older(h)
  <1>1. \A a \in Ages : a # 0 => a - 1 \in Ages
    BY LimitAssumption DEF Ages
  <1>2. /\ g \in [Everyone -> [Ages -> Nat]]
        /\ \A k \in Everyone, a \in Ages : g[k][a] = IF a = 0 THEN 0 ELSE h[k][a - 1]
    BY <1>1, AgesAreNumbers DEF Recorded, Older
  <1> HIDE DEF g
  <1>3. ASSUME NEW keys \in SUBSET Everyone, NEW ages \in SUBSET Ages,
               NEW before \in SUBSET Ages, \A a \in ages : a > 0 => a - 1 \in before
        PROVE  /\ IsFiniteSet(Of(g, keys, ages))
               /\ Number(g, keys, ages) <= Number(h, keys, before)
    <2> DEFINE f == [x \in Of(g, keys, ages) |-> <<x[1], x[2] - 1, x[3]>>]
    <2>1. \A x \in Of(g, keys, ages) :
            /\ x = <<x[1], x[2], x[3]>>
            /\ x[1] \in keys /\ x[2] \in ages /\ x[2] > 0 /\ x[3] \in 1..h[x[1]][x[2] - 1]
      <3> SUFFICES ASSUME NEW x \in Of(g, keys, ages)
                   PROVE  /\ x = <<x[1], x[2], x[3]>>
                          /\ x[1] \in keys /\ x[2] \in ages /\ x[2] > 0
                          /\ x[3] \in 1..h[x[1]][x[2] - 1]
        OBVIOUS
      <3>1. PICK k \in keys, a \in ages : \E n \in 1..g[k][a] : x = <<k, a, n>>
        BY WhatIsRecorded
      <3>2. PICK n \in 1..g[k][a] : x = <<k, a, n>>
        BY <3>1
      <3>3. g[k][a] = IF a = 0 THEN 0 ELSE h[k][a - 1]
        BY <1>2
      <3>4. a # 0 /\ a \in Nat
        BY <3>2, <3>3, AgesAreNumbers
      <3>5. QED
        BY <3>2, <3>3, <3>4
    <2>2. \A x \in Of(g, keys, ages) : f[x] \in Of(h, keys, before)
      <3> SUFFICES ASSUME NEW x \in Of(g, keys, ages) PROVE f[x] \in Of(h, keys, before)
        OBVIOUS
      <3>1. x[2] - 1 \in before
        BY <1>3, <2>1
      <3>2. QED
        BY <2>1, <3>1, WhatIsRecorded
    <2>3. \A x, y \in Of(g, keys, ages) : f[x] = f[y] => x = y
      <3> SUFFICES ASSUME NEW x \in Of(g, keys, ages), NEW y \in Of(g, keys, ages), f[x] = f[y]
                   PROVE  x = y
        OBVIOUS
      <3>1. x[1] = y[1] /\ x[2] - 1 = y[2] - 1 /\ x[3] = y[3]
        OBVIOUS
      <3>2. x[2] \in Nat /\ y[2] \in Nat
        BY <2>1, AgesAreNumbers
      <3>3. x[2] = y[2]
        BY <3>1, <3>2
      <3>4. QED
        BY <2>1, <3>1, <3>3
    <2>4. f \in Injection(Of(g, keys, ages), Of(h, keys, before))
      <3>1. f \in [Of(g, keys, ages) -> Of(h, keys, before)]
        BY <2>2
      <3> HIDE DEF f
      <3>2. QED
        BY <2>3, <3>1 DEF Injection, IsInjective
    <2>5. IsFiniteSet(Of(h, keys, before))
      BY PartIsFinite
    <2> HIDE DEF f
    <2>6. QED
      BY <2>4, <2>5, FS_Injection DEF Number
  <1>4. Recorded(g)
    <2>1. \A a \in Ages : a > 0 => a - 1 \in Ages
      BY <1>1, AgesAreNumbers
    <2>2. IsFiniteSet(Of(g, Everyone, Ages))
      BY <1>3, <2>1
    <2>3. QED
      BY <1>2, <2>2 DEF Recorded
  <1>5. QED
    BY <1>3, <1>4 DEF g

(***************************************************************************)
(* A line: some sources, the bucket they share, and what passed.  Since    *)
(* the window began at most the bucket's count passed, before that at most *)
(* one window's worth.  slack is 1 when the window starts with the first   *)
(* attempt, which the history may have forgotten before the window ends.   *)
(***************************************************************************)

\* A count goes on above the limit, what it lets through does not.
Cap(n, limit) == IF n <= limit THEN n ELSE limit

\* The ages of the attempts certainly made since the window of b began.
Young(b, time) == {a \in Ages : a + b.reset + Skew < time + Window}

\* What passed certainly inside the window of b is at most what b counted, and
\* the whole history holds at most one limit more.
Line(h, keys, b, limit, slack, time) ==
    /\ Number(h, keys, Ages) <= limit - slack + Cap(b.count, limit)
    /\ Number(h, keys, Young(b, time)) <= Cap(b.count, limit) - slack

\* A source without a bucket has at most what an ended window let through.
ClientLine(h, k, f, time) ==
    IF k \in DOMAIN f THEN Line(h, {k}, f[k], ClientLimit, 1, time)
    ELSE Number(h, {k}, Ages) <= ClientLimit - 1

ClientLines(h, f, time) == \A k \in Source : ClientLine(h, k, f, time)

Lines(h, st, time) ==
    /\ Line(h, Everyone, st.global, GlobalLimit, 0, time)
    /\ ClientLines(h, st.clients, time)

\* When a window has ended by any clock, all the history can hold is inside it.
LEMMA WindowOver ==
    ASSUME NEW h, Recorded(h), NEW keys \in SUBSET Everyone, NEW b \in Bucket,
           NEW limit \in Nat, NEW slack \in Nat, NEW time \in Nat,
           Line(h, keys, b, limit, slack, time), b.reset <= time + Skew
    PROVE  Number(h, keys, Ages) <= limit - slack
  <1>1. Young(b, time) = Ages
    <2>1. \A a \in Ages : a \in Nat /\ a <= Window - 2 * Skew - 1
      BY LimitAssumption DEF Ages
    <2>2. b.reset \in Nat
      BY DEF Bucket
    <2>3. \A a \in Ages : a + b.reset + Skew < time + Window
      BY <2>1, <2>2, Positive
    <2>4. QED
      BY <2>3 DEF Young
  <1>2. b.count \in Nat /\ Number(h, keys, Ages) \in Nat
    BY PartIsFinite DEF Bucket
  <1>3. QED
    BY <1>1, <1>2 DEF Line, Cap

\* A window that a clock opens now begins with an empty line.
LEMMA WindowOpens ==
    ASSUME NEW h, Recorded(h), NEW keys \in SUBSET Everyone, NEW b \in Bucket,
           NEW limit \in Nat, NEW slack \in Nat, NEW time \in Nat,
           slack <= b.count, b.count <= limit,
           b.reset + Skew >= time + Window,
           Number(h, keys, Ages) <= limit - slack + b.count
    PROVE  Line(h, keys, b, limit, slack, time)
  <1>1. Young(b, time) = {}
    <2>1. b.reset \in Nat
      BY DEF Bucket
    <2>2. \A a \in Ages : ~(a + b.reset + Skew < time + Window)
      BY <2>1, AgesAreNumbers, Positive
    <2>3. QED
      BY <2>2 DEF Young
  <1>2. Of(h, keys, {}) = {}
    BY WhatIsRecorded
  <1>3. Number(h, keys, {}) = 0
    BY <1>2, FS_EmptySet DEF Number
  <1>4. b.count \in Nat
    BY DEF Bucket
  <1>5. QED
    BY <1>1, <1>3, <1>4 DEF Line, Cap

\* A count below the limit pays for one attempt.
LEMMA LineFills ==
    ASSUME NEW h, Recorded(h), NEW keys \in SUBSET Everyone, NEW key \in Everyone,
           NEW b \in Bucket, NEW c \in Bucket, NEW limit \in Nat, NEW slack \in Nat,
           NEW time \in Nat, Line(h, keys, b, limit, slack, time),
           b.count < limit, c.count = b.count + 1, c.reset = b.reset
    PROVE  Line(Noted(h, key), keys, c, limit, slack, time)
  <1>1. Young(b, time) = Young(c, time) /\ Young(b, time) \in SUBSET Ages
    BY DEF Young
  <1>2. Recorded(Noted(h, key))
    BY OneIsNoted
  <1>3. /\ Number(h, keys, Ages) \in Nat /\ Number(h, keys, Young(b, time)) \in Nat
        /\ Number(Noted(h, key), keys, Ages) \in Nat
        /\ Number(Noted(h, key), keys, Young(b, time)) \in Nat
    BY <1>1, <1>2, PartIsFinite
  <1>4. /\ Number(Noted(h, key), keys, Ages) <= Number(h, keys, Ages) + 1
        /\ Number(Noted(h, key), keys, Young(b, time))
             <= Number(h, keys, Young(b, time)) + 1
    BY <1>1, OneIsNoted
  <1>5. b.count \in Nat
    BY DEF Bucket
  <1>6. Cap(c.count, limit) = Cap(b.count, limit) + 1 /\ Cap(b.count, limit) \in Nat
    BY <1>5 DEF Cap
  <1>7. QED
    BY <1>1, <1>3, <1>4, <1>6 DEF Line

\* An attempt that is counted and refused leaves the line as it is.
LEMMA LineWaits ==
    ASSUME NEW h, Recorded(h), NEW keys \in SUBSET Everyone,
           NEW b \in Bucket, NEW c \in Bucket, NEW limit \in Nat, NEW slack \in Nat,
           NEW time \in Nat, Line(h, keys, b, limit, slack, time),
           Cap(b.count, limit) <= Cap(c.count, limit), c.reset = b.reset
    PROVE  Line(h, keys, c, limit, slack, time)
  <1>1. Young(b, time) = Young(c, time) /\ Young(b, time) \in SUBSET Ages
    BY DEF Young
  <1>2. /\ Number(h, keys, Ages) \in Nat /\ Number(h, keys, Young(b, time)) \in Nat
    BY <1>1, PartIsFinite
  <1>3. Cap(b.count, limit) \in Nat /\ Cap(c.count, limit) \in Nat
    BY DEF Bucket, Cap
  <1>4. QED
    BY <1>1, <1>2, <1>3 DEF Line

\* An attempt of someone else does not touch a line.
LEMMA LineOfOthers ==
    ASSUME NEW h, Recorded(h), NEW keys \in SUBSET Everyone, NEW key \in Everyone,
           key \notin keys, NEW b, NEW limit, NEW slack, NEW time
    PROVE  /\ Line(h, keys, b, limit, slack, time)
                => Line(Noted(h, key), keys, b, limit, slack, time)
           /\ Number(Noted(h, key), keys, Ages) = Number(h, keys, Ages)
  <1>1. Young(b, time) \in SUBSET Ages
    BY DEF Young
  <1>2. QED
    BY <1>1, OneIsNoted DEF Line

\* A tick later every line holds: what was made since the window began grows
\* older with the window.
LEMMA LineAges ==
    ASSUME NEW h, Recorded(h), NEW keys \in SUBSET Everyone, NEW b \in Bucket,
           NEW limit \in Nat, NEW slack \in Nat, NEW time \in Nat
    PROVE  /\ Line(h, keys, b, limit, slack, time)
                => Line(Older(h), keys, b, limit, slack, time + 1)
           /\ Number(Older(h), keys, Ages) <= Number(h, keys, Ages)
           /\ Number(Older(h), keys, Ages) \in Nat
  <1> DEFINE now == Young(b, time + 1)
             before == Young(b, time)
  <1>1. now \in SUBSET Ages /\ before \in SUBSET Ages
    BY DEF Young
  <1>2. \A a \in Ages : a \in Nat /\ (a > 0 => a - 1 \in Ages)
    BY LimitAssumption DEF Ages
  <1>3. \A a \in now : a > 0 => a - 1 \in before
    BY <1>2, Positive DEF Young, Bucket
  <1>4. Recorded(Older(h))
    BY OlderIsFewer
  <1> HIDE DEF now, before
  <1>5. Number(Older(h), keys, now) <= Number(h, keys, before)
    BY <1>1, <1>3, OlderIsFewer
  <1>6. Number(Older(h), keys, Ages) <= Number(h, keys, Ages)
    BY <1>2, OlderIsFewer
  <1>7. /\ Number(h, keys, Ages) \in Nat /\ Number(h, keys, before) \in Nat
        /\ Number(Older(h), keys, Ages) \in Nat /\ Number(Older(h), keys, now) \in Nat
    BY <1>1, <1>4, PartIsFinite
  <1>8. Cap(b.count, limit) \in Nat
    BY DEF Cap, Bucket
  <1>9. QED
    BY <1>5, <1>6, <1>7, <1>8 DEF Line, now, before

(***************************************************************************)
(* The lines of everyone and of each source.                               *)
(***************************************************************************)

\* Windows that some clock has ended are forgotten, and their sources keep what
\* they let through.
LEMMA LiveLines ==
    ASSUME NEW h, Recorded(h), NEW f, Table(f), NEW now \in Nat, NEW time \in Nat,
           now <= time + Skew, ClientLines(h, f, time)
    PROVE  ClientLines(h, Live(f, now), time)
  <1> SUFFICES ASSUME NEW k \in Source PROVE ClientLine(h, k, Live(f, now), time)
    BY DEF ClientLines
  <1>1. /\ DOMAIN Live(f, now) = {x \in DOMAIN f : f[x].reset > now}
        /\ \A x \in DOMAIN Live(f, now) : Live(f, now)[x] = f[x]
    BY LiveTable
  <1>2. ClientLine(h, k, f, time)
    BY DEF ClientLines
  <1>3. CASE k \notin DOMAIN f
    BY <1>1, <1>2, <1>3 DEF ClientLine
  <1>4. CASE k \in DOMAIN Live(f, now)
    BY <1>1, <1>2, <1>4 DEF ClientLine
  <1>5. CASE k \in DOMAIN f /\ k \notin DOMAIN Live(f, now)
    <2>1. f[k] \in Bucket /\ f[k].reset \in Nat
      BY <1>5 DEF Table, Bucket
    <2>2. f[k].reset <= time + Skew
      BY <1>1, <1>5, <2>1, Positive
    <2>3. Line(h, {k}, f[k], ClientLimit, 1, time)
      BY <1>2, <1>5 DEF ClientLine
    <2>4. {k} \in SUBSET Everyone
      BY DEF Everyone
    <2>5. Number(h, {k}, Ages) <= ClientLimit - 1
      BY <2>1, <2>2, <2>3, <2>4, WindowOver, Positive
    <2>6. QED
      BY <1>5, <2>5 DEF ClientLine
  <1>6. QED
    BY <1>3, <1>4, <1>5

\* The attempt of one source, let through into its bucket b or refused with the
\* bucket b, leaves the lines of the others.
LEMMA OneLineChanges ==
    ASSUME NEW h, Recorded(h), NEW f, NEW g, NEW time, NEW key \in Everyone,
           ClientLines(h, f, time),
           \A k \in Source : k # key =>
               (k \in DOMAIN g <=> k \in DOMAIN f) /\ (k \in DOMAIN f => g[k] = f[k])
    PROVE  /\ (key \in Source => ClientLine(h, key, g, time)) => ClientLines(h, g, time)
           /\ (key \in Source => ClientLine(Noted(h, key), key, g, time))
                => ClientLines(Noted(h, key), g, time)
  <1>1. ASSUME NEW k \in Source, k # key
        PROVE  ClientLine(h, k, g, time) /\ ClientLine(Noted(h, key), k, g, time)
    <2>1. ClientLine(h, k, f, time)
      BY DEF ClientLines
    <2>2. ClientLine(h, k, g, time)
      BY <1>1, <2>1 DEF ClientLine
    <2>3. {k} \in SUBSET Everyone /\ key \notin {k}
      BY <1>1 DEF Everyone
    <2>4. /\ Line(h, {k}, g[k], ClientLimit, 1, time)
               => Line(Noted(h, key), {k}, g[k], ClientLimit, 1, time)
          /\ Number(Noted(h, key), {k}, Ages) = Number(h, {k}, Ages)
      BY <2>3, LineOfOthers
    <2>5. QED
      BY <2>2, <2>4 DEF ClientLine
  <1>2. QED
    BY <1>1 DEF ClientLines

\* A source that opens a window does so with one attempt.
LEMMA ClientOpens ==
    ASSUME NEW h, Recorded(h), NEW k \in Source, NEW f, k \notin DOMAIN f,
           NEW g, k \in DOMAIN g, NEW now \in Nat, NEW time \in Nat,
           g[k] = Opened(now), now + Skew >= time, ClientLine(h, k, f, time)
    PROVE  ClientLine(h, k, g, time) /\ ClientLine(Noted(h, k), k, g, time)
  <1>1. {k} \in SUBSET Everyone /\ k \in Everyone
    BY DEF Everyone
  <1>2. Number(h, {k}, Ages) <= ClientLimit - 1
    BY DEF ClientLine
  <1>3. Recorded(Noted(h, k)) /\ Number(Noted(h, k), {k}, Ages) <= Number(h, {k}, Ages) + 1
    BY <1>1, OneIsNoted, Zenon DEF Ages
  <1>4. Number(h, {k}, Ages) \in Nat /\ Number(Noted(h, k), {k}, Ages) \in Nat
    BY <1>1, <1>3, PartIsFinite
  <1>5. /\ Opened(now) \in Bucket /\ Opened(now).count = 1
        /\ Opened(now).reset + Skew >= time + Window
    BY Positive DEF Opened, Bucket
  <1>6. Line(h, {k}, Opened(now), ClientLimit, 1, time)
    BY <1>1, <1>2, <1>4, <1>5, WindowOpens, Positive
  <1>7. Line(Noted(h, k), {k}, Opened(now), ClientLimit, 1, time)
    BY <1>1, <1>2, <1>3, <1>4, <1>5, WindowOpens, Positive
  <1>8. QED
    BY <1>6, <1>7 DEF ClientLine

\* nextLoginRateLimit keeps the lines, whichever clock decides.
LEMMA SharedLines ==
    ASSUME NEW h, Recorded(h), NEW st, State(st), NEW key \in Everyone,
           NEW now \in Nat, NEW time \in Nat, now <= time + Skew, time <= now + Skew,
           Lines(h, st, time)
    PROVE  LET r == nextLoginRateLimit(st, key, now) IN
           /\ r.allowed => Lines(Noted(h, key), r.state, time)
           /\ ~r.allowed => Lines(h, r.state, time)
  <1> DEFINE s == decodeState(st, now)
             r == nextLoginRateLimit(st, key, now)
  <1>1. /\ State(s)
        /\ s.global = (IF st.global.reset <= now
                       THEN [count |-> 0, reset |-> now + Window] ELSE st.global)
        /\ s.clients = Live(st.clients, now)
    BY Decoded
  <1>2. Table(st.clients) /\ st.global \in Bucket
    BY DEF State
  <1>a. Everyone \in SUBSET Everyone
    OBVIOUS
  <1> HIDE DEF s
  <1>3. Line(h, Everyone, s.global, GlobalLimit, 0, time)
    <2>1. CASE st.global.reset <= now
      <3>1. Line(h, Everyone, st.global, GlobalLimit, 0, time)
        BY DEF Lines
      <3>2. st.global.reset <= time + Skew
        BY <1>2, <2>1, Positive DEF Bucket
      <3>3. Number(h, Everyone, Ages) <= GlobalLimit
        <4>1. Number(h, Everyone, Ages) <= GlobalLimit - 0
          BY <1>2, <1>a, <3>1, <3>2, WindowOver, Positive
        <4>2. QED
          BY <4>1, Positive
      <3>4. /\ s.global = [count |-> 0, reset |-> now + Window]
            /\ s.global \in Bucket
        BY <1>1, <2>1 DEF State
      <3>5. s.global.count = 0 /\ s.global.reset + Skew >= time + Window
        BY <3>4, Positive
      <3>6. Number(h, Everyone, Ages) <= GlobalLimit - 0 + s.global.count
        BY <3>3, <3>5, Positive
      <3>7. QED
        BY <1>a, <3>4, <3>5, <3>6, WindowOpens, Positive
    <2>2. CASE ~(st.global.reset <= now)
      BY <1>1, <2>2 DEF Lines
    <2>3. QED
      BY <2>1, <2>2
  <1>4. ClientLines(h, s.clients, time)
    BY <1>1, <1>2, LiveLines DEF Lines
  <1>5. CASE Refused(s, key)
    <2>1. ~r.allowed /\ r.state = s
      BY <1>5, Decision DEF s
    <2>2. QED
      BY <1>3, <1>4, <2>1 DEF Lines
  <1>6. CASE ~Refused(s, key)
    <2>1. r.allowed /\ r.state = Advanced(s, key, now)
      BY <1>6, Decision DEF s
    <2> DEFINE after == r.state
    <2>2. /\ after.global = OneMore(s.global)
          /\ after.clients = IF ~Tracked(key) THEN s.clients
                             ELSE With(s.clients, key, Filled(s, key, now))
      BY <2>1 DEF Advanced
    <2> HIDE DEF r, after
    <2>3. Line(Noted(h, key), Everyone, after.global, GlobalLimit, 0, time)
      <3>1. s.global \in Bucket /\ s.global.count < GlobalLimit
        BY <1>1, <1>6, Positive DEF State, Refused, AtLimit, Bucket
      <3>2. /\ after.global \in Bucket /\ after.global.count = s.global.count + 1
            /\ after.global.reset = s.global.reset
        BY <2>2, <3>1 DEF OneMore, Bucket
      <3>3. QED
        BY <1>3, <1>a, <3>1, <3>2, LineFills, Positive
    <2>4. \A k \in Source : k # key =>
            /\ k \in DOMAIN after.clients <=> k \in DOMAIN s.clients
            /\ k \in DOMAIN s.clients => after.clients[k] = s.clients[k]
      BY <2>2 DEF With
    <2>5. key \in Source => ClientLine(Noted(h, key), key, after.clients, time)
      <3> SUFFICES ASSUME key \in Source
                   PROVE  ClientLine(Noted(h, key), key, after.clients, time)
        OBVIOUS
      <3>1. key \in DOMAIN after.clients /\ after.clients[key] = Filled(s, key, now)
        BY <2>2, Positive DEF Tracked, With
      <3>2. CASE key \in DOMAIN s.clients
        <4>1. after.clients[key] = OneMore(s.clients[key])
          BY <3>1, <3>2 DEF Filled
        <4>2. s.clients[key] \in Bucket /\ s.clients[key].count < ClientLimit
          BY <1>1, <1>6, <3>2, Positive DEF State, Table, Refused, AtLimit, Bucket
        <4>3. /\ after.clients[key] \in Bucket
              /\ after.clients[key].count = s.clients[key].count + 1
              /\ after.clients[key].reset = s.clients[key].reset
          BY <4>1, <4>2 DEF OneMore, Bucket
        <4>4. Line(h, {key}, s.clients[key], ClientLimit, 1, time)
          BY <1>4, <3>2 DEF ClientLines, ClientLine
        <4>5. {key} \in SUBSET Everyone
          OBVIOUS
        <4>6. Line(Noted(h, key), {key}, after.clients[key], ClientLimit, 1, time)
          BY <4>2, <4>3, <4>4, <4>5, LineFills, Positive
        <4>7. QED
          BY <3>1, <4>6 DEF ClientLine
      <3>3. CASE key \notin DOMAIN s.clients
        <4>1. after.clients[key] = Opened(now)
          BY <3>1, <3>3 DEF Filled
        <4>2. ClientLine(h, key, s.clients, time)
          BY <1>4 DEF ClientLines
        <4>3. now + Skew >= time
          BY Positive
        <4>4. QED
          BY <3>1, <3>3, <4>1, <4>2, <4>3, ClientOpens
      <3>4. QED
        BY <3>2, <3>3
    <2>6. ClientLines(Noted(h, key), after.clients, time)
      BY <1>4, <2>4, <2>5, OneLineChanges
    <2>7. QED
      BY <2>1, <2>3, <2>6 DEF Lines, r, after
  <1>7. QED
    BY <1>5, <1>6

\* LoginLimiter.take keeps the lines of the sources, whether or not the attempt
\* it lets through passes the total.
LEMMA OwnLines ==
    ASSUME NEW h, Recorded(h), NEW f, Table(f), NEW key \in Source, NEW time \in Nat,
           ClientLines(h, f, time)
    PROVE  LET own == take(f, key, ClientLimit, time) IN
           /\ ClientLines(h, own.attempts, time)
           /\ own.allowed => ClientLines(Noted(h, key), own.attempts, time)
  <1> DEFINE live == Live(f, time)
             own == take(f, key, ClientLimit, time)
             g == own.attempts
  <1>1. ClientLines(h, live, time) /\ Table(live)
    <2>1. time <= time + Skew
      BY Positive
    <2>2. QED
      BY <2>1, LiveLines, LiveTable
  <1>2. key \in Everyone /\ {key} \in SUBSET Everyone
    BY DEF Everyone
  <1>3. CASE key \in DOMAIN live
    <2> DEFINE more == More(live[key], ClientLimit)
    <2>1. g = Raised(live, key, more) /\ (own.allowed <=> more <= ClientLimit)
      BY <1>3, Taken
    <2>2. live[key] \in Bucket /\ live[key].count \in Nat
      BY <1>1, <1>3 DEF Table, Bucket
    <2>3. more = IF live[key].count <= ClientLimit THEN live[key].count + 1
                 ELSE ClientLimit + 1
      <3>1. live[key].count + 1 \in Nat /\ ClientLimit + 1 \in Nat
        BY <2>2, Positive
      <3>2. more = IF live[key].count + 1 <= ClientLimit + 1 THEN live[key].count + 1
                   ELSE ClientLimit + 1
        BY <3>1, MinOfTwo DEF More
      <3>3. QED
        BY <2>2, <3>2, Positive
    <2>4. Line(h, {key}, live[key], ClientLimit, 1, time)
      BY <1>1, <1>3 DEF ClientLines, ClientLine
    <2> HIDE DEF live, g, own, more
    <2>5. /\ DOMAIN g = DOMAIN live
          /\ g[key] = [live[key] EXCEPT !.count = more]
          /\ \A k \in DOMAIN live : k # key => g[k] = live[k]
      BY <1>1, <1>3, <2>1 DEF Raised, Table
    <2>6. g[key] \in Bucket /\ g[key].count = more /\ g[key].reset = live[key].reset
      BY <2>2, <2>3, <2>5, Positive DEF Bucket
    <2>7. Cap(live[key].count, ClientLimit) <= Cap(more, ClientLimit)
      BY <2>2, <2>3, Positive DEF Cap
    <2>8. ClientLine(h, key, g, time)
      <3>1. Line(h, {key}, g[key], ClientLimit, 1, time)
        BY <1>2, <2>2, <2>4, <2>6, <2>7, LineWaits, Positive
      <3>2. QED
        BY <1>3, <2>5, <3>1 DEF ClientLine
    <2>9. own.allowed => ClientLine(Noted(h, key), key, g, time)
      <3> SUFFICES ASSUME own.allowed PROVE ClientLine(Noted(h, key), key, g, time)
        OBVIOUS
      <3>1. live[key].count < ClientLimit /\ more = live[key].count + 1
        BY <2>1, <2>2, <2>3, Positive
      <3>2. Line(Noted(h, key), {key}, g[key], ClientLimit, 1, time)
        BY <1>2, <2>2, <2>4, <2>6, <3>1, LineFills, Positive
      <3>3. QED
        BY <1>3, <2>5, <3>2 DEF ClientLine
    <2>10. ClientLines(h, g, time)
      BY <1>1, <1>2, <2>5, <2>8, OneLineChanges
    <2>11. own.allowed => ClientLines(Noted(h, key), g, time)
      BY <1>1, <1>2, <2>5, <2>9, OneLineChanges
    <2>12. QED
      BY <2>10, <2>11 DEF g, own
  <1>4. CASE key \notin DOMAIN live /\ AtCapacity(live)
    <2>1. g = live /\ ~own.allowed
      BY <1>4, Taken
    <2>2. QED
      BY <1>1, <2>1
  <1>5. CASE key \notin DOMAIN live /\ ~AtCapacity(live)
    <2>1. g = With(live, key, Opened(time))
      BY <1>5, Taken
    <2>2. ClientLine(h, key, live, time)
      BY <1>1 DEF ClientLines
    <2> HIDE DEF live, g, own
    <2>3. /\ key \in DOMAIN g /\ g[key] = Opened(time)
          /\ \A k \in Source : k # key =>
               (k \in DOMAIN g <=> k \in DOMAIN live) /\ (k \in DOMAIN live => g[k] = live[k])
      BY <2>1 DEF With
    <2>4. ClientLine(h, key, g, time) /\ ClientLine(Noted(h, key), key, g, time)
      <3>1. time + Skew >= time
        BY Positive
      <3>2. QED
        BY <1>5, <2>2, <2>3, <3>1, ClientOpens
    <2>5. QED
      BY <1>1, <1>2, <2>3, <2>4, OneLineChanges DEF g, own
  <1>6. QED
    BY <1>3, <1>4, <1>5

\* The limiter of the total keeps everyone's line.
LEMMA TotalLine ==
    ASSUME NEW h, Recorded(h), NEW total \in Bucket, NEW key \in Everyone,
           NEW time \in Nat, Line(h, Everyone, total, GlobalLimit, 0, time)
    PROVE  LET all == takeTotal(total, time) IN
           /\ all.allowed => Line(Noted(h, key), Everyone, all.total, GlobalLimit, 0, time)
           /\ ~all.allowed => Line(h, Everyone, all.total, GlobalLimit, 0, time)
  <1> DEFINE all == takeTotal(total, time)
  <1>a. Everyone \in SUBSET Everyone
    OBVIOUS
  <1>b. total.count \in Nat /\ total.reset \in Nat
    BY DEF Bucket
  <1>1. CASE total.reset <= time
    <2> DEFINE b == Opened(time)
    <2>1. all.allowed /\ all.total = b
      BY <1>1 DEF takeTotal, Opened
    <2>2. b \in Bucket /\ b.count = 1 /\ b.reset = time + Window
      BY Positive DEF Opened, Bucket
    <2> HIDE DEF b, all
    <2>3. total.reset <= time + Skew
      BY <1>1, <1>b, Positive
    <2>4. Number(h, Everyone, Ages) <= GlobalLimit - 0
      BY <1>a, <2>3, WindowOver, Positive
    <2>5. /\ Recorded(Noted(h, key))
          /\ Number(Noted(h, key), Everyone, Ages) <= Number(h, Everyone, Ages) + 1
      BY <1>a, OneIsNoted, Zenon DEF Ages
    <2>6. Number(h, Everyone, Ages) \in Nat /\ Number(Noted(h, key), Everyone, Ages) \in Nat
      BY <1>a, <2>5, PartIsFinite
    <2>7. /\ Number(Noted(h, key), Everyone, Ages) <= GlobalLimit - 0 + b.count
          /\ 0 <= b.count /\ b.count <= GlobalLimit
          /\ b.reset + Skew >= time + Window
      BY <2>2, <2>4, <2>5, <2>6, Positive
    <2>8. Line(Noted(h, key), Everyone, b, GlobalLimit, 0, time)
      BY <1>a, <2>2, <2>5, <2>7, WindowOpens, Positive
    <2>9. QED
      BY <2>1, <2>8 DEF all
  <1>2. CASE ~(total.reset <= time)
    <2> DEFINE more == Min({total.count + 1, GlobalLimit + 1})
    <2>1. all.allowed = (total.count < GlobalLimit)
          /\ all.total = [total EXCEPT !.count = more]
      BY <1>2 DEF takeTotal
    <2>2. total.count + 1 \in Nat /\ GlobalLimit + 1 \in Nat
      BY <1>b, Positive
    <2>3. more = IF total.count + 1 <= GlobalLimit + 1 THEN total.count + 1
                 ELSE GlobalLimit + 1
      BY <2>2, MinOfTwo
    <2> HIDE DEF more, all
    <2>4. /\ all.total \in Bucket /\ all.total.count = more
          /\ all.total.reset = total.reset
      BY <1>b, <2>1, <2>3, Positive DEF Bucket
    <2>5. CASE all.allowed
      <3>a. total.count < GlobalLimit
        BY <2>1, <2>5, Zenon
      <3>1. total.count < GlobalLimit /\ more = total.count + 1
        BY <1>b, <2>3, <3>a, Positive
      <3>2. Line(Noted(h, key), Everyone, all.total, GlobalLimit, 0, time)
        BY <1>a, <2>4, <3>1, LineFills, Positive
      <3>3. QED
        BY <2>5, <3>2 DEF all
    <2>6. CASE ~all.allowed
      <3>1. Cap(total.count, GlobalLimit) <= Cap(more, GlobalLimit)
        BY <1>b, <2>3, Positive DEF Cap
      <3>2. Line(h, Everyone, all.total, GlobalLimit, 0, time)
        BY <1>a, <2>4, <3>1, LineWaits, Positive
      <3>3. QED
        BY <2>6, <3>2 DEF all
    <2>7. QED
      BY <2>5, <2>6
  <1>3. QED
    BY <1>1, <1>2

\* allowLoginAttempt keeps the lines.
LEMMA ProxyLines ==
    ASSUME NEW h, Recorded(h), NEW st, State(st), NEW key \in Source,
           NEW time \in Nat, Lines(h, st, time)
    PROVE  LET r == allowLoginAttempt(st, key, time) IN
           /\ r.allowed => Lines(Noted(h, key), r.state, time)
           /\ ~r.allowed => Lines(h, r.state, time)
  <1> DEFINE own == take(st.clients, key, ClientLimit, time)
             all == takeTotal(st.global, time)
             r == allowLoginAttempt(st, key, time)
  <1>1. /\ ClientLines(h, own.attempts, time)
        /\ own.allowed => ClientLines(Noted(h, key), own.attempts, time)
    BY OwnLines DEF State, Lines
  <1>2. /\ all.allowed => Line(Noted(h, key), Everyone, all.total, GlobalLimit, 0, time)
        /\ ~all.allowed => Line(h, Everyone, all.total, GlobalLimit, 0, time)
    <2>1. key \in Everyone
      BY DEF Everyone
    <2>2. QED
      BY <2>1, TotalLine DEF State, Lines
  <1>3. CASE own.allowed
    <2>1. r.allowed = all.allowed /\ r.state = Both(all.total, own.attempts)
      BY <1>3, TwoLimiters
    <2> HIDE DEF own, all, r
    <2>2. QED
      BY <1>1, <1>2, <1>3, <2>1 DEF Lines, Both, r
  <1>4. CASE ~own.allowed
    <2>1. r.allowed = FALSE /\ r.state = OwnOnly(st, own.attempts)
      BY <1>4, TwoLimiters
    <2> HIDE DEF own, all, r
    <2>2. QED
      BY <1>1, <2>1 DEF Lines, OwnOnly, State, r
  <1>5. QED
    BY <1>3, <1>4

(***************************************************************************)
(* The invariant of the history.                                           *)
(***************************************************************************)

GrantInv == Recorded(granted) /\ Lines(granted, limits, clock)

\* Nothing passed yet.
LEMMA GrantInit == Init => GrantInv
  <1> SUFFICES ASSUME Init PROVE GrantInv
    OBVIOUS
  <1>1. \A k \in Everyone, a \in Ages : granted[k][a] = 0
    BY DEF Init, Everyone
  <1>2. ASSUME NEW keys \in SUBSET Everyone, NEW ages \in SUBSET Ages
        PROVE  Of(granted, keys, ages) = {}
    BY <1>1, <1>2, WhatIsRecorded
  <1>3. ASSUME NEW keys \in SUBSET Everyone, NEW ages \in SUBSET Ages
        PROVE  Number(granted, keys, ages) = 0
    BY <1>2, <1>3, FS_EmptySet DEF Number
  <1>4. Recorded(granted)
    <2>1. Of(granted, Everyone, Ages) = {}
      BY <1>2
    <2>2. IsFiniteSet(Of(granted, Everyone, Ages))
      BY <2>1, FS_EmptySet
    <2>3. QED
      BY <2>2 DEF Recorded, Init, Everyone
  <1>5. /\ limits.global.count = 0 /\ DOMAIN limits.clients = {}
        /\ clock \in Nat
    BY Positive DEF Init, NoBucket
  <1>6. Line(granted, Everyone, limits.global, GlobalLimit, 0, clock)
    <2>1. Number(granted, Everyone, Ages) = 0
      BY <1>3
    <2>2. Young(limits.global, clock) \in SUBSET Ages
      BY DEF Young
    <2>3. Number(granted, Everyone, Young(limits.global, clock)) = 0
      BY <1>3, <2>2
    <2>4. QED
      BY <1>5, <2>1, <2>3, Positive DEF Line, Cap
  <1>7. ClientLines(granted, limits.clients, clock)
    <2>1. ASSUME NEW k \in Source PROVE Number(granted, {k}, Ages) <= ClientLimit - 1
      <3>1. {k} \in SUBSET Everyone
        BY DEF Everyone
      <3>2. Number(granted, {k}, Ages) = 0
        BY <1>3, <3>1
      <3>3. QED
        BY <3>2, Positive
    <2>2. QED
      BY <1>5, <2>1 DEF ClientLines, ClientLine
  <1>8. QED
    BY <1>4, <1>6, <1>7 DEF GrantInv, Lines

\* Every attempt and every tick keep it.
LEMMA GrantStep ==
    ASSUME Inv, GrantInv, [Next]_vars
    PROVE  GrantInv'
  <1>1. ASSUME NEW key \in Key, NEW d \in 0..2 * Skew, backend = "proxy" => d = Skew,
               Login(key, clock + d - Skew)
        PROVE  GrantInv'
    <2> DEFINE now == clock + d - Skew
               r == Attempt(limits, key, now)
    <2>1. /\ now \in Nat /\ clock \in Nat
          /\ now <= clock + Skew /\ clock <= now + Skew
          /\ backend = "proxy" => now = clock
      BY <1>1, Positive DEF Inv
    <2>2. /\ clock' = clock /\ limits' = r.state
          /\ granted' = IF r.allowed THEN [granted EXCEPT ![key][0] = @ + 1] ELSE granted
      BY <1>1 DEF Login
    <2>3. key \in Everyone
      BY DEF Key, Everyone
    <2>4. Recorded(granted) /\ Lines(granted, limits, clock) /\ State(limits)
      BY DEF GrantInv, Inv
    <2>5. /\ r.allowed => Lines(Noted(granted, key), r.state, clock)
          /\ ~r.allowed => Lines(granted, r.state, clock)
      <3>1. CASE backend = "postgres"
        <4>1. r = nextLoginRateLimit(limits, key, now)
          BY <3>1 DEF Attempt
        <4> HIDE DEF now, r
        <4>2. QED
          BY <2>1, <2>3, <2>4, <4>1, SharedLines
      <3>2. CASE backend = "proxy"
        <4>1. r = allowLoginAttempt(limits, key, clock) /\ key \in Source
          BY <2>1, <3>2 DEF Attempt, Key
        <4> HIDE DEF now, r
        <4>2. QED
          BY <2>1, <2>4, <4>1, ProxyLines
      <3>3. QED
        BY <3>1, <3>2 DEF Inv
    <2> HIDE DEF now, r
    <2>6. CASE r.allowed
      <3>1. granted' = Noted(granted, key)
        BY <2>2, <2>6 DEF Noted
      <3>2. Recorded(granted')
        BY <2>3, <2>4, <3>1, OneIsNoted
      <3>3. Lines(granted', limits', clock')
        BY <2>2, <2>5, <2>6, <3>1
      <3>4. QED
        BY <3>2, <3>3 DEF GrantInv, Recorded, Lines, ClientLines, ClientLine, Line, Young
    <2>7. CASE ~r.allowed
      <3>1. granted' = granted
        BY <2>2, <2>7
      <3>2. Lines(granted', limits', clock') /\ Recorded(granted')
        BY <2>2, <2>4, <2>5, <2>7, <3>1
      <3>3. QED
        BY <3>2 DEF GrantInv, Recorded, Lines, ClientLines, ClientLine, Line, Young
    <2>8. QED
      BY <2>6, <2>7
  <1>2. CASE Tick
    <2>1. /\ clock' = clock + 1 /\ limits' = limits /\ granted' = Older(granted)
          /\ clock \in Nat
      BY <1>2 DEF Tick, Older, Inv
    <2>2. Recorded(granted) /\ Lines(granted, limits, clock) /\ State(limits)
      BY DEF GrantInv, Inv
    <2>3. Recorded(Older(granted))
      BY <2>2, OlderIsFewer
    <2>4. Line(Older(granted), Everyone, limits.global, GlobalLimit, 0, clock + 1)
      <3>1. Everyone \in SUBSET Everyone /\ limits.global \in Bucket
        BY <2>2 DEF State
      <3>2. Line(granted, Everyone, limits.global, GlobalLimit, 0, clock)
        BY <2>2 DEF Lines
      <3>3. QED
        BY <2>1, <2>2, <3>1, <3>2, LineAges, Positive
    <2>5. ASSUME NEW k \in Source
          PROVE  ClientLine(Older(granted), k, limits.clients, clock + 1)
      <3>1. {k} \in SUBSET Everyone
        BY DEF Everyone
      <3>2. ClientLine(granted, k, limits.clients, clock)
        BY <2>2 DEF Lines, ClientLines
      <3>3. CASE k \in DOMAIN limits.clients
        <4>1. limits.clients[k] \in Bucket
          BY <2>2, <3>3 DEF State, Table
        <4>2. Line(granted, {k}, limits.clients[k], ClientLimit, 1, clock)
          BY <3>2, <3>3 DEF ClientLine
        <4>3. Line(Older(granted), {k}, limits.clients[k], ClientLimit, 1, clock + 1)
          BY <2>1, <2>2, <3>1, <4>1, <4>2, LineAges, Positive
        <4>4. QED
          BY <3>3, <4>3 DEF ClientLine
      <3>4. CASE k \notin DOMAIN limits.clients
        <4>1. Number(granted, {k}, Ages) <= ClientLimit - 1
          BY <3>2, <3>4 DEF ClientLine
        <4>2. /\ Number(Older(granted), {k}, Ages) <= Number(granted, {k}, Ages)
              /\ Number(Older(granted), {k}, Ages) \in Nat
              /\ Number(granted, {k}, Ages) \in Nat
          <5>1. \A a \in Ages : a > 0 => a - 1 \in Ages
            BY LimitAssumption DEF Ages
          <5>2. QED
            BY <2>2, <2>3, <3>1, <5>1, OlderIsFewer, PartIsFinite
        <4>3. QED
          BY <3>4, <4>1, <4>2, Positive DEF ClientLine
      <3>5. QED
        BY <3>3, <3>4
    <2>6. Lines(Older(granted), limits, clock + 1)
      BY <2>4, <2>5 DEF Lines, ClientLines
    <2>7. QED
      BY <2>1, <2>3, <2>6
         DEF GrantInv, Recorded, Lines, ClientLines, ClientLine, Line, Young
  <1>3. CASE UNCHANGED vars
    BY <1>3 DEF vars, GrantInv, Recorded, Lines, ClientLines, ClientLine, Line, Young
  <1>4. QED
    BY <1>1, <1>2, <1>3 DEF Next

\* No source, and not all together, get through twice in a window more often
\* than the limit allows.
THEOREM GrantsStayBounded == Spec => []GrantsBounded
  <1>1. Spec => []GrantInv
    BY LoginInv, GrantInit, GrantStep, PTL DEF Spec
  <1>2. Inv /\ GrantInv => GrantsBounded
    <2> SUFFICES ASSUME Inv, GrantInv PROVE GrantsBounded
      OBVIOUS
    <2>1. \A keys : GrantedTo(keys) = Number(granted, keys, Ages)
      BY DEF GrantedTo, Grants, Number, Of
    <2>2. GrantedTo(Source \cup {None}) <= 2 * GlobalLimit
      <3>1. Number(granted, Everyone, Ages) \in Nat
        BY PartIsFinite DEF GrantInv
      <3>2. limits.global.count \in Nat
        BY DEF Inv, State, Bucket
      <3>3. Number(granted, Everyone, Ages)
              <= GlobalLimit - 0 + Cap(limits.global.count, GlobalLimit)
        BY DEF GrantInv, Lines, Line
      <3>4. QED
        BY <2>1, <3>1, <3>2, <3>3, Positive DEF Cap, Everyone
    <2>3. ASSUME NEW k \in Source PROVE GrantedTo({k}) <= 2 * ClientLimit - 1
      <3>1. Number(granted, {k}, Ages) \in Nat
        BY PartIsFinite DEF GrantInv, Everyone
      <3>2. ClientLine(granted, k, limits.clients, clock)
        BY DEF GrantInv, Lines, ClientLines
      <3>3. CASE k \in DOMAIN limits.clients
        <4>1. limits.clients[k].count \in Nat
          BY <3>3 DEF Inv, State, Table, Bucket
        <4>2. Number(granted, {k}, Ages)
                <= ClientLimit - 1 + Cap(limits.clients[k].count, ClientLimit)
          BY <3>2, <3>3 DEF ClientLine, Line
        <4>3. QED
          BY <2>1, <3>1, <4>1, <4>2, Positive DEF Cap
      <3>4. CASE k \notin DOMAIN limits.clients
        BY <2>1, <3>1, <3>2, <3>4, Positive DEF ClientLine
      <3>5. QED
        BY <3>3, <3>4
    <2>4. QED
      BY <2>2, <2>3 DEF GrantsBounded
  <1>3. QED
    BY <1>1, <1>2, LoginInv, PTL

=============================================================================
