--------------------------- MODULE LoginRateLimit --------------------------
(***************************************************************************)
(* The limiter in front of the password check, in the two forms the login  *)
(* route chooses between:                                                  *)
(*   "postgres"  one state in the table login_rate_limit, read and written *)
(*               under the writer lock by every instance, each with a      *)
(*               clock of its own (nextLoginRateLimit);                    *)
(*   "proxy"     two LoginLimiter objects in the memory of one process     *)
(*               (allowLoginAttempt).                                      *)
(* A source is a hashed address; None is a request without a trusted one.  *)
(* An attempt is one step: the route decides before it looks at the body.  *)
(***************************************************************************)
EXTENDS Naturals, FiniteSets, Functions, FiniteSetsExt

CONSTANTS
    Source, None,
    GlobalLimit,        \* LOGIN_GLOBAL_LIMIT, total = new LoginLimiter(60)
    ClientLimit,        \* LOGIN_CLIENT_LIMIT
    MaxClients,         \* LOGIN_MAX_CLIENTS
    Window,             \* LOGIN_WINDOW_MS
    Skew,               \* how far an instance's clock may be off
    MaxTime             \* bound: the clock stops there

ASSUME LimitAssumption ==
    /\ None \notin Source
    /\ {GlobalLimit, ClientLimit, MaxClients, Window} \subseteq Nat \ {0}
    /\ Skew \in Nat /\ 2 * Skew < Window
    /\ MaxTime \in Nat

VARIABLES
    backend,    \* workspaceBackend(process.env), fixed
    limits,     \* the limiter's state: the global bucket and those of sources
    clock,      \* true time
    granted     \* history: [source -> [age -> attempts let through that long ago]]

vars == <<backend, limits, clock, granted>>

Bucket == [count : Nat, reset : Nat]

\* As long as a window certainly lasts, when the clock that opened it and the
\* one that closes it disagree most: the ages the history goes back.
Ages == 0..(Window - 2 * Skew - 1)

NoBucket == [count |-> 0, reset |-> 0]

-----------------------------------------------------------------------------
(* "postgres"                                                              *)

Live_Inclusive(clients, now) ==
    Restrict(clients, {k \in DOMAIN clients : clients[k].reset >= now})

Live(clients, now) ==
    Restrict(clients, {k \in DOMAIN clients : clients[k].reset > now})

\* {} and an expired global bucket both start a new window.
decodeState(st, now) ==
    [global |-> IF st.global.reset <= now
                THEN [count |-> 0, reset |-> now + Window] ELSE st.global,
     clients |-> Live(st.clients, now)]

AtCapacity_OneMore(clients) == Cardinality(DOMAIN clients) > MaxClients

AtCapacity(clients) == Cardinality(DOMAIN clients) >= MaxClients

AtLimit_OneMore(bucket, limit) == bucket.count > limit

AtLimit(bucket, limit) == bucket.count >= limit

\* clientKey !== null
Tracked(key) == key # None

\* A window opened by a first attempt does not slide with the next ones.
nextLoginRateLimit(value, key, now) ==
    LET st == decodeState(value, now)
        known == key \in DOMAIN st.clients
        bucket == IF known THEN [st.clients[key] EXCEPT !.count = @ + 1]
                  ELSE [count |-> 1, reset |-> now + Window]
        refused == \/ known /\ AtLimit(st.clients[key], ClientLimit)
                   \/ AtLimit(st.global, GlobalLimit)
                   \/ Tracked(key) /\ ~known /\ AtCapacity(st.clients)
    IN  IF refused THEN [allowed |-> FALSE, state |-> st]
        ELSE [allowed |-> TRUE,
              state |-> [global |-> [st.global EXCEPT !.count = @ + 1],
                         clients |-> IF ~Tracked(key) THEN st.clients
                                     ELSE [k \in DOMAIN st.clients \cup {key} |->
                                             IF k = key THEN bucket ELSE st.clients[k]]]]

-----------------------------------------------------------------------------
(* "proxy"                                                                 *)

\* LoginLimiter.take.  Above its limit a count is only compared with it, so it
\* stays at limit + 1 here.
take(attempts, key, limit, now) ==
    LET live == Live(attempts, now)
        more == Min({live[key].count + 1, limit + 1})
    IN  IF key \in DOMAIN live
        THEN [allowed |-> more <= limit, attempts |-> [live EXCEPT ![key].count = more]]
        ELSE IF AtCapacity(live)
        THEN [allowed |-> FALSE, attempts |-> live]
        ELSE [allowed |-> TRUE,
              attempts |-> [k \in DOMAIN live \cup {key} |->
                  IF k = key THEN [count |-> 1, reset |-> now + Window] ELSE live[k]]]

\* total.take("login", now): the limiter with one key.
takeTotal(total, now) ==
    IF total.reset <= now
    THEN [allowed |-> TRUE, total |-> [count |-> 1, reset |-> now + Window]]
    ELSE [allowed |-> total.count < GlobalLimit,
          total |-> [total EXCEPT !.count = Min({@ + 1, GlobalLimit + 1})]]

allowLoginAttempt_TotalFirst(st, key, now) ==
    LET all == takeTotal(st.global, now)
        own == take(st.clients, key, ClientLimit, now)
    IN  [allowed |-> all.allowed /\ own.allowed,
         state |-> [global |-> all.total, clients |-> own.attempts]]

allowLoginAttempt(st, key, now) ==
    LET own == take(st.clients, key, ClientLimit, now)
        all == takeTotal(st.global, now)
    IN  IF own.allowed
        THEN [allowed |-> all.allowed,
              state |-> [global |-> all.total, clients |-> own.attempts]]
        ELSE [allowed |-> FALSE, state |-> [st EXCEPT !.clients = own.attempts]]

-----------------------------------------------------------------------------

\* Without a trusted address the proxy's route uses the key "unknown", which is
\* one more source.
Key == IF backend = "postgres" THEN Source \cup {None} ELSE Source

Attempt(st, key, now) ==
    IF backend = "postgres" THEN nextLoginRateLimit(st, key, now)
    ELSE allowLoginAttempt(st, key, now)

Init ==
    /\ backend \in {"postgres", "proxy"}
    /\ limits = [global |-> NoBucket, clients |-> [k \in {} |-> NoBucket]]
    /\ clock = Skew
    /\ granted = [k \in Source \cup {None} |-> [a \in Ages |-> 0]]

Login(key, now) ==
    LET outcome == Attempt(limits, key, now) IN
    /\ limits' = outcome.state
    /\ granted' = IF outcome.allowed
                  THEN [granted EXCEPT ![key][0] = @ + 1] ELSE granted
    /\ UNCHANGED <<backend, clock>>

Tick ==
    /\ clock < MaxTime
    /\ clock' = clock + 1
    /\ granted' = [k \in DOMAIN granted |->
                     [a \in Ages |-> IF a = 0 THEN 0 ELSE granted[k][a - 1]]]
    /\ UNCHANGED <<backend, limits>>

Next ==
    \/ \E key \in Key, d \in 0..2 * Skew :
         /\ backend = "proxy" => d = Skew
         /\ Login(key, clock + d - Skew)
    \/ Tick

Spec == Init /\ [][Next]_vars

-----------------------------------------------------------------------------
(* Properties.                                                             *)

\* decodeState accepts what nextLoginRateLimit wrote, in whatever order the
\* instances and their clocks come: otherwise every later attempt would throw
\* and nobody could ever sign in.  The memory of the proxy is bounded too.
StaysDecodable ==
    /\ limits.global \in Bucket
    /\ DOMAIN limits.clients \subseteq Source
    /\ \A k \in DOMAIN limits.clients : limits.clients[k] \in Bucket
    /\ Cardinality(DOMAIN limits.clients) <= MaxClients
    /\ backend = "postgres" =>
         /\ limits.global.count <= GlobalLimit
         /\ \A k \in DOMAIN limits.clients : limits.clients[k].count <= ClientLimit

\* The attempts of some sources let through, by age, in the interval that ends
\* now.
Grants(keys, ages) ==
    UNION {{<<k, a, n>> : n \in 1..granted[k][a]} : k \in keys, a \in ages}

GrantedTo(keys) == Cardinality(Grants(keys, Ages))

\* No interval holds more than two windows' worth of attempts, of one source or
\* of all together; of one source, whose window starts with an attempt, one
\* less.
GrantsBounded ==
    /\ GrantedTo(Source \cup {None}) <= 2 * GlobalLimit
    /\ \A k \in Source : GrantedTo({k}) <= 2 * ClientLimit - 1

\* "Trop de tentatives. Réessayez dans 15 minutes.": whoever is refused now
\* gets through one window later if no one else tries, even when the clock that
\* wrote the state was ahead and the one that reads it is behind.
RetryIsHonoured ==
    LET drift == IF backend = "postgres" THEN Skew ELSE 0 IN
    \A k \in Key : Attempt(limits, k, clock + Window + drift).allowed

\* What a reader whose clock says "at" finds used of the shared window, and of the
\* window of one source.
SharedUsed(st, at) == IF st.global.reset > at THEN st.global.count ELSE 0

OwnUsed(st, k, at) ==
    IF k \in DOMAIN st.clients /\ st.clients[k].reset > at THEN st.clients[k].count ELSE 0

\* Between two states, nothing was taken from anybody but source k: no room in the
\* table, no attempt of another source or of the shared window, whenever it is read.
\* A shared window that was over may have been replaced by an empty one.
NothingTaken(before, after, k, now) ==
    /\ DOMAIN after.clients \subseteq DOMAIN before.clients
    /\ \A at \in (clock - Skew)..(clock + Skew + Window) :
         /\ SharedUsed(after, at) <= SharedUsed(before, at)
         /\ \A j \in Source \ {k} : OwnUsed(after, j, at) <= OwnUsed(before, j, at)
    /\ after.global # before.global =>
         before.global.reset <= now /\ after.global = [count |-> 0, reset |-> now + Window]

\* "A source that has already been throttled must not exhaust the shared budget":
\* its further attempts, at any instance, use up nothing of what the others share
\* or have.  What they may still do is decide when the next shared window ends,
\* by opening it: nothing is said of decisions that depend on that moment.
ThrottledTakesNothing ==
    \A k \in DOMAIN limits.clients, d \in 0..2 * Skew :
        LET now == clock + d - Skew IN
        (/\ backend = "proxy" => d = Skew
         /\ limits.clients[k].count >= ClientLimit
         /\ limits.clients[k].reset > now)
          => NothingTaken(limits, Attempt(limits, k, now).state, k, now)
=============================================================================
