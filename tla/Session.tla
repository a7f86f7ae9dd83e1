------------------------------ MODULE Session ------------------------------
(***************************************************************************)
(* Signed sessions and the CSRF proof of one tab (auth-core.ts, auth.ts,   *)
(* api.ts in frontend/src/lib, the auth routes, the two pages and the      *)
(* gateway app/api/[...path]/route.ts).                                    *)
(*                                                                         *)
(* The cookie belongs to the browser, whose other tabs sign in and out;    *)
(* the cached CSRF token belongs to the tab.  The server keeps no session: *)
(* each of its instances decides from the cookie, its own clock and its    *)
(* own configuration.  Requests leave with the cookie of that moment;      *)
(* answers arrive later or never.                                          *)
(*                                                                         *)
(* A MAC is what it proves: a session names the credentials it was signed  *)
(* under, and a CSRF token is the session it was derived from, because an  *)
(* instance derives one only for a session signed under its own.           *)
(***************************************************************************)
EXTENDS Integers, FiniteSets

CONSTANTS
    Instance,       \* instances of the Next.js server
    TTL,            \* SESSION_TTL_SECONDS
    Tolerance,      \* 60 seconds in verifySession
    MaxSkew,        \* bound: how far an instance's clock may be ahead
    MaxClock,       \* bound: time stops here
    MaxSession,     \* bound: sessions issued
    None

ASSUME SessionAssumption ==
    /\ Instance # {}
    /\ TTL \in Nat \ {0}
    /\ Tolerance \in Nat
    /\ MaxSkew \in 0..Tolerance
    /\ MaxClock \in Nat
    /\ MaxSession \in Nat

\* "at" is the real time of issue, which no program reads.
Session == [id : Nat, iat : Nat, by : Nat, at : Nat]

Answer == {"ok", "401", "403", "failed"}

Maybe(S) == S \cup {None}

\* A write and a sign-out carry a token; "then" is what headers() of api.ts
\* fetches one for; "grant" is the session in the answer to a login; a request
\* is "passed" from the moment the gateway has authorized it.
Request ==
    [op : {"write", "logout"}, then : {None}, cookie : Maybe(Session), passed : BOOLEAN,
     proof : Session, answer : Maybe(Answer), grant : {None}]
    \cup
    [op : {"session"}, then : {"write", "logout"}, cookie : Maybe(Session),
     passed : BOOLEAN, proof : {None}, answer : Maybe(Answer), grant : {None}]
    \cup
    [op : {"read", "login"}, then : {None}, cookie : Maybe(Session), passed : BOOLEAN,
     proof : {None}, answer : Maybe(Answer), grant : Maybe(Session)]

ASSUME NoneAssumption ==
    /\ None \notin Session
    /\ None \notin Answer
    /\ None \notin Request

VARIABLES
    now,            \* real time
    ahead,          \* [Instance -> how far its clock is ahead of the slowest]
    credentials,    \* [Instance -> version of username, password hash, secret]
    keyAgrees,      \* whether gateway and backend hold the same WORKSPACE_API_KEY
    issued,         \* sessions issued so far
    cookie,         \* the browser's session cookie, or None
    page,           \* the page the tab shows or is loading
    csrf,           \* "csrf" of api.ts, or None
    call,           \* the request of the tab in flight, or None
    refused         \* history: cookie of the last write answered 403, or None

server == <<ahead, credentials, keyAgrees>>

vars == <<now, server, issued, cookie, page, csrf, call, refused>>

\* "opening" and "signing" are GET /campaign and GET /login under way.
Page == {"opening", "campaign", "signing", "login"}

Send(op, then, proof) ==
    [op |-> op, then |-> then, cookie |-> cookie, passed |-> FALSE, proof |-> proof,
     answer |-> None, grant |-> None]

-----------------------------------------------------------------------------
(* auth-core.ts and auth.ts on one instance.                               *)

Clock(i) == now + ahead[i]

createSession(i) ==
    [id |-> issued + 1, iat |-> Clock(i), by |-> credentials[i], at |-> now]

verifySession_NoTolerance(s, i) ==
    /\ s # None
    /\ s.by = credentials[i]
    /\ s.iat <= Clock(i)
    /\ s.iat + TTL > Clock(i)

verifySession(s, i) ==
    /\ s # None
    /\ s.by = credentials[i]
    /\ s.iat <= Clock(i) + Tolerance
    /\ s.iat + TTL > Clock(i)

Mutation(r) == r.op \in {"write", "logout"}

\* Every page of the application sends its own origin.
authorize(r, i) ==
    IF ~verifySession(r.cookie, i) THEN "401"
    ELSE IF Mutation(r) /\ r.proof # r.cookie THEN "403"
    ELSE "ok"

\* protect_workspace of main.py wants the Bearer key; the handler may fail.
protect_workspace == IF keyAgrees THEN {"ok", "failed"} ELSE {"401"}

\* The gateway never hands on a refusal of its own credentials.
gateway_Passes(answer) == answer

gateway(answer) == IF answer \in {"401", "403"} THEN "failed" ELSE answer

-----------------------------------------------------------------------------
(* A tab.                                                                  *)

\* api() and headers(): a write needs the token, fetched once per tab.
Start(op) ==
    /\ page = "campaign"
    /\ call = None
    /\ op \in {"read", "write", "logout"}
    /\ call' = IF op = "read" THEN Send("read", None, None)
               ELSE IF csrf = None THEN Send("session", op, None)
               ELSE Send(op, None, csrf)
    /\ UNCHANGED <<now, server, issued, cookie, page, csrf, refused>>

SubmitPassword ==
    /\ page = "login"
    /\ call = None
    /\ issued < MaxSession
    /\ call' = Send("login", None, None)
    /\ UNCHANGED <<now, server, issued, cookie, page, csrf, refused>>

\* POST of the login route; the old password is refused by the new credentials.
Login(i) ==
    /\ call # None /\ call.op = "login" /\ call.answer = None
    /\ \E answer \in {"ok", "failed"} :
         /\ answer = "ok" => issued < MaxSession
         /\ call' = [call EXCEPT !.answer = answer,
                                !.grant = IF answer = "ok" THEN createSession(i) ELSE None]
         /\ issued' = IF answer = "ok" THEN issued + 1 ELSE issued
    /\ UNCHANGED <<now, server, cookie, page, csrf, refused>>

\* The first thing any other route does.  The routes of the session answer at
\* once; the gateway goes on with what it let pass.
Authorize(i) ==
    /\ call # None /\ call.op # "login" /\ call.answer = None /\ ~call.passed
    /\ LET verdict == authorize(call, i) IN
         call' = IF verdict = "ok" /\ call.op \in {"read", "write"}
                 THEN [call EXCEPT !.passed = TRUE]
                 ELSE [call EXCEPT !.answer = verdict]
    /\ UNCHANGED <<now, server, issued, cookie, page, csrf, refused>>

\* Later, whatever has become of the session: the gateway has read the body, the
\* store or the backend has answered, and nobody looks at the session again.  A
\* handler may also end after its tab gave up, which changes nothing here.
Handled ==
    /\ call # None /\ call.passed /\ call.answer = None
    /\ \E answer \in protect_workspace : call' = [call EXCEPT !.answer = gateway(answer)]
    /\ UNCHANGED <<now, server, issued, cookie, page, csrf, refused>>

\* requireLogin()
LeaveFor(destination) ==
    /\ page' = destination
    /\ csrf' = None
    /\ call' = None
    /\ refused' = None

Unauthorized ==
    /\ call # None /\ call.answer = "401"
    /\ LeaveFor("signing")
    /\ UNCHANGED <<now, server, issued, cookie>>

\* A token is asked for with the cookie of one moment and used with the cookie
\* of the next.
TokenArrives ==
    /\ call # None /\ call.op = "session" /\ call.answer = "ok"
    /\ csrf' = call.cookie
    /\ call' = Send(call.then, None, call.cookie)
    /\ UNCHANGED <<now, server, issued, cookie, page, refused>>

Done ==
    /\ call # None /\ call.op \in {"read", "write"}
    /\ call.answer = "ok"
    /\ call' = None
    /\ refused' = IF call.op = "write" THEN None ELSE refused
    /\ UNCHANGED <<now, server, issued, cookie, page, csrf>>

\* Set-Cookie with Max-Age 0, then /login.
LoggedOut ==
    /\ call # None /\ call.op = "logout" /\ call.answer = "ok"
    /\ cookie' = None
    /\ LeaveFor("signing")
    /\ UNCHANGED <<now, server, issued>>

LoggedIn ==
    /\ call # None /\ call.op = "login" /\ call.answer = "ok"
    /\ cookie' = call.grant
    /\ LeaveFor("opening")
    /\ UNCHANGED <<now, server, issued>>

\* The token is forgotten: the next write asks for another.
Forbidden_KeepsToken ==
    /\ call # None /\ call.answer = "403"
    /\ refused' = call.cookie
    /\ call' = None
    /\ UNCHANGED <<now, server, issued, cookie, page, csrf>>

Forbidden ==
    /\ call # None /\ call.answer = "403"
    /\ refused' = call.cookie
    /\ csrf' = None
    /\ call' = None
    /\ UNCHANGED <<now, server, issued, cookie, page>>

\* An error message: a failure, a lost answer, AbortSignal.timeout.
Fail ==
    /\ call # None
    /\ call' = None
    /\ UNCHANGED <<now, server, issued, cookie, page, csrf, refused>>

-----------------------------------------------------------------------------
(* Pages.                                                                  *)

hasPageSession(i) == verifySession(cookie, i)

\* The two pages redirect to each other by the same test; the workspace reads
\* /workspace as soon as it is mounted.
Load(i) ==
    /\ page \in {"opening", "signing"}
    /\ IF hasPageSession(i)
       THEN page' = IF page = "opening" THEN "campaign" ELSE "opening"
       ELSE page' = IF page = "opening" THEN "signing" ELSE "login"
    /\ call' = IF page' = "campaign" THEN Send("read", None, None) ELSE None
    /\ UNCHANGED <<now, server, issued, cookie, csrf, refused>>

\* The user opens the workspace's address in a tab at rest.
Visit ==
    /\ page \in {"campaign", "login"}
    /\ call = None
    /\ LeaveFor("opening")
    /\ UNCHANGED <<now, server, issued, cookie>>

-----------------------------------------------------------------------------
(* Time and deployment.                                                    *)

\* Max-Age passed, or another tab signed out: its answer may arrive when the
\* cookie is already that of a later session.
CookieRemoved ==
    /\ cookie # None
    /\ cookie' = None
    /\ UNCHANGED <<now, server, issued, page, csrf, call, refused>>

SignedInElsewhere(i) ==
    /\ issued < MaxSession
    /\ cookie' = createSession(i)
    /\ issued' = issued + 1
    /\ UNCHANGED <<now, server, page, csrf, call, refused>>

Tick ==
    /\ now < MaxClock
    /\ now' = now + 1
    /\ UNCHANGED <<server, issued, cookie, page, csrf, call, refused>>

\* New credentials reach the instances one at a time.
Redeploy(i) ==
    /\ credentials[i] = 0
    /\ credentials' = [credentials EXCEPT ![i] = 1]
    /\ UNCHANGED <<now, ahead, keyAgrees, issued, cookie, page, csrf, call, refused>>

-----------------------------------------------------------------------------

Init ==
    /\ now = 0
    /\ ahead \in [Instance -> 0..MaxSkew]
    /\ \E i \in Instance : ahead[i] = 0
    /\ credentials = [i \in Instance |-> 0]
    /\ keyAgrees \in BOOLEAN
    /\ issued = 0
    /\ cookie = None
    /\ page = "login"
    /\ csrf = None
    /\ call = None
    /\ refused = None

Respond ==
    \/ Unauthorized
    \/ TokenArrives
    \/ Done
    \/ LoggedOut
    \/ LoggedIn
    \/ Forbidden
    \/ Fail

Next ==
    \/ \E op \in {"read", "write", "logout"} : Start(op)
    \/ SubmitPassword
    \/ \E i \in Instance : Login(i) \/ Authorize(i)
    \/ Handled
    \/ Respond
    \/ \E i \in Instance : Load(i)
    \/ Visit
    \/ CookieRemoved
    \/ \E i \in Instance : SignedInElsewhere(i)
    \/ Tick
    \/ \E i \in Instance : Redeploy(i)

\* Every request ends (its timeout sees to it) and pages load.
Fairness == WF_vars(Respond) /\ WF_vars(\E i \in Instance : Load(i))

Spec == Init /\ [][Next]_vars /\ Fairness

-----------------------------------------------------------------------------
(* Properties.                                                             *)

TypeOK ==
    /\ now \in Nat
    /\ ahead \in [Instance -> 0..MaxSkew]
    /\ credentials \in [Instance -> 0..1]
    /\ keyAgrees \in BOOLEAN
    /\ issued \in 0..MaxSession
    /\ cookie \in Maybe(Session)
    /\ page \in Page
    /\ csrf \in Maybe(Session)
    /\ call \in Maybe(Request)
    /\ refused \in Maybe(Session)

\* A tab whose token has gone stale (another tab signed out and in again) is
\* refused once: its next write with the same cookie is never refused again.
NeverRefusedTwice ==
    call # None /\ call.answer = "403" => refused # call.cookie

\* A session is good on every instance for its eight hours less the difference
\* of the clocks, the moment it was issued included, until credentials change:
\* nobody who just signed in is asked to sign in again.
FreshSessionAccepted ==
    \A i \in Instance :
        /\ cookie # None
        /\ cookie.by = credentials[i]
        /\ now + MaxSkew < cookie.at + TTL
        => verifySession(cookie, i)

AtRest == page \in {"campaign", "login"} /\ call = None

InstancesAgree ==
    \/ \A i \in Instance : verifySession(cookie, i)
    \/ \A i \in Instance : ~verifySession(cookie, i)

\* The tab does not go round between the workspace, its first request and the
\* sign-in page while the instances are of one mind about the cookie, even when
\* the backend refuses the gateway's own key.
TabSettles == ~AtRest /\ InstancesAgree ~> AtRest \/ ~InstancesAgree
=============================================================================
