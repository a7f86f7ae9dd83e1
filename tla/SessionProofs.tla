--------------------------- MODULE SessionProofs ---------------------------
(***************************************************************************)
(* Machine-checked proofs about Session, for any number of instances, any  *)
(* lifetime and any difference of the clocks within the tolerance.         *)
(*                                                                         *)
(*   SessionTypes         TypeOK                                           *)
(*   SessionsAreAccepted  FreshSessionAccepted: the tolerance covers the   *)
(*                        difference of the clocks, the lifetime loses it  *)
(*   RefusedAtMostOnce    NeverRefusedTwice: a cookie that was replaced    *)
(*                        never comes back, so a token fetched after a     *)
(*                        refusal is that of the cookie, or the cookie     *)
(*                        changed                                          *)
(***************************************************************************)
EXTENDS Session, TLAPS

(***************************************************************************)
(* The inductive invariant.                                                *)
(***************************************************************************)

\* A session was issued, not in the future, by a clock at most MaxSkew ahead.
Sound(s) ==
    s # None =>
        /\ s.id <= issued
        /\ s.at <= now
        /\ s.at <= s.iat
        /\ s.iat <= s.at + MaxSkew

SessionsSound ==
    /\ Sound(cookie)
    /\ Sound(refused)
    /\ call # None => Sound(call.cookie) /\ Sound(call.grant)

\* What an answer says of the request it answers.
AnswersSound ==
    call # None =>
        /\ call.passed => call.op \in {"read", "write"}
        /\ call.op = "session" /\ call.answer = "ok" => call.cookie # None
        /\ call.answer = "403" => Mutation(call) /\ call.cookie # None
                                    /\ call.proof # call.cookie

\* A page being loaded has no request, the sign-in page only its own, and the
\* refusals of a tab are forgotten when it leaves the workspace.
PlacesSound ==
    /\ page \in {"opening", "signing"} => call = None
    /\ call # None => (call.op = "login" <=> page = "login")
    /\ page # "campaign" => refused = None

\* After a refusal, what the tab caches and sends belongs to the cookie that was
\* refused for as long as that is the browser's cookie.
RefusalsSound ==
    refused # None =>
        /\ cookie = refused => csrf \in {None, refused}
                                 /\ (call # None => call.cookie = refused)
        /\ call # None /\ call.cookie = refused /\ Mutation(call)
             => call.proof = refused

Inv ==
    /\ TypeOK
    /\ SessionsSound
    /\ AnswersSound
    /\ PlacesSound
    /\ RefusalsSound

(***************************************************************************)
(* Types.                                                                  *)
(***************************************************************************)

\* The clock of an instance is a natural number, and a session it creates is
\* sound once it is counted.
LEMMA CreatedSession ==
    ASSUME TypeOK, NEW i \in Instance
    PROVE  /\ createSession(i) \in Session
           /\ createSession(i) # None
           /\ createSession(i).id = issued + 1
           /\ createSession(i).at = now
           /\ createSession(i).iat \in now..(now + MaxSkew)
  <1>1. Clock(i) \in now..(now + MaxSkew)
    BY SessionAssumption DEF TypeOK, Clock
  <1>2. issued \in Nat /\ credentials[i] \in Nat /\ now \in Nat
    BY SessionAssumption DEF TypeOK
  <1>3. Clock(i) \in Nat
    BY <1>1, <1>2, SessionAssumption
  <1>4. QED
    BY <1>1, <1>2, <1>3, NoneAssumption DEF createSession, Session

\* What a tab sends is a request.
LEMMA SendsRequest ==
    ASSUME cookie \in Maybe(Session)
    PROVE  /\ \A op \in {"read", "login"} : Send(op, None, None) \in Request
           /\ \A then \in {"write", "logout"} : Send("session", then, None) \in Request
           /\ \A op \in {"write", "logout"}, s \in Session : Send(op, None, s) \in Request
  BY DEF Send, Request, Maybe

\* An answered request is a request; a granted session is carried by a login.
LEMMA AnsweredIsRequest ==
    ASSUME NEW r \in Request, NEW answer \in Answer, NEW s \in Maybe(Session)
    PROVE  /\ [r EXCEPT !.answer = answer] \in Request
           /\ r.op = "login" => [r EXCEPT !.answer = answer, !.grant = s] \in Request
           /\ [r EXCEPT !.passed = TRUE] \in Request
  BY DEF Request, Maybe

\* What the handlers and the routes do to the request they answer.
LEMMA WhatIsDone ==
    ASSUME TypeOK, NEW i \in Instance
    PROVE  /\ Authorize(i) =>
                \/ /\ call.op \in {"read", "write"}
                   /\ call' = [call EXCEPT !.passed = TRUE]
                \/ /\ authorize(call, i) # "ok" \/ ~(call.op \in {"read", "write"})
                   /\ call' = [call EXCEPT !.answer = authorize(call, i)]
           /\ authorize(call, i) \in {"ok", "401", "403"}
           /\ Handled => \E answer \in {"ok", "failed"} :
                           call' = [call EXCEPT !.answer = answer]
  <1>1. Authorize(i) =>
          \/ /\ call.op \in {"read", "write"}
             /\ call' = [call EXCEPT !.passed = TRUE]
          \/ /\ authorize(call, i) # "ok" \/ ~(call.op \in {"read", "write"})
             /\ call' = [call EXCEPT !.answer = authorize(call, i)]
    BY DEF Authorize
  <1>2. authorize(call, i) \in {"ok", "401", "403"}
    BY DEF authorize
  <1>3. Handled => \E answer \in {"ok", "failed"} : call' = [call EXCEPT !.answer = answer]
    BY DEF Handled, gateway, protect_workspace
  <1>4. QED
    BY <1>1, <1>2, <1>3

\* The types hold at first, and each step keeps them.
LEMMA InitInv == Init => Inv
  BY SessionAssumption
     DEF Init, Inv, TypeOK, Maybe, Page, SessionsSound, Sound, AnswersSound,
         PlacesSound, RefusalsSound

\* The types are kept by every step.
LEMMA StepType ==
    ASSUME TypeOK, AnswersSound, [Next]_vars
    PROVE  TypeOK'
  <1> USE DEF TypeOK, Maybe, Page
  <1>1. ASSUME NEW op \in {"read", "write", "logout"}, Start(op)
        PROVE  TypeOK'
    <2>1. call' \in Request
      BY <1>1, SendsRequest DEF Start
    <2>2. QED
      BY <1>1, <2>1 DEF Start, server
  <1>2. CASE SubmitPassword
    <2>1. call' \in Request
      BY <1>2, SendsRequest DEF SubmitPassword
    <2>2. QED
      BY <1>2, <2>1 DEF SubmitPassword, server
  <1>3. ASSUME NEW i \in Instance, Login(i) \/ Authorize(i) \/ Handled
        PROVE  TypeOK'
    <2>1. call \in Request
      BY <1>3 DEF Login, Authorize, Handled
    <2>2. CASE Login(i)
      <3>1. PICK answer \in {"ok", "failed"} :
              /\ answer = "ok" => issued < MaxSession
              /\ call' = [call EXCEPT !.answer = answer,
                             !.grant = IF answer = "ok" THEN createSession(i) ELSE None]
              /\ issued' = IF answer = "ok" THEN issued + 1 ELSE issued
        BY <2>2 DEF Login
      <3>2. createSession(i) \in Session
        BY CreatedSession
      <3>3. call' \in Request
        BY <2>1, <2>2, <3>1, <3>2, AnsweredIsRequest DEF Answer, Login
      <3>4. issued' \in 0..MaxSession
        BY <3>1, SessionAssumption
      <3>5. QED
        BY <2>2, <3>3, <3>4 DEF Login, server
    <2>3. CASE Authorize(i) \/ Handled
      <3>1. call' \in Request
        BY <2>1, <2>3, WhatIsDone, AnsweredIsRequest DEF Answer
      <3>2. QED
        BY <2>3, <3>1 DEF Authorize, Handled, server
    <2>4. QED
      BY <1>3, <2>2, <2>3
  <1>4. CASE Respond
    <2>1. CASE Unauthorized
      BY <2>1 DEF Unauthorized, LeaveFor, server
    <2>2. CASE TokenArrives
      <3>1. call \in Request /\ call.op = "session" /\ call.cookie # None
        BY <2>2 DEF TokenArrives, AnswersSound
      <3>2. call.cookie \in Session /\ call.then \in {"write", "logout"}
        BY <3>1 DEF Request
      <3>3. call' \in Request
        BY <2>2, <3>2, SendsRequest DEF TokenArrives
      <3>4. QED
        BY <2>2, <3>2, <3>3 DEF TokenArrives, server
    <2>3. CASE Done
      BY <2>3 DEF Done, server
    <2>4. CASE LoggedOut
      BY <2>4 DEF LoggedOut, LeaveFor, server
    <2>5. CASE LoggedIn
      <3>1. call.grant \in Maybe(Session)
        BY <2>5 DEF LoggedIn, Request
      <3>2. QED
        BY <2>5, <3>1 DEF LoggedIn, LeaveFor, server
    <2>6. CASE Forbidden
      <3>1. call.cookie \in Maybe(Session)
        BY <2>6 DEF Forbidden, Request
      <3>2. QED
        BY <2>6, <3>1 DEF Forbidden, server
    <2>7. CASE Fail
      BY <2>7 DEF Fail, server
    <2>8. QED
      BY <1>4, <2>1, <2>2, <2>3, <2>4, <2>5, <2>6, <2>7 DEF Respond
  <1>5. ASSUME NEW i \in Instance, Load(i)
        PROVE  TypeOK'
    <2>1. call' \in Maybe(Request)
      BY <1>5, SendsRequest DEF Load
    <2>2. QED
      BY <1>5, <2>1 DEF Load, server
  <1>6. CASE Visit
    BY <1>6 DEF Visit, LeaveFor, server
  <1>7. CASE CookieRemoved
    BY <1>7 DEF CookieRemoved, server
  <1>8. ASSUME NEW i \in Instance, SignedInElsewhere(i)
        PROVE  TypeOK'
    <2>1. createSession(i) \in Session
      BY CreatedSession
    <2>2. issued' \in 0..MaxSession
      BY <1>8, SessionAssumption DEF SignedInElsewhere
    <2>3. QED
      BY <1>8, <2>1, <2>2 DEF SignedInElsewhere, server
  <1>9. CASE Tick
    BY <1>9 DEF Tick, server
  <1>10. ASSUME NEW i \in Instance, Redeploy(i)
         PROVE  TypeOK'
    BY <1>10 DEF Redeploy, server
  <1>11. CASE UNCHANGED vars
    BY <1>11 DEF vars, server
  <1>12. QED
    BY <1>1, <1>2, <1>3, <1>4, <1>5, <1>6, <1>7, <1>8, <1>9, <1>10, <1>11,
       SessionAssumption DEF Next

(***************************************************************************)
(* Sessions, answers, places, refusals.                                    *)
(***************************************************************************)

\* What each action leaves of the request in flight and of the sessions held:
\* no session is held that was not held or created in this step.
LEMMA StepSessions ==
    ASSUME TypeOK, SessionsSound, [Next]_vars
    PROVE  SessionsSound'
  <1> USE DEF SessionsSound, Sound
  <1>0. /\ now \in Nat /\ issued \in Nat /\ MaxSkew \in Nat
        /\ cookie \in Maybe(Session) /\ refused \in Maybe(Session)
        /\ call # None => call.cookie \in Maybe(Session) /\ call.grant \in Maybe(Session)
    BY SessionAssumption DEF TypeOK, Request, Maybe
  <1>a. \A op, then, proof : Send(op, then, proof).cookie = cookie
                             /\ Send(op, then, proof).grant = None
    BY DEF Send
  <1>1. ASSUME NEW op \in {"read", "write", "logout"}, Start(op)
        PROVE  SessionsSound'
    BY <1>1, <1>a DEF Start
  <1>2. CASE SubmitPassword
    BY <1>2, <1>a DEF SubmitPassword
  <1>3. ASSUME NEW i \in Instance, Login(i) \/ Authorize(i) \/ Handled
        PROVE  SessionsSound'
    <2>1. call \in Request /\ call # None
      BY <1>3 DEF Login, Authorize, Handled, TypeOK, Maybe
    <2>2. CASE Login(i)
      <3>1. PICK answer \in {"ok", "failed"} :
              /\ call' = [call EXCEPT !.answer = answer,
                             !.grant = IF answer = "ok" THEN createSession(i) ELSE None]
              /\ issued' = IF answer = "ok" THEN issued + 1 ELSE issued
        BY <2>2 DEF Login
      <3>2. call'.cookie = call.cookie
             /\ call'.grant = IF answer = "ok" THEN createSession(i) ELSE None
        BY <2>1, <3>1 DEF Request
      <3>3. issued' \in Nat /\ issued <= issued'
             /\ (answer = "ok" => issued' = issued + 1)
        BY <1>0, <3>1
      <3>4. UNCHANGED <<now, cookie, refused>>
        BY <2>2 DEF Login
      <3>5. Sound(call.grant)'
        <4>1. ASSUME answer = "ok"
              PROVE  /\ call'.grant.id <= issued' /\ call'.grant.at <= now'
                     /\ call'.grant.at <= call'.grant.iat
                     /\ call'.grant.iat <= call'.grant.at + MaxSkew
          BY <1>0, <3>2, <3>3, <3>4, <4>1, CreatedSession
        <4>2. QED
          BY <3>2, <4>1
      <3>6. QED
        BY <1>0, <2>1, <3>2, <3>3, <3>4, <3>5 DEF Session, Maybe
    <2>3. CASE Authorize(i) \/ Handled
      <3>1. call'.cookie = call.cookie /\ call'.grant = call.grant
        BY <2>1, <2>3, WhatIsDone DEF Request
      <3>2. QED
        BY <2>1, <2>3, <3>1 DEF Authorize, Handled
    <2>4. QED
      BY <1>3, <2>2, <2>3
  <1>4. CASE Respond
    BY <1>4, <1>a
       DEF Respond, Unauthorized, TokenArrives, Done, LoggedOut, LoggedIn, Forbidden,
           Fail, LeaveFor
  <1>5. ASSUME NEW i \in Instance, Load(i)
        PROVE  SessionsSound'
    BY <1>5, <1>a DEF Load
  <1>6. CASE Visit
    BY <1>6 DEF Visit, LeaveFor
  <1>7. CASE CookieRemoved
    BY <1>7 DEF CookieRemoved
  <1>8. ASSUME NEW i \in Instance, SignedInElsewhere(i)
        PROVE  SessionsSound'
    <2>1. /\ cookie' = createSession(i) /\ issued' = issued + 1
          /\ UNCHANGED <<now, call, refused>>
      BY <1>8 DEF SignedInElsewhere
    <2>2. Sound(cookie)'
      BY <1>0, <2>1, CreatedSession
    <2>3. QED
      BY <1>0, <2>1, <2>2 DEF Session, Maybe
  <1>9. CASE Tick
    BY <1>0, <1>9 DEF Tick, Session, Maybe
  <1>10. ASSUME NEW i \in Instance, Redeploy(i)
         PROVE  SessionsSound'
    BY <1>10 DEF Redeploy
  <1>11. CASE UNCHANGED vars
    BY <1>11 DEF vars
  <1>12. QED
    BY <1>1, <1>2, <1>3, <1>4, <1>5, <1>6, <1>7, <1>8, <1>9, <1>10, <1>11,
       SessionAssumption DEF Next

\* An instance refuses a token for a session it accepts, and derives tokens
\* from such sessions only; the gateway refuses nothing in the tab's name.
LEMMA ServeAnswers ==
    ASSUME TypeOK, AnswersSound, NEW i \in Instance, Login(i) \/ Authorize(i) \/ Handled
    PROVE  AnswersSound'
  <1>1. call \in Request /\ call # None /\ call.answer = None
    BY DEF Login, Authorize, Handled, TypeOK, Maybe
  <1>2. None # "ok" /\ None # "403"
    BY NoneAssumption DEF Answer
  <1>3. CASE Login(i)
    <2>1. PICK answer \in {"ok", "failed"} :
            call' = [call EXCEPT !.answer = answer,
                        !.grant = IF answer = "ok" THEN createSession(i) ELSE None]
      BY <1>3 DEF Login
    <2>2. /\ call'.op = "login" /\ call'.answer \in {"ok", "failed"}
          /\ call'.passed = call.passed /\ call.op = "login"
      BY <1>1, <1>3, <2>1 DEF Request, Login
    <2>3. QED
      BY <1>1, <2>2 DEF AnswersSound
  <1>4. CASE Authorize(i)
    <2>1. CASE /\ call.op \in {"read", "write"}
               /\ call' = [call EXCEPT !.passed = TRUE]
      <3>1. call'.answer = None /\ call'.op = call.op
        BY <1>1, <2>1 DEF Request
      <3>2. QED
        BY <1>2, <2>1, <3>1 DEF AnswersSound
    <2>2. CASE call' = [call EXCEPT !.answer = authorize(call, i)]
      <3>1. /\ call'.op = call.op /\ call'.cookie = call.cookie
            /\ call'.proof = call.proof /\ call'.answer = authorize(call, i)
            /\ call'.passed = call.passed
        BY <1>1, <2>2 DEF Request
      <3>2. authorize(call, i) = "ok" => call.cookie # None
        BY DEF authorize, verifySession
      <3>3. authorize(call, i) = "403" =>
              Mutation(call) /\ call.cookie # None /\ call.proof # call.cookie
        BY DEF authorize, verifySession
      <3>4. QED
        BY <1>1, <3>1, <3>2, <3>3 DEF AnswersSound, Mutation
    <2>3. QED
      BY <1>4, <2>1, <2>2, WhatIsDone
  <1>5. CASE Handled
    <2>1. PICK answer \in {"ok", "failed"} : call' = [call EXCEPT !.answer = answer]
      BY <1>5, WhatIsDone
    <2>2. /\ call'.op = call.op /\ call'.answer = answer
          /\ call'.passed = call.passed
      BY <1>1, <2>1 DEF Request
    <2>3. call.op \in {"read", "write"}
      BY <1>1, <1>5 DEF Handled, AnswersSound
    <2>4. QED
      BY <2>2, <2>3 DEF AnswersSound
  <1>6. QED
    BY <1>3, <1>4, <1>5

\* A refusal of a write, and the token an answer carries, stay what authorize
\* decided for the cookie of the request.
LEMMA StepAnswers ==
    ASSUME TypeOK, AnswersSound, [Next]_vars
    PROVE  AnswersSound'
  <1>a. \A op, then, proof : /\ Send(op, then, proof).answer = None
                             /\ Send(op, then, proof).passed = FALSE
    BY DEF Send
  <1>b. None # "ok" /\ None # "403"
    BY NoneAssumption DEF Answer
  <1>1. ASSUME NEW op \in {"read", "write", "logout"}, Start(op)
        PROVE  AnswersSound'
    BY <1>1, <1>a, <1>b DEF Start, AnswersSound
  <1>2. CASE SubmitPassword
    BY <1>2, <1>a, <1>b DEF SubmitPassword, AnswersSound
  <1>3. ASSUME NEW i \in Instance, Login(i) \/ Authorize(i) \/ Handled
        PROVE  AnswersSound'
    BY <1>3, ServeAnswers
  <1>4. CASE Respond
    BY <1>4, <1>a, <1>b
       DEF Respond, Unauthorized, TokenArrives, Done, LoggedOut, LoggedIn, Forbidden,
           Fail, LeaveFor, AnswersSound
  <1>5. ASSUME NEW i \in Instance, Load(i)
        PROVE  AnswersSound'
    BY <1>5, <1>a, <1>b DEF Load, AnswersSound
  <1>6. CASE \/ Visit \/ CookieRemoved \/ Tick
             \/ \E i \in Instance : SignedInElsewhere(i) \/ Redeploy(i)
    BY <1>6 DEF Visit, LeaveFor, CookieRemoved, Tick, SignedInElsewhere, Redeploy,
                AnswersSound, Mutation
  <1>7. CASE UNCHANGED vars
    BY <1>7 DEF vars, AnswersSound, Mutation
  <1>8. QED
    BY <1>1, <1>2, <1>3, <1>4, <1>5, <1>6, <1>7,
       SessionAssumption DEF Next

\* Serving a request keeps what the tab sent and where the tab is.
LEMMA ServeKeeps ==
    ASSUME TypeOK, NEW i \in Instance, Login(i) \/ Authorize(i) \/ Handled
    PROVE  /\ call # None /\ call' # None
           /\ call'.op = call.op /\ call'.cookie = call.cookie
           /\ call'.proof = call.proof
           /\ UNCHANGED <<page, cookie, csrf, refused>>
  <1>1. call \in Request /\ call # None
    BY DEF Login, Authorize, Handled, TypeOK, Maybe
  <1>2. CASE Login(i)
    <2>1. PICK answer \in {"ok", "failed"} :
            call' = [call EXCEPT !.answer = answer,
                        !.grant = IF answer = "ok" THEN createSession(i) ELSE None]
      BY <1>2 DEF Login
    <2>2. call' \in Request
      BY <1>1, <1>2, <2>1, AnsweredIsRequest, CreatedSession DEF Answer, Maybe, Login
    <2>3. call'.op = call.op /\ call'.cookie = call.cookie /\ call'.proof = call.proof
      BY <1>1, <2>1 DEF Request
    <2>4. QED
      BY <1>1, <1>2, <2>2, <2>3, NoneAssumption DEF Login
  <1>3. CASE Authorize(i) \/ Handled
    <2>1. \/ call' = [call EXCEPT !.passed = TRUE]
          \/ \E answer \in Answer : call' = [call EXCEPT !.answer = answer]
      BY <1>3, WhatIsDone DEF Answer
    <2>2. call' \in Request
      <3>1. CASE call' = [call EXCEPT !.passed = TRUE]
        BY <1>1, <3>1, AnsweredIsRequest, NoneAssumption DEF Answer, Maybe
      <3>2. ASSUME NEW answer \in Answer, call' = [call EXCEPT !.answer = answer]
            PROVE  call' \in Request
        BY <1>1, <3>2, AnsweredIsRequest DEF Maybe
      <3>3. QED
        BY <2>1, <3>1, <3>2
    <2>3. call'.op = call.op /\ call'.cookie = call.cookie /\ call'.proof = call.proof
      BY <1>1, <2>1 DEF Request
    <2>4. QED
      BY <1>1, <1>3, <2>2, <2>3, NoneAssumption DEF Authorize, Handled
  <1>4. QED
    BY <1>2, <1>3

\* Requests are in flight only where the tab sends them, and carry what it had.
LEMMA StepPlaces ==
    ASSUME TypeOK, AnswersSound, PlacesSound, [Next]_vars
    PROVE  PlacesSound'
  <1> USE DEF PlacesSound
  <1>a. \A op, then, proof : Send(op, then, proof).op = op
    BY DEF Send
  <1>b. page \in Page
    BY DEF TypeOK
  <1>1. ASSUME NEW op \in {"read", "write", "logout"}, Start(op)
        PROVE  PlacesSound'
    BY <1>1, <1>a DEF Start
  <1>2. CASE SubmitPassword
    BY <1>2, <1>a DEF SubmitPassword
  <1>3. ASSUME NEW i \in Instance, Login(i) \/ Authorize(i) \/ Handled
        PROVE  PlacesSound'
    BY <1>3, ServeKeeps
  <1>4. CASE Respond
    <2>1. CASE TokenArrives
      <3>1. call.then \in {"write", "logout"}
        BY <2>1 DEF TokenArrives, TypeOK, Maybe, Request
      <3>2. QED
        BY <2>1, <3>1, <1>a DEF TokenArrives
    <2>2. CASE Forbidden
      BY <2>2, <1>b DEF Forbidden, AnswersSound, Mutation, Page
    <2>3. CASE Unauthorized \/ Done \/ LoggedOut \/ LoggedIn \/ Fail
      BY <2>3 DEF Unauthorized, Done, LoggedOut, LoggedIn, Fail, LeaveFor
    <2>4. QED
      BY <1>4, <2>1, <2>2, <2>3 DEF Respond
  <1>5. ASSUME NEW i \in Instance, Load(i)
        PROVE  PlacesSound'
    BY <1>5, <1>a, <1>b DEF Load, Page
  <1>6. CASE \/ Visit \/ CookieRemoved \/ Tick
             \/ \E i \in Instance : SignedInElsewhere(i) \/ Redeploy(i)
    BY <1>6 DEF Visit, LeaveFor, CookieRemoved, Tick, SignedInElsewhere, Redeploy
  <1>7. CASE UNCHANGED vars
    BY <1>7 DEF vars
  <1>8. QED
    BY <1>1, <1>2, <1>3, <1>4, <1>5, <1>6, <1>7,
       SessionAssumption DEF Next

\* A new cookie is that of a session that was not issued before, unless the tab
\* itself signed in, which it does on another page.
LEMMA StepRefusals ==
    ASSUME TypeOK, SessionsSound, AnswersSound, PlacesSound, RefusalsSound, [Next]_vars
    PROVE  RefusalsSound'
  <1> USE DEF RefusalsSound
  <1>a. \A op, then, proof :
          /\ Send(op, then, proof).op = op
          /\ Send(op, then, proof).cookie = cookie
          /\ Send(op, then, proof).proof = proof
    BY DEF Send
  <1>1. ASSUME NEW op \in {"read", "write", "logout"}, Start(op)
        PROVE  RefusalsSound'
    BY <1>1, <1>a DEF Start, Mutation
  <1>2. CASE SubmitPassword
    BY <1>2, <1>a DEF SubmitPassword, Mutation
  <1>3. ASSUME NEW i \in Instance, Login(i) \/ Authorize(i) \/ Handled
        PROVE  RefusalsSound'
    BY <1>3, ServeKeeps DEF Mutation
  <1>4. CASE Respond
    <2>1. CASE TokenArrives
      BY <2>1, <1>a DEF TokenArrives, Mutation
    <2>2. CASE Forbidden
      BY <2>2 DEF Forbidden
    <2>3. CASE Unauthorized \/ Done \/ LoggedOut \/ LoggedIn \/ Fail
      BY <2>3 DEF Unauthorized, Done, LoggedOut, LoggedIn, Fail, LeaveFor
    <2>4. QED
      BY <1>4, <2>1, <2>2, <2>3 DEF Respond
  <1>5. ASSUME NEW i \in Instance, Load(i)
        PROVE  RefusalsSound'
    BY <1>5 DEF Load, PlacesSound
  <1>6. CASE Visit
    BY <1>6 DEF Visit, LeaveFor
  <1>7. CASE CookieRemoved
    BY <1>7 DEF CookieRemoved, Mutation
  <1>8. ASSUME NEW i \in Instance, SignedInElsewhere(i)
        PROVE  RefusalsSound'
    <2>1. cookie' = createSession(i) /\ UNCHANGED <<csrf, call, refused>>
      BY <1>8 DEF SignedInElsewhere
    <2>2. createSession(i).id = issued + 1
      BY CreatedSession
    <2>3. refused # None => refused.id \in Nat /\ refused.id <= issued /\ issued \in Nat
      BY SessionAssumption DEF TypeOK, SessionsSound, Sound, Maybe, Session
    <2>4. refused # None => cookie' # refused
      BY <2>1, <2>2, <2>3
    <2>5. QED
      BY <2>1, <2>4 DEF Mutation
  <1>9. CASE Tick \/ \E i \in Instance : Redeploy(i)
    BY <1>9 DEF Tick, Redeploy, Mutation
  <1>10. CASE UNCHANGED vars
    BY <1>10 DEF vars, Mutation
  <1>11. QED
    BY <1>1, <1>2, <1>3, <1>4, <1>5, <1>6, <1>7, <1>8, <1>9, <1>10,
       SessionAssumption DEF Next

\* Every part of the invariant is kept by every step.
LEMMA StepInv == Inv /\ [Next]_vars => Inv'
  BY StepType, StepSessions, StepAnswers, StepPlaces, StepRefusals DEF Inv

(***************************************************************************)
(* The theorems.                                                           *)
(***************************************************************************)

\* The type invariant of the runs, for every value of the constants: a write or
\* a sign-out never leaves the tab without a token.
THEOREM SessionTypes == Spec => []TypeOK
  <1>1. Inv /\ [Next]_vars => Inv'
    BY StepInv
  <1>2. Inv => TypeOK
    BY DEF Inv
  <1>3. QED
    BY InitInv, <1>1, <1>2, PTL DEF Spec

\* Nobody who just signed in is asked to sign in again: every instance with the
\* same credentials accepts a session of any length of time up to its lifetime
\* less the difference of the clocks.
THEOREM SessionsAreAccepted == Spec => []FreshSessionAccepted
  <1>1. Inv => FreshSessionAccepted
    <2> SUFFICES ASSUME Inv, NEW i \in Instance, cookie # None,
                        cookie.by = credentials[i], now + MaxSkew < cookie.at + TTL
                 PROVE  verifySession(cookie, i)
      BY DEF FreshSessionAccepted
    <2>1. /\ cookie \in Session /\ now \in Nat /\ ahead[i] \in 0..MaxSkew
      BY DEF Inv, TypeOK, Maybe
    <2>2. /\ cookie.at <= now /\ cookie.at <= cookie.iat
          /\ cookie.iat <= cookie.at + MaxSkew
      BY DEF Inv, SessionsSound, Sound
    <2>3. QED
      BY <2>1, <2>2, SessionAssumption DEF verifySession, Clock, Session
  <1>2. QED
    BY InitInv, StepInv, <1>1, PTL DEF Spec

\* A stale token costs a tab one refusal, not a reload: no cookie is refused
\* twice in a row.
THEOREM RefusedAtMostOnce == Spec => []NeverRefusedTwice
  <1>1. Inv => NeverRefusedTwice
    BY DEF Inv, AnswersSound, RefusalsSound, NeverRefusedTwice
  <1>2. QED
    BY InitInv, StepInv, <1>1, PTL DEF Spec

=============================================================================
