----------------------------- MODULE StoreProofs ---------------------------
(***************************************************************************)
(* Machine-checked proofs about WorkspaceStore, for any number of          *)
(* requests, processes and server sessions.                                *)
(*                                                                         *)
(*   StoreTypeCorrect    TypeOK                                            *)
(*   WritersAreAlone     WritesAreLocked                                   *)
(*   PoolStaysClean      PoolIsClean                                       *)
(*   LayerIsSerial       IsSerial: WorkspaceStore implements SerialStore   *)
(*   AnswersStayCurrent  AnswersAreCurrent                                 *)
(*                                                                         *)
(* The two safety invariants are proved together.  They become inductive   *)
(* with three facts about the layer: a connection belongs to one pool and  *)
(* a busy pool to one request (OneOwner), a session that ended keeps       *)
(* nothing (ClosedIsFree), and while the session of a request is alive, it *)
(* is where withWorkspace believes it is (Stage).                          *)
(*                                                                         *)
(* For the refinement, a second invariant says what requests and sessions  *)
(* have seen and written: uncommitted writes rest on the store as it still *)
(* is (Pending), a writer that was applied had read exactly what precedes  *)
(* it (Past), and what a handler has read twice it has read the same       *)
(* (Views).  For the answers, a third one says that the stores a request   *)
(* has met came one after the other (InOrder).                             *)
(***************************************************************************)
EXTENDS WorkspaceStore, SequenceTheorems, TLAPS

\* The types hold initially and every step keeps them.
LEMMA StoreTypeInit == Init => TypeOK
  BY StoreAssumption DEF Init, TypeOK

\* Every statement, failure and answer keeps the types.
LEMMA StoreTypeStep ==
    ASSUME TypeOK, [Next]_vars
    PROVE  TypeOK'
  <1> USE StoreAssumption DEF TypeOK
  <1>1. ASSUME NEW r \in Request, RequestStep(r)
        PROVE  TypeOK'
    <2>0. home[r] \in Process /\ (Usable(r) => At(r) \in Session)
      BY DEF Usable, At
    <2>1. CASE Borrow(r)
      <3>1. CASE conn[home[r]] # None
        BY <2>0, <2>1, <3>1 DEF Borrow
      <3>2. CASE conn[home[r]] = None
        <4>1. PICK s \in Session :
                 /\ conn' = [conn EXCEPT ![home[r]] = s]
                 /\ state' = [state EXCEPT ![s] = "idle"]
                 /\ link' = [link EXCEPT ![s] = TRUE]
                 /\ inHand' = [inHand EXCEPT ![s] = "none"]
          BY <2>1, <3>2 DEF Borrow
        <4>2. QED
          BY <2>0, <2>1, <4>1 DEF Borrow
      <3>3. QED
        BY <3>1, <3>2
    <2>2. CASE ConnectFails(r)
      BY <2>2 DEF ConnectFails, serverVars
    <2>3. CASE Begin(r)
      BY <2>0, <2>3 DEF Begin
    <2>4. CASE Locked(r)
      BY <2>0, <2>4 DEF Locked
    <2>5. CASE Read(r)
      BY <2>0, <2>5 DEF Read, serverVars
    <2>6. CASE Handle(r)
      BY <2>0, <2>6 DEF Handle, Writes
    <2>7. CASE Refuse(r)
      BY <2>7 DEF Refuse, serverVars
    <2>8. CASE SendCommit(r)
      BY <2>0, <2>8 DEF SendCommit
    <2>9. CASE Committed(r)
      BY <2>0, <2>9 DEF Committed
    <2>10. CASE QueryFails(r)
      BY <2>10 DEF QueryFails, serverVars
    <2>11. CASE Rollback(r)
      BY <2>0, <2>11 DEF Rollback, TellFailure, Unlock
    <2>12. CASE RollbackFails(r)
      BY <2>0, <2>12 DEF RollbackFails, TellFailure, GiveBack
    <2>13. QED
      BY <1>1, <2>1, <2>2, <2>3, <2>4, <2>5, <2>6, <2>7, <2>8, <2>9, <2>10, <2>11,
         <2>12 DEF RequestStep
  <1>2. ASSUME NEW p \in Process, Evict(p)
        PROVE  TypeOK'
    BY <1>2 DEF Evict
  <1>3. ASSUME NEW s \in Session, SessionStep(s)
        PROVE  TypeOK'
    <2>1. CASE GrantLock(s)
      BY <2>1 DEF GrantLock
    <2>2. CASE LockTimeout(s)
      BY <2>2 DEF LockTimeout
    <2>3. CASE ServerCommit(s)
      BY <2>3 DEF ServerCommit, Unlock
    <2>4. CASE NetworkCut(s)
      BY <2>4 DEF NetworkCut
    <2>5. CASE EndSession(s)
      BY <2>5 DEF EndSession, Unlock
    <2>6. QED
      BY <1>3, <2>1, <2>2, <2>3, <2>4, <2>5 DEF SessionStep
  <1>4. CASE UNCHANGED vars
    BY <1>4 DEF vars
  <1>5. QED
    BY <1>1, <1>2, <1>3, <1>4 DEF Next

\* The layer's variables keep their types, with any number of sessions.
THEOREM StoreTypeCorrect == Spec => []TypeOK
  <1>1. TypeOK /\ [Next]_vars => TypeOK'
    BY StoreTypeStep
  <1>2. QED
    BY StoreTypeInit, <1>1, PTL DEF Spec

-----------------------------------------------------------------------------
(***************************************************************************)
(* The inductive invariant.                                                *)
(***************************************************************************)

Held(r) == pc[r] \notin {"queued", "done"}

OneOwner ==
    /\ \A r \in Request : Held(r) => busy[home[r]] = r
    /\ \A p, q \in Process : conn[p] # None /\ conn[p] = conn[q] => p = q

Clean(s) == state[s] # "active" /\ holder # s /\ inHand[s] = "none"

ClosedIsFree ==
    \A s \in Session : state[s] = "closed" => Clean(s)

\* What withWorkspace assumes of its session at each of its steps; nothing once
\* a statement failed.
Stage(r, s) ==
    /\ pc[r] = "begin" => Clean(s)
    /\ pc[r] = "lock" => /\ inHand[s] \in {"lock", "granted", "refused"}
                         /\ inHand[s] = "granted" => holder = s
    /\ pc[r] \in {"read", "handle", "commit"} => /\ inHand[s] = "none"
                                                 /\ r \in Writer => holder = s
    /\ pc[r] = "committing" =>
         /\ inHand[s] \in {"commit", "committed"}
         /\ inHand[s] = "committed" => state[s] # "active" /\ holder # s

Stages ==
    \A r \in Request, s \in Session :
        At(r) = s /\ state[s] # "closed" => Stage(r, s)

StoreInv ==
    OneOwner /\ ClosedIsFree /\ Stages /\ WritesAreLocked /\ PoolIsClean

\* No session is open yet.
LEMMA StoreInvInit == Init => StoreInv
  BY StoreAssumption DEF Init, StoreInv, OneOwner, ClosedIsFree, Clean, Stages, Stage,
     WritesAreLocked, PoolIsClean, Held, At

\* Two requests that are under way work on different sessions.
LEMMA Apart ==
    ASSUME TypeOK, OneOwner, NEW r \in Request, NEW q \in Request, q # r,
           Held(r), Held(q), At(r) # None
    PROVE  home[q] # home[r] /\ At(q) # At(r)
  BY StoreAssumption DEF TypeOK, OneOwner, At

\* What a request does to the layer.
LEMMA RequestKeeps ==
    ASSUME TypeOK, StoreInv, NEW r \in Request, RequestStep(r)
    PROVE  StoreInv'
  <1> USE StoreAssumption DEF TypeOK, StoreInv, Clean
  <1>0. home \in [Request -> Process]
    OBVIOUS
  <1>1. CASE Borrow(r)
    <2>1. CASE conn[home[r]] # None
      <3>1. OneOwner'
        BY <1>1, <2>1 DEF Borrow, OneOwner, Held
      <3>2. ClosedIsFree'
        BY <1>1, <2>1 DEF Borrow, ClosedIsFree
      <3>3. Stages'
        BY <1>1, <2>1 DEF Borrow, Stages, Stage, PoolIsClean, At
      <3>4. WritesAreLocked'
        BY <1>1, <2>1 DEF Borrow, WritesAreLocked
      <3>5. PoolIsClean'
        BY <1>1, <2>1 DEF Borrow, PoolIsClean
      <3>6. QED
        BY <3>1, <3>2, <3>3, <3>4, <3>5
    <2>2. CASE conn[home[r]] = None
      <3>0. PICK s \in Session :
               /\ state[s] = "closed"
               /\ \A q \in Process : conn[q] # s
               /\ conn' = [conn EXCEPT ![home[r]] = s]
               /\ state' = [state EXCEPT ![s] = "idle"]
               /\ link' = [link EXCEPT ![s] = TRUE]
               /\ inHand' = [inHand EXCEPT ![s] = "none"]
        BY <1>1, <2>2 DEF Borrow
      <3>a. /\ busy[home[r]] = None
            /\ busy' = [busy EXCEPT ![home[r]] = r]
            /\ pc' = [pc EXCEPT ![r] = "begin"]
            /\ holder' = holder /\ dirty' = dirty
        BY <1>1 DEF Borrow
      <3>b. Clean(s)
        BY <3>0 DEF ClosedIsFree
      <3>1. OneOwner'
        BY <3>0, <3>a DEF OneOwner, Held
      <3>2. ClosedIsFree'
        BY <3>0, <3>a DEF ClosedIsFree
      <3>3. Stages'
        <4> SUFFICES ASSUME NEW q \in Request, NEW t \in Session,
                            conn'[home[q]] = t, state'[t] # "closed"
                     PROVE  Stage(q, t)'
          BY DEF Stages, At
        <4>1. CASE q = r
          BY <3>0, <3>a, <3>b, <4>1 DEF Stage
        <4>2. CASE q # r
          <5>1. pc'[q] = pc[q] /\ (Held(q) => home[q] # home[r])
            BY <3>a, <4>2 DEF OneOwner
          <5>2. Held(q) => conn[home[q]] = t /\ t # s
            BY <3>0, <5>1
          <5>3. Held(q) => Stage(q, t)
            BY <3>0, <5>2 DEF Stages, At
          <5>4. QED
            BY <3>0, <3>a, <5>1, <5>2, <5>3 DEF Stage, Held
        <4>3. QED
          BY <4>1, <4>2
      <3>4. WritesAreLocked'
        BY <3>a DEF WritesAreLocked
      <3>5. PoolIsClean'
        BY <3>0, <3>a, <3>b DEF PoolIsClean
      <3>6. QED
        BY <3>1, <3>2, <3>3, <3>4, <3>5
    <2>3. QED
      BY <2>1, <2>2
  <1>2. CASE ConnectFails(r)
    <2>1. OneOwner'
      BY <1>2 DEF ConnectFails, serverVars, OneOwner, Held, At
    <2>2. ClosedIsFree'
      BY <1>2 DEF ConnectFails, serverVars, ClosedIsFree, Usable, At
    <2>3. Stages'
      BY <1>2 DEF ConnectFails, serverVars, Stages, Stage, OneOwner, Held, Usable, At, TakesLock
    <2>4. WritesAreLocked'
      BY <1>2 DEF ConnectFails, serverVars, WritesAreLocked, Stages, Stage, Usable, At
    <2>5. PoolIsClean'
      BY <1>2 DEF ConnectFails, serverVars, PoolIsClean, OneOwner, Held, Stages, Stage, Usable, At
    <2>6. QED
      BY <2>1, <2>2, <2>3, <2>4, <2>5
  <1>3. CASE Begin(r)
    <2>1. OneOwner'
      BY <1>3 DEF Begin, OneOwner, Held, At
    <2>2. ClosedIsFree'
      BY <1>3 DEF Begin, ClosedIsFree, Usable, At
    <2>3. Stages'
      BY <1>3 DEF Begin, Stages, Stage, OneOwner, Held, Usable, At, TakesLock
    <2>4. WritesAreLocked'
      BY <1>3 DEF Begin, WritesAreLocked, Stages, Stage, Usable, At
    <2>5. PoolIsClean'
      <3>1. busy[home[r]] = r /\ At(r) # None
        BY <1>3 DEF Begin, OneOwner, Held, Usable
      <3>2. ASSUME NEW p \in Process, busy[p] = None, conn[p] # None
            PROVE  conn[p] # At(r)
        BY <3>1, <3>2 DEF OneOwner, At
      <3>3. QED
        BY <1>3, <3>2 DEF Begin, PoolIsClean
    <2>6. QED
      BY <2>1, <2>2, <2>3, <2>4, <2>5
  <1>4. CASE Locked(r)
    <2>1. OneOwner'
      BY <1>4 DEF Locked, OneOwner, Held, At
    <2>2. ClosedIsFree'
      BY <1>4 DEF Locked, ClosedIsFree, Usable, At
    <2>3. Stages'
      BY <1>4 DEF Locked, Stages, Stage, OneOwner, Held, Usable, At, TakesLock
    <2>4. WritesAreLocked'
      BY <1>4 DEF Locked, WritesAreLocked, Stages, Stage, Usable, At
    <2>5. PoolIsClean'
      BY <1>4 DEF Locked, PoolIsClean, OneOwner, Held, Stages, Stage, Usable, At
    <2>6. QED
      BY <2>1, <2>2, <2>3, <2>4, <2>5
  <1>5. CASE Read(r)
    <2>1. OneOwner'
      BY <1>5 DEF Read, serverVars, OneOwner, Held, At
    <2>2. ClosedIsFree'
      BY <1>5 DEF Read, serverVars, ClosedIsFree, Usable, At
    <2>3. Stages'
      BY <1>5 DEF Read, serverVars, Stages, Stage, OneOwner, Held, Usable, At, TakesLock
    <2>4. WritesAreLocked'
      BY <1>5 DEF Read, serverVars, WritesAreLocked, Stages, Stage, Usable, At
    <2>5. PoolIsClean'
      BY <1>5 DEF Read, serverVars, PoolIsClean, OneOwner, Held, Stages, Stage, Usable, At
    <2>6. QED
      BY <2>1, <2>2, <2>3, <2>4, <2>5
  <1>6. CASE Handle(r)
    <2>1. OneOwner'
      BY <1>6 DEF Handle, Writes, OneOwner, Held, At
    <2>2. ClosedIsFree'
      BY <1>6 DEF Handle, Writes, ClosedIsFree, Usable, At
    <2>3. Stages'
      BY <1>6 DEF Handle, Writes, Stages, Stage, OneOwner, Held, Usable, At, TakesLock
    <2>4. WritesAreLocked'
      BY <1>6 DEF Handle, Writes, WritesAreLocked, Stages, Stage, Usable, At
    <2>5. PoolIsClean'
      BY <1>6 DEF Handle, Writes, PoolIsClean, OneOwner, Held, Stages, Stage, Usable, At
    <2>6. QED
      BY <2>1, <2>2, <2>3, <2>4, <2>5
  <1>7. CASE Refuse(r)
    <2>1. OneOwner'
      BY <1>7 DEF Refuse, serverVars, OneOwner, Held, At
    <2>2. ClosedIsFree'
      BY <1>7 DEF Refuse, serverVars, ClosedIsFree, Usable, At
    <2>3. Stages'
      BY <1>7 DEF Refuse, serverVars, Stages, Stage, OneOwner, Held, Usable, At, TakesLock
    <2>4. WritesAreLocked'
      BY <1>7 DEF Refuse, serverVars, WritesAreLocked, Stages, Stage, Usable, At
    <2>5. PoolIsClean'
      BY <1>7 DEF Refuse, serverVars, PoolIsClean, OneOwner, Held, Stages, Stage, Usable, At
    <2>6. QED
      BY <2>1, <2>2, <2>3, <2>4, <2>5
  <1>8. CASE SendCommit(r)
    <2>1. OneOwner'
      BY <1>8 DEF SendCommit, OneOwner, Held, At
    <2>2. ClosedIsFree'
      BY <1>8 DEF SendCommit, ClosedIsFree, Usable, At
    <2>3. Stages'
      <3> SUFFICES ASSUME NEW q \in Request, NEW t \in Session,
                          At(q)' = t, state'[t] # "closed"
                   PROVE  Stage(q, t)'
        BY DEF Stages
      <3>1. CASE q = r
        BY <1>8, <3>1 DEF SendCommit, Stages, Stage, Usable, At
      <3>2. CASE q # r
        <4>1. At(q) = t /\ state[t] # "closed" /\ pc'[q] = pc[q]
          BY <1>8, <3>2 DEF SendCommit, At
        <4>2. Stage(q, t)
          BY <4>1 DEF Stages
        <4>3. Held(q) => t # At(r)
          <5>1. Held(r) /\ At(r) # None
            BY <1>8 DEF SendCommit, Held, Usable
          <5>2. QED
            BY <3>2, <4>1, <5>1, Apart
        <4>4. QED
          BY <1>8, <4>1, <4>2, <4>3 DEF SendCommit, Stage, Held
      <3>3. QED
        BY <3>1, <3>2
    <2>4. WritesAreLocked'
      BY <1>8 DEF SendCommit, WritesAreLocked, Stages, Stage, Usable, At
    <2>5. PoolIsClean'
      BY <1>8 DEF SendCommit, PoolIsClean, OneOwner, Held, Stages, Stage, Usable, At
    <2>6. QED
      BY <2>1, <2>2, <2>3, <2>4, <2>5
  <1>9. CASE Committed(r)
    <2>1. OneOwner'
      BY <1>9 DEF Committed, OneOwner, Held, At
    <2>2. ClosedIsFree'
      BY <1>9 DEF Committed, ClosedIsFree, Usable, At
    <2>3. Stages'
      <3> SUFFICES ASSUME NEW q \in Request, NEW t \in Session,
                          At(q)' = t, state'[t] # "closed"
                   PROVE  Stage(q, t)'
        BY DEF Stages
      <3>1. CASE q = r
        BY <1>9, <3>1 DEF Committed, Stages, Stage
      <3>2. CASE q # r
        <4>1. At(q) = t /\ state[t] # "closed" /\ pc'[q] = pc[q]
          BY <1>9, <3>2 DEF Committed, At
        <4>2. Stage(q, t)
          BY <4>1 DEF Stages
        <4>3. Held(q) => t # At(r)
          <5>1. Held(r) /\ At(r) # None
            BY <1>9 DEF Committed, Held, Usable
          <5>2. QED
            BY <3>2, <4>1, <5>1, Apart
        <4>4. QED
          BY <1>9, <4>1, <4>2, <4>3 DEF Committed, Stage, Held
      <3>3. QED
        BY <3>1, <3>2
    <2>4. WritesAreLocked'
      BY <1>9 DEF Committed, WritesAreLocked, Stages, Stage, Usable, At
    <2>5. PoolIsClean'
      BY <1>9 DEF Committed, PoolIsClean, OneOwner, Held, Stages, Stage, Usable, At
    <2>6. QED
      BY <2>1, <2>2, <2>3, <2>4, <2>5
  <1>10. CASE QueryFails(r)
    <2>1. OneOwner'
      BY <1>10 DEF QueryFails, serverVars, OneOwner, Held, At
    <2>2. ClosedIsFree'
      BY <1>10 DEF QueryFails, serverVars, ClosedIsFree, Usable, At
    <2>3. Stages'
      <3> SUFFICES ASSUME NEW q \in Request, NEW t \in Session,
                          At(q)' = t, state'[t] # "closed"
                   PROVE  Stage(q, t)'
        BY DEF Stages
      <3>1. CASE q = r
        BY <1>10, <3>1 DEF QueryFails, Stage
      <3>2. CASE q # r
        <4>1. At(q) = t /\ state[t] # "closed" /\ pc'[q] = pc[q]
          BY <1>10, <3>2 DEF QueryFails, serverVars, At
        <4>2. Stage(q, t)
          BY <4>1 DEF Stages
        <4>3. QED
          BY <1>10, <4>1, <4>2 DEF QueryFails, serverVars, Stage
      <3>3. QED
        BY <3>1, <3>2
    <2>4. WritesAreLocked'
      BY <1>10 DEF QueryFails, serverVars, WritesAreLocked, Stages, Stage, Usable, At
    <2>5. PoolIsClean'
      BY <1>10 DEF QueryFails, serverVars, PoolIsClean, OneOwner, Held, Stages, Stage, Usable, At
    <2>6. QED
      BY <2>1, <2>2, <2>3, <2>4, <2>5
  <1>11. CASE Rollback(r)
    <2>1. OneOwner'
      BY <1>11 DEF Rollback, TellFailure, Unlock, OneOwner, Held, At
    <2>2. ClosedIsFree'
      BY <1>11 DEF Rollback, TellFailure, Unlock, ClosedIsFree, Usable, At
    <2>3. Stages'
      BY <1>11 DEF Rollback, TellFailure, Unlock, Stages, Stage, OneOwner, Held, Usable, At, TakesLock
    <2>4. WritesAreLocked'
      BY <1>11 DEF Rollback, TellFailure, Unlock, WritesAreLocked, Stages, Stage, Usable, At
    <2>5. PoolIsClean'
      BY <1>11 DEF Rollback, TellFailure, Unlock, PoolIsClean, OneOwner, Held, Stages, Stage, Usable, At
    <2>6. QED
      BY <2>1, <2>2, <2>3, <2>4, <2>5
  <1>12. CASE RollbackFails(r)
    <2>1. OneOwner'
      BY <1>12 DEF RollbackFails, TellFailure, GiveBack, OneOwner, Held, At
    <2>2. ClosedIsFree'
      BY <1>12 DEF RollbackFails, TellFailure, GiveBack, ClosedIsFree, Usable, At
    <2>3. Stages'
      BY <1>12 DEF RollbackFails, TellFailure, GiveBack, Stages, Stage, OneOwner, Held, Usable, At, TakesLock
    <2>4. WritesAreLocked'
      BY <1>12 DEF RollbackFails, TellFailure, GiveBack, WritesAreLocked, Stages, Stage, Usable, At
    <2>5. PoolIsClean'
      BY <1>12 DEF RollbackFails, TellFailure, GiveBack, PoolIsClean, OneOwner, Held, Stages, Stage, Usable, At
    <2>6. QED
      BY <2>1, <2>2, <2>3, <2>4, <2>5
  <1>13. QED
    BY <1>1, <1>2, <1>3, <1>4, <1>5, <1>6, <1>7, <1>8, <1>9, <1>10, <1>11, <1>12 DEF RequestStep

\* What the pool of a process, the server and the network do to it.
LEMMA SurroundingsKeep ==
    ASSUME TypeOK, StoreInv,
           \/ \E p \in Process : Evict(p)
           \/ \E s \in Session : SessionStep(s)
           \/ UNCHANGED vars
    PROVE  StoreInv'
  <1> USE StoreAssumption DEF TypeOK, StoreInv, Clean
  <1>1. ASSUME NEW p \in Process, Evict(p)
        PROVE  StoreInv'
    <2>1. OneOwner'
      BY <1>1 DEF Evict, OneOwner, Held, At
    <2>2. ClosedIsFree'
      BY <1>1 DEF Evict, ClosedIsFree, Usable, At
    <2>3. Stages'
      BY <1>1 DEF Evict, Stages, Stage, OneOwner, Held, Usable, At, TakesLock
    <2>4. WritesAreLocked'
      BY <1>1 DEF Evict, WritesAreLocked, Stages, Stage, Usable, At
    <2>5. PoolIsClean'
      BY <1>1 DEF Evict, PoolIsClean, OneOwner, Held, Stages, Stage, Usable, At
    <2>6. QED
      BY <2>1, <2>2, <2>3, <2>4, <2>5
  <1>2. ASSUME NEW s \in Session, GrantLock(s)
        PROVE  StoreInv'
    <2>1. OneOwner'
      BY <1>2 DEF GrantLock, OneOwner, Held, At
    <2>2. ClosedIsFree'
      BY <1>2 DEF GrantLock, ClosedIsFree, Usable, At
    <2>3. Stages'
      <3> SUFFICES ASSUME NEW q \in Request, NEW t \in Session,
                          At(q)' = t, state'[t] # "closed"
                   PROVE  Stage(q, t)'
        BY DEF Stages
      <3>1. At(q) = t /\ state[t] # "closed" /\ pc' = pc
        BY <1>2 DEF GrantLock, At
      <3>2. Stage(q, t)
        BY <3>1 DEF Stages
      <3>3. CASE t = s
        BY <1>2, <3>1, <3>2, <3>3 DEF GrantLock, Stage
      <3>4. CASE t # s
        BY <1>2, <3>1, <3>2, <3>4 DEF GrantLock, Stage, LockFree
      <3>5. QED
        BY <3>3, <3>4
    <2>4. WritesAreLocked'
      BY <1>2 DEF GrantLock, LockFree, WritesAreLocked
    <2>5. PoolIsClean'
      BY <1>2 DEF GrantLock, PoolIsClean, OneOwner, Held, Stages, Stage, Usable, At
    <2>6. QED
      BY <2>1, <2>2, <2>3, <2>4, <2>5
  <1>3. ASSUME NEW s \in Session, LockTimeout(s)
        PROVE  StoreInv'
    <2>1. OneOwner'
      BY <1>3 DEF LockTimeout, OneOwner, Held, At
    <2>2. ClosedIsFree'
      BY <1>3 DEF LockTimeout, ClosedIsFree, Usable, At
    <2>3. Stages'
      BY <1>3 DEF LockTimeout, Stages, Stage, OneOwner, Held, Usable, At, TakesLock
    <2>4. WritesAreLocked'
      BY <1>3 DEF LockTimeout, WritesAreLocked, Stages, Stage, Usable, At
    <2>5. PoolIsClean'
      BY <1>3 DEF LockTimeout, PoolIsClean, OneOwner, Held, Stages, Stage, Usable, At
    <2>6. QED
      BY <2>1, <2>2, <2>3, <2>4, <2>5
  <1>4. ASSUME NEW s \in Session, ServerCommit(s)
        PROVE  StoreInv'
    <2>1. OneOwner'
      BY <1>4 DEF ServerCommit, Unlock, OneOwner, Held, At
    <2>2. ClosedIsFree'
      BY <1>4 DEF ServerCommit, Unlock, ClosedIsFree, Usable, At
    <2>3. Stages'
      <3> SUFFICES ASSUME NEW q \in Request, NEW t \in Session,
                          At(q)' = t, state'[t] # "closed"
                   PROVE  Stage(q, t)'
        BY DEF Stages
      <3>0. At(q) = t /\ pc' = pc /\ state[s] # "closed"
        BY <1>4 DEF ServerCommit, ClosedIsFree, Clean, At
      <3>1. At(q) = t /\ state[t] # "closed" /\ pc' = pc
        BY <1>4, <3>0 DEF ServerCommit
      <3>2. Stage(q, t)
        BY <3>1 DEF Stages
      <3>3. CASE t = s
        BY <1>4, <3>1, <3>2, <3>3 DEF ServerCommit, Unlock, Stage
      <3>4. CASE t # s
        BY <1>4, <3>1, <3>2, <3>4 DEF ServerCommit, Unlock, Stage, LockFree
      <3>5. QED
        BY <3>3, <3>4
    <2>4. WritesAreLocked'
      BY <1>4 DEF ServerCommit, Unlock, WritesAreLocked, Stages, Stage, Usable, At
    <2>5. PoolIsClean'
      BY <1>4 DEF ServerCommit, Unlock, PoolIsClean, OneOwner, Held, Stages, Stage, Usable, At
    <2>6. QED
      BY <2>1, <2>2, <2>3, <2>4, <2>5
  <1>5. ASSUME NEW s \in Session, NetworkCut(s)
        PROVE  StoreInv'
    <2>1. OneOwner'
      BY <1>5 DEF NetworkCut, OneOwner, Held, At
    <2>2. ClosedIsFree'
      BY <1>5 DEF NetworkCut, ClosedIsFree, Usable, At
    <2>3. Stages'
      BY <1>5 DEF NetworkCut, Stages, Stage, OneOwner, Held, Usable, At, TakesLock
    <2>4. WritesAreLocked'
      BY <1>5 DEF NetworkCut, WritesAreLocked, Stages, Stage, Usable, At
    <2>5. PoolIsClean'
      BY <1>5 DEF NetworkCut, PoolIsClean, OneOwner, Held, Stages, Stage, Usable, At
    <2>6. QED
      BY <2>1, <2>2, <2>3, <2>4, <2>5
  <1>6. ASSUME NEW s \in Session, EndSession(s)
        PROVE  StoreInv'
    <2>1. OneOwner'
      BY <1>6 DEF EndSession, Unlock, OneOwner, Held, At
    <2>2. ClosedIsFree'
      BY <1>6 DEF EndSession, Unlock, ClosedIsFree, Usable, At
    <2>3. Stages'
      BY <1>6 DEF EndSession, Unlock, Stages, Stage, OneOwner, Held, Usable, At, TakesLock
    <2>4. WritesAreLocked'
      BY <1>6 DEF EndSession, Unlock, WritesAreLocked, Stages, Stage, Usable, At
    <2>5. PoolIsClean'
      BY <1>6 DEF EndSession, Unlock, PoolIsClean, OneOwner, Held, Stages, Stage, Usable, At
    <2>6. QED
      BY <2>1, <2>2, <2>3, <2>4, <2>5
  <1>7. CASE UNCHANGED vars
    <2>1. OneOwner'
      BY <1>7 DEF vars, OneOwner, Held, At
    <2>2. ClosedIsFree'
      BY <1>7 DEF vars, ClosedIsFree, Usable, At
    <2>3. Stages'
      BY <1>7 DEF vars, Stages, Stage, OneOwner, Held, Usable, At, TakesLock
    <2>4. WritesAreLocked'
      BY <1>7 DEF vars, WritesAreLocked, Stages, Stage, Usable, At
    <2>5. PoolIsClean'
      BY <1>7 DEF vars, PoolIsClean, OneOwner, Held, Stages, Stage, Usable, At
    <2>6. QED
      BY <2>1, <2>2, <2>3, <2>4, <2>5
  <1>8. QED
    BY <1>1, <1>2, <1>3, <1>4, <1>5, <1>6, <1>7 DEF SessionStep

\* "Every writer sees the previous writer's commit": uncommitted writes exist
\* only under the advisory lock, also in a session whose client gave up.
THEOREM WritersAreAlone == Spec => []WritesAreLocked
  <1>1. TypeOK /\ StoreInv /\ [Next]_vars => StoreInv'
    BY RequestKeeps, SurroundingsKeep DEF Next
  <1>2. StoreInv => WritesAreLocked
    BY DEF StoreInv
  <1>3. QED
    BY StoreInvInit, StoreTypeCorrect, <1>1, <1>2, PTL DEF Spec

\* A connection in the pool carries no transaction, lock or statement over to
\* the next request, whatever failed before.
THEOREM PoolStaysClean == Spec => []PoolIsClean
  <1>1. TypeOK /\ StoreInv /\ [Next]_vars => StoreInv'
    BY RequestKeeps, SurroundingsKeep DEF Next
  <1>2. StoreInv => PoolIsClean
    BY DEF StoreInv
  <1>3. QED
    BY StoreInvInit, StoreTypeCorrect, <1>1, <1>2, PTL DEF Spec

-----------------------------------------------------------------------------
(***************************************************************************)
(* The refinement.                                                         *)
(***************************************************************************)

\* A sequence has an element; what comes before it; no element comes twice.
Has(q, r) == \E i \in DOMAIN q : q[i] = r

Upto(q, r) == SubSeq(q, 1, (CHOOSE i \in DOMAIN q : q[i] = r) - 1)

Distinct(q) == \A i, j \in DOMAIN q : q[i] = q[j] => i = j

Applied(r) == Has(db, r)

Before(r) == Upto(db, r)

\* No writer is applied twice.
Once == Distinct(db)

\* Writes that wait for COMMIT rest on the store as it is, wherever their client
\* has got to.
Pending ==
    \A s \in Session : \A w \in Request : dirty[s] = w =>
        /\ ~Applied(w)
        /\ pc[w] \in {"commit", "committing", "rollback", "done"}
        /\ pc[w] \in {"commit", "committing"} => At(w) = s
        /\ w \notin refusing
        /\ answer[w] \in {"pending", "error"}
        /\ reads[w] = <<db, db>>

\* An applied writer had read what precedes it.
Past ==
    \A w \in Request : Applied(w) =>
        /\ pc[w] \in {"committing", "rollback", "done"}
        /\ w \notin refusing
        /\ reads[w] = <<Before(w), Before(w)>>

\* What a request has read and written at each step of withWorkspace, while its
\* session is alive.
Work(r, s) ==
    /\ pc[r] \in {"begin", "lock", "read", "handle"} => dirty[s] = None
    /\ r \in Writer =>
         /\ pc[r] = "read" => reads[r] \in {<<>>, <<db>>}
         /\ pc[r] = "handle" => reads[r] = <<db, db>>
         /\ pc[r] = "commit" => dirty[s] = r
         /\ pc[r] = "committing" /\ inHand[s] = "commit" => dirty[s] = r
         /\ pc[r] = "committing" /\ inHand[s] = "committed" => Applied(r)

Works ==
    \A r \in Request, s \in Session :
        At(r) = s /\ state[s] # "closed" => Work(r, s)

\* What it has read, also when its session is gone.
Seen(r) ==
    /\ pc[r] \in {"queued", "begin"} => snapshot[r] = None
    /\ pc[r] \in {"queued", "begin", "lock"} => reads[r] = <<>>
    /\ pc[r] = "read" => reads[r] = <<>> \/ \E v \in Seq(Writer) : reads[r] = <<v>>
    /\ pc[r] \in {"handle", "commit", "committing"} \/ r \in refusing =>
         \E v \in Seq(Writer) : reads[r] = <<v, v>>
    /\ r \in refusing => pc[r] \in {"rollback", "done"}
    /\ r \notin Writer =>
         /\ pc[r] # "lock"
         /\ pc[r] \in {"read", "handle", "commit", "committing"} \/ r \in refusing =>
              /\ snapshot[r] \in Seq(Writer)
              /\ reads[r] \in {<<>>, <<snapshot[r]>>, <<snapshot[r], snapshot[r]>>}
    /\ pc[r] = "done" <=> answer[r] # "pending"
    /\ pc[r] # "done" => result[r] = None

Views == \A r \in Request : Seen(r)

\* The histories are functions of the requests.
Histories ==
    /\ snapshot = [r \in Request |-> snapshot[r]]
    /\ reads = [r \in Request |-> reads[r]]
    /\ result = [r \in Request |-> result[r]]

DataInv == Histories /\ Once /\ Pending /\ Past /\ Works /\ Views

-----------------------------------------------------------------------------
(* Facts about sequences.                                                  *)

\* What a handler has read after one read and after two.
LEMMA ReadTwice ==
    ASSUME NEW u, NEW v
    PROVE  /\ Append(<<>>, u) = <<u>>
           /\ Append(<<u>>, v) = <<u, v>>
           /\ <<u>>[1] = u /\ <<u, v>>[1] = u
           /\ <<u>> # <<>> /\ <<u, v>> # <<>>
  <1> DEFINE W == {u, v}
  <1>1. <<>> \in Seq(W) /\ <<u>> \in Seq(W) /\ <<u, v>> \in Seq(W)
    OBVIOUS
  <1>2. Append(<<>>, u) = <<u>>
    BY <1>1
  <1>3. Append(<<u>>, v) = <<u, v>>
    <2>1. Append(<<u>>, v) \in Seq(W)
      BY <1>1
    <2>2. Len(Append(<<u>>, v)) = 2 /\ Append(<<u>>, v)[1] = u /\ Append(<<u>>, v)[2] = v
      BY <1>1
    <2>3. Len(<<u, v>>) = 2 /\ <<u, v>>[1] = u /\ <<u, v>>[2] = v
      OBVIOUS
    <2>4. /\ Len(Append(<<u>>, v)) = Len(<<u, v>>)
          /\ \A i \in 1 .. Len(Append(<<u>>, v)) : Append(<<u>>, v)[i] = <<u, v>>[i]
      BY <2>2, <2>3
    <2>5. QED
      BY <1>1, <2>1, <2>4, SeqEqual
  <1>4. QED
    BY <1>2, <1>3

\* A prefix of the store is a store.
LEMMA PrefixIsStore ==
    ASSUME NEW W, NEW q \in Seq(W), NEW i \in DOMAIN q
    PROVE  SubSeq(q, 1, i - 1) \in Seq(W)
  <1>1. \A j \in 1 .. (i - 1) : q[j] \in W
    OBVIOUS
  <1>2. QED
    BY <1>1, SubSeqProperties

\* Applying one more writer moves none of the others.
LEMMA OneMore ==
    ASSUME NEW q \in Seq(Writer), NEW w \in Writer, ~Has(q, w), Distinct(q),
           NEW p, p = Append(q, w)
    PROVE  /\ Distinct(p)
           /\ \A r : Has(p, r) <=> r = w \/ Has(q, r)
           /\ Upto(p, w) = q
           /\ \A r : Has(q, r) => Upto(p, r) = Upto(q, r)
  <1> USE DEF Has, Distinct
  <1> DEFINE n == Len(q)
  <1>1. /\ p \in Seq(Writer) /\ Len(p) = n + 1 /\ n \in Nat
        /\ DOMAIN p = 1 .. (n + 1) /\ DOMAIN q = 1 .. n
        /\ \A i \in 1 .. n : p[i] = q[i]
        /\ p[n + 1] = w
    BY AppendProperties
  <1>2. \A i, j \in DOMAIN p : p[i] = p[j] => i = j
    BY <1>1
  <1>3. \A r : (\E i \in DOMAIN p : p[i] = r)
                 <=> (r = w \/ \E i \in DOMAIN q : q[i] = r)
    BY <1>1
  <1>4. \A m \in 0 .. n : SubSeq(p, 1, m) = SubSeq(q, 1, m)
    <2> SUFFICES ASSUME NEW m \in 0 .. n
                 PROVE  SubSeq(p, 1, m) = SubSeq(q, 1, m)
      OBVIOUS
    <2>1. /\ SubSeq(p, 1, m) \in Seq(Writer) /\ SubSeq(q, 1, m) \in Seq(Writer)
          /\ Len(SubSeq(p, 1, m)) = m /\ Len(SubSeq(q, 1, m)) = m
          /\ \A i \in 1 .. m : SubSeq(p, 1, m)[i] = p[i] /\ SubSeq(q, 1, m)[i] = q[i]
      <3>1. \A i \in 1 .. m : p[i] \in Writer /\ q[i] \in Writer
        BY <1>1
      <3>2. QED
        BY <1>1, <3>1, SubSeqProperties
    <2>2. QED
      BY <1>1, <2>1, SeqEqual
  <1>5. (CHOOSE i \in DOMAIN p : p[i] = w) = n + 1
    BY <1>1, <1>2
  <1>6. SubSeq(p, 1, (n + 1) - 1) = q
    BY <1>1, <1>4, SubSeqFull
  <1>7. ASSUME NEW r, \E i \in DOMAIN q : q[i] = r
        PROVE  SubSeq(p, 1, (CHOOSE i \in DOMAIN p : p[i] = r) - 1)
                 = SubSeq(q, 1, (CHOOSE i \in DOMAIN q : q[i] = r) - 1)
    <2>1. PICK k \in 1 .. n : q[k] = r
      BY <1>1, <1>7
    <2>2. (CHOOSE i \in DOMAIN p : p[i] = r) = k
      BY <1>1, <1>2, <2>1
    <2>3. (CHOOSE i \in DOMAIN q : q[i] = r) = k
      BY <1>1, <2>1
    <2>4. SubSeq(p, 1, k - 1) = SubSeq(q, 1, k - 1)
      BY <1>1, <1>4
    <2>5. QED
      BY <2>2, <2>3, <2>4
  <1>8. QED
    BY <1>2, <1>3, <1>5, <1>6, <1>7 DEF Upto

\* The store before an applied writer is a store.
LEMMA BeforeIsStore ==
    ASSUME TypeOK, NEW r, Applied(r)
    PROVE  Before(r) \in Seq(Writer) /\ r \in Writer
  <1>1. PICK i \in DOMAIN db : i = (CHOOSE j \in DOMAIN db : db[j] = r) /\ db[i] = r
    BY DEF Applied, Has
  <1>2. db \in Seq(Writer)
    BY DEF TypeOK
  <1>3. QED
    BY <1>1, <1>2, PrefixIsStore DEF Before, Upto

-----------------------------------------------------------------------------
(* The invariant holds initially and every step keeps it.                  *)

\* Nothing has been read or written.
LEMMA DataInvInit == Init => DataInv
  <1> SUFFICES ASSUME Init PROVE DataInv
    OBVIOUS
  <1> USE StoreAssumption DEF Init
  <1>1. Histories /\ Once /\ Pending /\ Past
    BY DEF Histories, Once, Distinct, Pending, Past, Applied, Has
  <1>2. Works
    BY DEF Works, At
  <1>3. Views
    BY DEF Views, Seen
  <1>4. QED
    BY <1>1, <1>2, <1>3 DEF DataInv

\* While nothing is committed, the same writers are applied, after the same others.
LEMMA SameStore ==
    ASSUME db' = db, NEW w
    PROVE  (Applied(w)' <=> Applied(w)) /\ Before(w)' = Before(w)
  BY DEF Applied, Before

\* Two requests that are under way do not meet in a session.
LEMMA Elsewhere ==
    ASSUME TypeOK, OneOwner, NEW r \in Request, NEW q \in Request, q # r,
           Held(r), Held(q), NEW s \in Session, At(r) = s
    PROVE  At(q) # s
  BY StoreAssumption, Apart

\* What a request does to the layer.
LEMMA RequestKeepsData ==
    ASSUME TypeOK, StoreInv, DataInv, NEW r \in Request, RequestStep(r)
    PROVE  DataInv'
  <1> USE StoreAssumption DEF TypeOK, StoreInv, DataInv
  <1>0. /\ home[r] \in Process
        /\ \A s \in Session : holder # s => dirty[s] = None
    BY DEF WritesAreLocked
  <1>1. CASE Borrow(r)
    <2>s. \A w : (Applied(w)' <=> Applied(w)) /\ Before(w)' = Before(w)
      BY <1>1, SameStore DEF Borrow
    <2>1. Histories'
      BY <1>1 DEF Borrow, Histories
    <2>2. Once'
      BY <1>1 DEF Borrow, Once
    <2>3. Pending'
      BY <1>1, <2>s DEF Borrow, Pending, Views, Seen, At
    <2>4. Past'
      BY <1>1, <2>s DEF Borrow, Past
    <2>5. Works'
      <3> SUFFICES ASSUME NEW q \in Request, NEW t \in Session,
                          At(q)' = t, state'[t] # "closed"
                   PROVE  Work(q, t)'
        BY DEF Works
      <3>1. CASE q = r
        <4>1. pc'[q] = "begin" /\ dirty' = dirty /\ UNCHANGED holder
          BY <1>1, <3>1 DEF Borrow
        <4>2. holder # t
          BY <1>1, <3>1 DEF Borrow, PoolIsClean, ClosedIsFree, Clean, At
        <4>3. QED
          BY <1>0, <4>1, <4>2 DEF Work
      <3>2. CASE q # r
        <4>1. pc'[q] = pc[q] /\ (Held(q) => home[q] # home[r])
          BY <1>1, <3>2 DEF Borrow, OneOwner
        <4>2. Held(q) => At(q) = t /\ state[t] # "closed" /\ inHand'[t] = inHand[t]
          BY <1>1, <3>2, <4>1 DEF Borrow, At
        <4>3. Held(q) => Work(q, t)
          BY <4>2 DEF Works
        <4>4. QED
          BY <1>1, <2>s, <4>1, <4>2, <4>3 DEF Borrow, Work, Held
      <3>3. QED
        BY <3>1, <3>2
    <2>6. Views'
      BY <1>1 DEF Borrow, Views, Seen
    <2>7. QED
      BY <2>1, <2>2, <2>3, <2>4, <2>5, <2>6
  <1>2. CASE ConnectFails(r)
    <2>s. \A w : (Applied(w)' <=> Applied(w)) /\ Before(w)' = Before(w)
      BY <1>2, SameStore DEF ConnectFails, serverVars
    <2>1. Histories'
      BY <1>2 DEF ConnectFails, serverVars, Histories
    <2>2. Once'
      BY <1>2 DEF ConnectFails, serverVars, Once
    <2>3. Pending'
      BY <1>2, <2>s DEF ConnectFails, serverVars, Pending, Views, Seen, At
    <2>4. Past'
      BY <1>2, <2>s DEF ConnectFails, serverVars, Past
    <2>5. Works'
      <3> SUFFICES ASSUME NEW q \in Request, NEW t \in Session,
                          At(q)' = t, state'[t] # "closed"
                   PROVE  Work(q, t)'
        BY DEF Works
      <3>1. CASE q = r
        BY <1>0, <1>2, <2>s, <3>1 DEF ConnectFails, serverVars, Works, Work, Stages, Stage, Clean, Views, Seen, At
      <3>2. CASE q # r
        <4>1. At(q) = t /\ state[t] # "closed" /\ pc'[q] = pc[q]
          BY <1>2, <3>2 DEF ConnectFails, serverVars, At
        <4>2. Work(q, t)
          BY <4>1 DEF Works
        <4>3. QED
          BY <1>2, <2>s, <3>2, <4>1, <4>2, Elsewhere DEF ConnectFails, serverVars, Work, Held
      <3>3. QED
        BY <3>1, <3>2
    <2>6. Views'
      BY <1>2 DEF ConnectFails, serverVars, Views, Seen
    <2>7. QED
      BY <2>1, <2>2, <2>3, <2>4, <2>5, <2>6
  <1>3. CASE Begin(r)
    <2>s. \A w : (Applied(w)' <=> Applied(w)) /\ Before(w)' = Before(w)
      BY <1>3, SameStore DEF Begin, Usable, TakesLock
    <2>1. Histories'
      BY <1>3 DEF Begin, Usable, TakesLock, Histories
    <2>2. Once'
      BY <1>3 DEF Begin, Usable, TakesLock, Once
    <2>3. Pending'
      BY <1>3, <2>s DEF Begin, Usable, TakesLock, Pending, Views, Seen, At
    <2>4. Past'
      BY <1>3, <2>s DEF Begin, Usable, TakesLock, Past
    <2>5. Works'
      <3> SUFFICES ASSUME NEW q \in Request, NEW t \in Session,
                          At(q)' = t, state'[t] # "closed"
                   PROVE  Work(q, t)'
        BY DEF Works
      <3>1. CASE q = r
        BY <1>0, <1>3, <2>s, <3>1 DEF Begin, Usable, TakesLock, Works, Work, Stages, Stage, Clean, Views, Seen, At
      <3>2. CASE q # r
        <4>1. At(q) = t /\ state[t] # "closed" /\ pc'[q] = pc[q]
          BY <1>3, <3>2 DEF Begin, Usable, TakesLock, At
        <4>2. Work(q, t)
          BY <4>1 DEF Works
        <4>3. QED
          BY <1>3, <2>s, <3>2, <4>1, <4>2, Elsewhere DEF Begin, Usable, TakesLock, Work, Held
      <3>3. QED
        BY <3>1, <3>2
    <2>6. Views'
      BY <1>3 DEF Begin, Usable, TakesLock, Views, Seen, Histories
    <2>7. QED
      BY <2>1, <2>2, <2>3, <2>4, <2>5, <2>6
  <1>4. CASE Locked(r)
    <2>s. \A w : (Applied(w)' <=> Applied(w)) /\ Before(w)' = Before(w)
      BY <1>4, SameStore DEF Locked, Usable
    <2>1. Histories'
      BY <1>4 DEF Locked, Usable, Histories
    <2>2. Once'
      BY <1>4 DEF Locked, Usable, Once
    <2>3. Pending'
      BY <1>4, <2>s DEF Locked, Usable, Pending, Views, Seen, At
    <2>4. Past'
      BY <1>4, <2>s DEF Locked, Usable, Past
    <2>5. Works'
      <3> SUFFICES ASSUME NEW q \in Request, NEW t \in Session,
                          At(q)' = t, state'[t] # "closed"
                   PROVE  Work(q, t)'
        BY DEF Works
      <3>1. CASE q = r
        BY <1>0, <1>4, <2>s, <3>1 DEF Locked, Usable, Works, Work, Stages, Stage, Clean, Views, Seen, At
      <3>2. CASE q # r
        <4>1. At(q) = t /\ state[t] # "closed" /\ pc'[q] = pc[q]
          BY <1>4, <3>2 DEF Locked, Usable, At
        <4>2. Work(q, t)
          BY <4>1 DEF Works
        <4>3. QED
          BY <1>4, <2>s, <3>2, <4>1, <4>2, Elsewhere DEF Locked, Usable, Work, Held
      <3>3. QED
        BY <3>1, <3>2
    <2>6. Views'
      BY <1>4 DEF Locked, Usable, Views, Seen
    <2>7. QED
      BY <2>1, <2>2, <2>3, <2>4, <2>5, <2>6
  <1>5. CASE Read(r)
    <2>s. \A w : (Applied(w)' <=> Applied(w)) /\ Before(w)' = Before(w)
      BY <1>5, SameStore DEF Read, Usable, serverVars, Isolation, StatementView
    <2>1. Histories'
      BY <1>5 DEF Read, Usable, serverVars, Isolation, StatementView, Histories
    <2>2. Once'
      BY <1>5 DEF Read, Usable, serverVars, Isolation, StatementView, Once
    <2>3. Pending'
      BY <1>5, <2>s DEF Read, Usable, serverVars, Isolation, StatementView, Pending, Views, Seen, At
    <2>4. Past'
      BY <1>5, <2>s DEF Read, Usable, serverVars, Isolation, StatementView, Past
    <2>5. Works'
      <3> SUFFICES ASSUME NEW q \in Request, NEW t \in Session,
                          At(q)' = t, state'[t] # "closed"
                   PROVE  Work(q, t)'
        BY DEF Works
      <3>0. UNCHANGED <<db, dirty, inHand>> /\ At(q) = t /\ state[t] # "closed"
        BY <1>5 DEF Read, serverVars, At
      <3>1. CASE q = r /\ r \in Writer
        <4>1. dirty[t] = None /\ reads[r] \in {<<>>, <<db>>}
          BY <1>5, <3>0, <3>1 DEF Read, Works, Work
        <4>2. reads'[r] = Append(reads[r], db)
          BY <1>5, <3>1 DEF Read, StatementView, Isolation, Histories
        <4>3. CASE reads[r] = <<>>
          <5>1. reads'[r] = <<db>> /\ pc'[r] = "read"
            BY <1>5, <4>2, <4>3, ReadTwice DEF Read
          <5>2. QED
            BY <3>0, <3>1, <4>1, <5>1 DEF Work
        <4>4. CASE reads[r] = <<db>>
          <5>1. reads'[r] = <<db, db>> /\ pc'[r] = "handle"
            BY <1>5, <4>2, <4>4, ReadTwice DEF Read
          <5>2. QED
            BY <3>0, <3>1, <4>1, <5>1 DEF Work
        <4>5. QED
          BY <4>1, <4>3, <4>4
      <3>2. CASE q = r /\ r \notin Writer
        BY <1>5, <3>0, <3>2 DEF Read, Works, Work
      <3>3. CASE q # r
        <4>1. pc'[q] = pc[q] /\ reads'[q] = reads[q]
          BY <1>5, <3>3 DEF Read
        <4>2. Work(q, t)
          BY <3>0 DEF Works
        <4>3. QED
          BY <2>s, <3>0, <4>1, <4>2 DEF Work
      <3>4. QED
        BY <3>1, <3>2, <3>3
    <2>6. Views'
      <3> SUFFICES ASSUME NEW q \in Request
                   PROVE  Seen(q)'
        BY DEF Views
      <3>1. CASE q # r
        BY <1>5, <3>1 DEF Read, Views, Seen
      <3>2. CASE q = r
        <4>0. Seen(r) /\ pc[r] = "read" /\ r \notin refusing
          BY <1>5 DEF Read, Views, Seen
        <4>1. PICK u \in Seq(Writer) :
                 /\ reads'[r] = Append(reads[r], u)
                 /\ r \notin Writer => u = snapshot[r]
                 /\ r \in Writer => u = db
          BY <1>5, <4>0 DEF Read, StatementView, Isolation, Histories, Seen
        <4>2. CASE reads[r] = <<>>
          <5>1. reads'[r] = <<u>> /\ pc'[r] = "read"
            BY <1>5, <4>1, <4>2, ReadTwice DEF Read
          <5>2. QED
            BY <1>5, <3>2, <4>0, <4>1, <5>1 DEF Read, Seen
        <4>3. CASE reads[r] # <<>>
          <5>1. PICK v \in Seq(Writer) : reads[r] = <<v>>
            BY <4>0, <4>3 DEF Seen
          <5>2. v = u
            <6>1. CASE r \in Writer
              <7>1. At(r) \in Session /\ state[At(r)] # "closed"
                BY <1>0, <1>5 DEF Read, Usable, At
              <7>2. reads[r] \in {<<>>, <<db>>}
                BY <4>0, <6>1, <7>1 DEF Works, Work
              <7>3. QED
                BY <4>1, <5>1, <6>1, <7>2, ReadTwice
            <6>2. CASE r \notin Writer
              BY <4>0, <4>1, <5>1, <6>2 DEF Seen
            <6>3. QED
              BY <6>1, <6>2
          <5>3. reads'[r] = <<u, u>> /\ pc'[r] = "handle"
            BY <1>5, <4>1, <4>3, <5>1, <5>2, ReadTwice DEF Read
          <5>4. QED
            BY <1>5, <3>2, <4>0, <4>1, <5>3 DEF Read, Seen
        <4>4. QED
          BY <4>2, <4>3
      <3>3. QED
        BY <3>1, <3>2
    <2>7. QED
      BY <2>1, <2>2, <2>3, <2>4, <2>5, <2>6
  <1>6. CASE Handle(r)
    <2>s. \A w : (Applied(w)' <=> Applied(w)) /\ Before(w)' = Before(w)
      BY <1>6, SameStore DEF Handle, Usable, Writes
    <2>1. Histories'
      BY <1>6 DEF Handle, Usable, Writes, Histories
    <2>2. Once'
      BY <1>6 DEF Handle, Usable, Writes, Once
    <2>3. Pending'
      <3> SUFFICES ASSUME NEW s \in Session, NEW w \in Request, dirty'[s] = w
                   PROVE  /\ ~Applied(w)'
                          /\ pc'[w] \in {"commit", "committing", "rollback", "done"}
                          /\ pc'[w] \in {"commit", "committing"} => At(w)' = s
                          /\ w \notin refusing'
                          /\ answer'[w] \in {"pending", "error"}
                          /\ reads'[w] = <<db', db'>>
        BY DEF Pending
      <3>1. CASE dirty[s] = w
        BY <1>6, <2>s, <3>1 DEF Handle, Pending, At
      <3>2. CASE dirty[s] # w
        <4>1. s = At(r) /\ w = r /\ r \in Writer /\ state[s] # "closed"
          BY <1>6, <3>2 DEF Handle, Writes, Usable
        <4>2. ~Applied(r) /\ r \notin refusing /\ answer[r] = "pending"
          BY <1>6 DEF Handle, Past, Views, Seen
        <4>3. reads[r] = <<db, db>>
          BY <1>6, <4>1 DEF Handle, Works, Work
        <4>4. QED
          BY <1>6, <2>s, <4>1, <4>2, <4>3 DEF Handle, At
      <3>3. QED
        BY <3>1, <3>2
    <2>4. Past'
      BY <1>6, <2>s DEF Handle, Usable, Writes, Past
    <2>5. Works'
      <3> SUFFICES ASSUME NEW q \in Request, NEW t \in Session,
                          At(q)' = t, state'[t] # "closed"
                   PROVE  Work(q, t)'
        BY DEF Works
      <3>1. CASE q = r
        BY <1>0, <1>6, <2>s, <3>1 DEF Handle, Usable, Writes, Works, Work, Stages, Stage, Clean, Views, Seen, At
      <3>2. CASE q # r
        <4>1. At(q) = t /\ state[t] # "closed" /\ pc'[q] = pc[q]
          BY <1>6, <3>2 DEF Handle, Usable, Writes, At
        <4>2. Work(q, t)
          BY <4>1 DEF Works
        <4>3. QED
          BY <1>6, <2>s, <3>2, <4>1, <4>2, Elsewhere DEF Handle, Usable, Writes, Work, Held
      <3>3. QED
        BY <3>1, <3>2
    <2>6. Views'
      BY <1>6 DEF Handle, Usable, Writes, Views, Seen
    <2>7. QED
      BY <2>1, <2>2, <2>3, <2>4, <2>5, <2>6
  <1>7. CASE Refuse(r)
    <2>s. \A w : (Applied(w)' <=> Applied(w)) /\ Before(w)' = Before(w)
      BY <1>7, SameStore DEF Refuse, serverVars
    <2>1. Histories'
      BY <1>7 DEF Refuse, serverVars, Histories
    <2>2. Once'
      BY <1>7 DEF Refuse, serverVars, Once
    <2>3. Pending'
      BY <1>7, <2>s DEF Refuse, serverVars, Pending, Views, Seen, At
    <2>4. Past'
      BY <1>7, <2>s DEF Refuse, serverVars, Past
    <2>5. Works'
      <3> SUFFICES ASSUME NEW q \in Request, NEW t \in Session,
                          At(q)' = t, state'[t] # "closed"
                   PROVE  Work(q, t)'
        BY DEF Works
      <3>1. CASE q = r
        BY <1>0, <1>7, <2>s, <3>1 DEF Refuse, serverVars, Works, Work, Stages, Stage, Clean, Views, Seen, At
      <3>2. CASE q # r
        <4>1. At(q) = t /\ state[t] # "closed" /\ pc'[q] = pc[q]
          BY <1>7, <3>2 DEF Refuse, serverVars, At
        <4>2. Work(q, t)
          BY <4>1 DEF Works
        <4>3. QED
          BY <1>7, <2>s, <3>2, <4>1, <4>2, Elsewhere DEF Refuse, serverVars, Work, Held
      <3>3. QED
        BY <3>1, <3>2
    <2>6. Views'
      BY <1>7 DEF Refuse, serverVars, Views, Seen
    <2>7. QED
      BY <2>1, <2>2, <2>3, <2>4, <2>5, <2>6
  <1>8. CASE SendCommit(r)
    <2>s. \A w : (Applied(w)' <=> Applied(w)) /\ Before(w)' = Before(w)
      BY <1>8, SameStore DEF SendCommit, Usable
    <2>1. Histories'
      BY <1>8 DEF SendCommit, Usable, Histories
    <2>2. Once'
      BY <1>8 DEF SendCommit, Usable, Once
    <2>3. Pending'
      BY <1>8, <2>s DEF SendCommit, Usable, Pending, Views, Seen, At
    <2>4. Past'
      BY <1>8, <2>s DEF SendCommit, Usable, Past
    <2>5. Works'
      <3> SUFFICES ASSUME NEW q \in Request, NEW t \in Session,
                          At(q)' = t, state'[t] # "closed"
                   PROVE  Work(q, t)'
        BY DEF Works
      <3>1. CASE q = r
        <4>1. /\ At(r) = t /\ state[t] # "closed" /\ pc[r] = "commit" /\ pc'[r] = "committing"
              /\ inHand'[t] = "commit" /\ dirty' = dirty
          BY <1>0, <1>8, <3>1 DEF SendCommit, Usable, At
        <4>2. Work(r, t)
          BY <4>1 DEF Works
        <4>3. QED
          BY <3>1, <4>1, <4>2 DEF Work
      <3>2. CASE q # r
        <4>1. At(q) = t /\ state[t] # "closed" /\ pc'[q] = pc[q]
          BY <1>8, <3>2 DEF SendCommit, Usable, At
        <4>2. Work(q, t)
          BY <4>1 DEF Works
        <4>3. QED
          BY <1>8, <2>s, <3>2, <4>1, <4>2, Elsewhere DEF SendCommit, Usable, Work, Held
      <3>3. QED
        BY <3>1, <3>2
    <2>6. Views'
      BY <1>8 DEF SendCommit, Usable, Views, Seen
    <2>7. QED
      BY <2>1, <2>2, <2>3, <2>4, <2>5, <2>6
  <1>9. CASE Committed(r)
    <2>s. \A w : (Applied(w)' <=> Applied(w)) /\ Before(w)' = Before(w)
      BY <1>9, SameStore DEF Committed, Usable
    <2>1. Histories'
      BY <1>9 DEF Committed, Usable, Histories
    <2>2. Once'
      BY <1>9 DEF Committed, Usable, Once
    <2>3. Pending'
      <3>1. \A s \in Session : dirty[s] # r
        <4> SUFFICES ASSUME NEW s \in Session, dirty[s] = r
                     PROVE  FALSE
          OBVIOUS
        <4>1. ~Applied(r) /\ r \in Writer
          BY DEF Pending
        <4>2. At(r) \in Session /\ state[At(r)] # "closed"
          BY <1>0, <1>9 DEF Committed, Usable, At
        <4>3. Applied(r)
          BY <1>9, <4>1, <4>2 DEF Committed, Works, Work
        <4>4. QED
          BY <4>1, <4>3
      <3>2. QED
        BY <1>9, <2>s, <3>1 DEF Committed, Pending, At
    <2>4. Past'
      BY <1>9, <2>s DEF Committed, Usable, Past
    <2>5. Works'
      <3> SUFFICES ASSUME NEW q \in Request, NEW t \in Session,
                          At(q)' = t, state'[t] # "closed"
                   PROVE  Work(q, t)'
        BY DEF Works
      <3>1. CASE q = r
        BY <1>0, <1>9, <2>s, <3>1 DEF Committed, Usable, Works, Work, Stages, Stage, Clean, Views, Seen, At
      <3>2. CASE q # r
        <4>1. At(q) = t /\ state[t] # "closed" /\ pc'[q] = pc[q]
          BY <1>9, <3>2 DEF Committed, Usable, At
        <4>2. Work(q, t)
          BY <4>1 DEF Works
        <4>3. QED
          BY <1>9, <2>s, <3>2, <4>1, <4>2, Elsewhere DEF Committed, Usable, Work, Held
      <3>3. QED
        BY <3>1, <3>2
    <2>6. Views'
      BY <1>9 DEF Committed, Usable, Views, Seen
    <2>7. QED
      BY <2>1, <2>2, <2>3, <2>4, <2>5, <2>6
  <1>10. CASE QueryFails(r)
    <2>s. \A w : (Applied(w)' <=> Applied(w)) /\ Before(w)' = Before(w)
      BY <1>10, SameStore DEF QueryFails, serverVars
    <2>1. Histories'
      BY <1>10 DEF QueryFails, serverVars, Histories
    <2>2. Once'
      BY <1>10 DEF QueryFails, serverVars, Once
    <2>3. Pending'
      BY <1>10, <2>s DEF QueryFails, serverVars, Pending, Views, Seen, At
    <2>4. Past'
      BY <1>10, <2>s DEF QueryFails, serverVars, Past
    <2>5. Works'
      <3> SUFFICES ASSUME NEW q \in Request, NEW t \in Session,
                          At(q)' = t, state'[t] # "closed"
                   PROVE  Work(q, t)'
        BY DEF Works
      <3>1. CASE q = r
        BY <1>0, <1>10, <2>s, <3>1 DEF QueryFails, serverVars, Works, Work, Stages, Stage, Clean, Views, Seen, At
      <3>2. CASE q # r
        <4>1. At(q) = t /\ state[t] # "closed" /\ pc'[q] = pc[q]
          BY <1>10, <3>2 DEF QueryFails, serverVars, At
        <4>2. Work(q, t)
          BY <4>1 DEF Works
        <4>3. QED
          BY <1>10, <2>s, <3>2, <4>1, <4>2, Elsewhere DEF QueryFails, serverVars, Work, Held
      <3>3. QED
        BY <3>1, <3>2
    <2>6. Views'
      BY <1>10 DEF QueryFails, serverVars, Views, Seen
    <2>7. QED
      BY <2>1, <2>2, <2>3, <2>4, <2>5, <2>6
  <1>11. CASE Rollback(r)
    <2>s. \A w : (Applied(w)' <=> Applied(w)) /\ Before(w)' = Before(w)
      BY <1>11, SameStore DEF Rollback, Usable, TellFailure, Unlock
    <2>1. Histories'
      BY <1>11 DEF Rollback, Usable, TellFailure, Unlock, Histories
    <2>2. Once'
      BY <1>11 DEF Rollback, Usable, TellFailure, Unlock, Once
    <2>3. Pending'
      BY <1>11, <2>s DEF Rollback, Usable, TellFailure, Unlock, Pending, Views, Seen, At
    <2>4. Past'
      BY <1>11, <2>s DEF Rollback, Usable, TellFailure, Unlock, Past
    <2>5. Works'
      <3> SUFFICES ASSUME NEW q \in Request, NEW t \in Session,
                          At(q)' = t, state'[t] # "closed"
                   PROVE  Work(q, t)'
        BY DEF Works
      <3>1. CASE q = r
        BY <1>11, <3>1 DEF Rollback, TellFailure, Work
      <3>2. CASE q # r
        <4>1. At(q) = t /\ state[t] # "closed" /\ pc'[q] = pc[q]
          BY <1>11, <3>2 DEF Rollback, Usable, TellFailure, At
        <4>2. Work(q, t)
          BY <4>1 DEF Works
        <4>3. Held(q) => t # At(r)
          BY <1>11, <3>2, <4>1, Apart DEF Rollback, Held, Usable
        <4>4. QED
          BY <1>11, <2>s, <3>2, <4>1, <4>2, <4>3 DEF Rollback, Unlock, TellFailure, Work, Held
      <3>3. QED
        BY <3>1, <3>2
    <2>6. Views'
      BY <1>11 DEF Rollback, Usable, TellFailure, Unlock, Views, Seen
    <2>7. QED
      BY <2>1, <2>2, <2>3, <2>4, <2>5, <2>6
  <1>12. CASE RollbackFails(r)
    <2>s. \A w : (Applied(w)' <=> Applied(w)) /\ Before(w)' = Before(w)
      BY <1>12, SameStore DEF RollbackFails, TellFailure, GiveBack
    <2>1. Histories'
      BY <1>12 DEF RollbackFails, TellFailure, GiveBack, Histories
    <2>2. Once'
      BY <1>12 DEF RollbackFails, TellFailure, GiveBack, Once
    <2>3. Pending'
      <3> SUFFICES ASSUME NEW s \in Session, NEW w \in Request, dirty[s] = w
                   PROVE  /\ ~Applied(w)'
                          /\ pc'[w] \in {"commit", "committing", "rollback", "done"}
                          /\ pc'[w] \in {"commit", "committing"} => At(w)' = s
                          /\ w \notin refusing'
                          /\ answer'[w] \in {"pending", "error"}
                          /\ reads'[w] = <<db', db'>>
        BY <1>12 DEF RollbackFails, Pending
      <3>1. CASE w = r
        BY <1>12, <2>s, <3>1 DEF RollbackFails, TellFailure, Pending
      <3>2. CASE w # r
        <4>1. pc[w] \in {"commit", "committing"} => home[w] # home[r]
          BY <1>12, <3>2 DEF RollbackFails, OneOwner, Held
        <4>2. QED
          BY <1>12, <2>s, <3>2, <4>1 DEF RollbackFails, TellFailure, GiveBack, Pending, At
      <3>3. QED
        BY <3>1, <3>2
    <2>4. Past'
      BY <1>12, <2>s DEF RollbackFails, TellFailure, GiveBack, Past
    <2>5. Works'
      <3> SUFFICES ASSUME NEW q \in Request, NEW t \in Session,
                          At(q)' = t, state'[t] # "closed"
                   PROVE  Work(q, t)'
        BY DEF Works
      <3>1. CASE q = r
        BY <1>0, <1>12, <2>s, <3>1 DEF RollbackFails, TellFailure, GiveBack, Works, Work, Stages, Stage, Clean, Views, Seen, At
      <3>2. CASE q # r
        <4>1. At(q) = t /\ state[t] # "closed" /\ pc'[q] = pc[q]
          BY <1>12, <3>2 DEF RollbackFails, TellFailure, GiveBack, At
        <4>2. Work(q, t)
          BY <4>1 DEF Works
        <4>3. QED
          BY <1>12, <2>s, <3>2, <4>1, <4>2, Elsewhere DEF RollbackFails, TellFailure, GiveBack, Work, Held
      <3>3. QED
        BY <3>1, <3>2
    <2>6. Views'
      BY <1>12 DEF RollbackFails, TellFailure, GiveBack, Views, Seen
    <2>7. QED
      BY <2>1, <2>2, <2>3, <2>4, <2>5, <2>6
  <1>13. QED
    BY <1>1, <1>2, <1>3, <1>4, <1>5, <1>6, <1>7, <1>8, <1>9, <1>10, <1>11, <1>12 DEF RequestStep

\* What the pool of a process, the server and the network do to it, unless the
\* server commits.
LEMMA SurroundingsKeepData ==
    ASSUME TypeOK, StoreInv, DataInv,
           \/ \E p \in Process : Evict(p)
           \/ \E s \in Session :
                GrantLock(s) \/ LockTimeout(s) \/ NetworkCut(s) \/ EndSession(s)
           \/ UNCHANGED vars
    PROVE  DataInv'
  <1> USE StoreAssumption DEF TypeOK, StoreInv, DataInv
  <1>1. ASSUME NEW p \in Process, Evict(p)
        PROVE  DataInv'
    <2>s. \A w : (Applied(w)' <=> Applied(w)) /\ Before(w)' = Before(w)
      BY <1>1, SameStore DEF Evict
    <2>1. Histories'
      BY <1>1 DEF Evict, Histories
    <2>2. Once'
      BY <1>1 DEF Evict, Once
    <2>3. Pending'
      <3>1. \A w \in Request :
              pc[w] \in {"commit", "committing"} => At(w)' = At(w)
        BY <1>1 DEF Evict, OneOwner, Held, At
      <3>2. QED
        BY <1>1, <2>s, <3>1 DEF Evict, Pending
    <2>4. Past'
      BY <1>1, <2>s DEF Evict, Past
    <2>5. Works'
      BY <1>1, <2>s DEF Evict, Works, Work, At
    <2>6. Views'
      BY <1>1 DEF Evict, Views, Seen
    <2>7. QED
      BY <2>1, <2>2, <2>3, <2>4, <2>5, <2>6
  <1>2. ASSUME NEW s \in Session, GrantLock(s)
        PROVE  DataInv'
    <2>s. \A w : (Applied(w)' <=> Applied(w)) /\ Before(w)' = Before(w)
      BY <1>2, SameStore DEF GrantLock
    <2>1. Histories'
      BY <1>2 DEF GrantLock, Histories
    <2>2. Once'
      BY <1>2 DEF GrantLock, Once
    <2>3. Pending'
      BY <1>2, <2>s DEF GrantLock, Pending, At
    <2>4. Past'
      BY <1>2, <2>s DEF GrantLock, Past
    <2>5. Works'
      BY <1>2, <2>s DEF GrantLock, Works, Work, At
    <2>6. Views'
      BY <1>2 DEF GrantLock, Views, Seen
    <2>7. QED
      BY <2>1, <2>2, <2>3, <2>4, <2>5, <2>6
  <1>3. ASSUME NEW s \in Session, LockTimeout(s)
        PROVE  DataInv'
    <2>s. \A w : (Applied(w)' <=> Applied(w)) /\ Before(w)' = Before(w)
      BY <1>3, SameStore DEF LockTimeout
    <2>1. Histories'
      BY <1>3 DEF LockTimeout, Histories
    <2>2. Once'
      BY <1>3 DEF LockTimeout, Once
    <2>3. Pending'
      BY <1>3, <2>s DEF LockTimeout, Pending, At
    <2>4. Past'
      BY <1>3, <2>s DEF LockTimeout, Past
    <2>5. Works'
      BY <1>3, <2>s DEF LockTimeout, Works, Work, At
    <2>6. Views'
      BY <1>3 DEF LockTimeout, Views, Seen
    <2>7. QED
      BY <2>1, <2>2, <2>3, <2>4, <2>5, <2>6
  <1>4. ASSUME NEW s \in Session, NetworkCut(s)
        PROVE  DataInv'
    <2>s. \A w : (Applied(w)' <=> Applied(w)) /\ Before(w)' = Before(w)
      BY <1>4, SameStore DEF NetworkCut
    <2>1. Histories'
      BY <1>4 DEF NetworkCut, Histories
    <2>2. Once'
      BY <1>4 DEF NetworkCut, Once
    <2>3. Pending'
      BY <1>4, <2>s DEF NetworkCut, Pending, At
    <2>4. Past'
      BY <1>4, <2>s DEF NetworkCut, Past
    <2>5. Works'
      BY <1>4, <2>s DEF NetworkCut, Works, Work, At
    <2>6. Views'
      BY <1>4 DEF NetworkCut, Views, Seen
    <2>7. QED
      BY <2>1, <2>2, <2>3, <2>4, <2>5, <2>6
  <1>5. ASSUME NEW s \in Session, EndSession(s)
        PROVE  DataInv'
    <2>s. \A w : (Applied(w)' <=> Applied(w)) /\ Before(w)' = Before(w)
      BY <1>5, SameStore DEF EndSession, Unlock
    <2>1. Histories'
      BY <1>5 DEF EndSession, Unlock, Histories
    <2>2. Once'
      BY <1>5 DEF EndSession, Unlock, Once
    <2>3. Pending'
      BY <1>5, <2>s DEF EndSession, Unlock, Pending, At
    <2>4. Past'
      BY <1>5, <2>s DEF EndSession, Unlock, Past
    <2>5. Works'
      BY <1>5, <2>s DEF EndSession, Unlock, Works, Work, At
    <2>6. Views'
      BY <1>5 DEF EndSession, Unlock, Views, Seen
    <2>7. QED
      BY <2>1, <2>2, <2>3, <2>4, <2>5, <2>6
  <1>6. CASE UNCHANGED vars
    <2>s. \A w : (Applied(w)' <=> Applied(w)) /\ Before(w)' = Before(w)
      BY <1>6, SameStore DEF vars
    <2>1. Histories'
      BY <1>6 DEF vars, Histories
    <2>2. Once'
      BY <1>6 DEF vars, Once
    <2>3. Pending'
      BY <1>6, <2>s DEF vars, Pending, At
    <2>4. Past'
      BY <1>6, <2>s DEF vars, Past
    <2>5. Works'
      BY <1>6, <2>s DEF vars, Works, Work, At
    <2>6. Views'
      BY <1>6 DEF vars, Views, Seen
    <2>7. QED
      BY <2>1, <2>2, <2>3, <2>4, <2>5, <2>6
  <1>7. QED
    BY <1>1, <1>2, <1>3, <1>4, <1>5, <1>6

\* COMMIT applies the one writer whose writes wait for it.
LEMMA CommitApplies ==
    ASSUME TypeOK, StoreInv, DataInv, NEW s \in Session, ServerCommit(s),
           NEW w \in Writer, dirty[s] = w
    PROVE  /\ Once' /\ ~Applied(w)
           /\ \A r : Applied(r)' <=> r = w \/ Applied(r)
           /\ Before(w)' = db
           /\ \A r : Applied(r) => Before(r)' = Before(r)
  <1> USE StoreAssumption DEF TypeOK, DataInv
  <1>1. w # None /\ db' = Append(db, w)
    BY DEF ServerCommit
  <1>2. ~Applied(w)
    BY DEF Pending
  <1>3. db \in Seq(Writer) /\ ~Has(db, w) /\ Distinct(db)
    BY <1>2 DEF Once, Applied
  <1>4. /\ Distinct(db')
        /\ \A r : Has(db', r) <=> r = w \/ Has(db, r)
        /\ Upto(db', w) = db
        /\ \A r : Has(db, r) => Upto(db', r) = Upto(db, r)
    <2> HIDE DEF TypeOK, DataInv
    <2>1. \A p : p = Append(db, w) =>
            /\ Distinct(p)
            /\ \A r : Has(p, r) <=> r = w \/ Has(db, r)
            /\ Upto(p, w) = db
            /\ \A r : Has(db, r) => Upto(p, r) = Upto(db, r)
      BY <1>3, OneMore
    <2>2. QED
      BY <1>1, <2>1
  <1>5. QED
    BY <1>2, <1>4 DEF Once, Applied, Before

\* The server commits.
LEMMA CommitKeepsData ==
    ASSUME TypeOK, StoreInv, DataInv, NEW s \in Session, ServerCommit(s)
    PROVE  DataInv'
  <1> USE StoreAssumption DEF TypeOK, StoreInv, DataInv
  <1>1. CASE dirty[s] = None
    <2>0. UNCHANGED <<db, pc, reads, refusing, snapshot, result, answer, conn, dirty>>
      BY <1>1 DEF ServerCommit
    <2>s. \A w : (Applied(w)' <=> Applied(w)) /\ Before(w)' = Before(w)
      BY <2>0, SameStore
    <2>1. Histories' /\ Once' /\ Views'
      BY <2>0 DEF Histories, Once, Views, Seen
    <2>2. Pending'
      BY <2>0, <2>s DEF Pending, At
    <2>3. Past'
      BY <2>0, <2>s DEF Past
    <2>4. Works'
      <3> SUFFICES ASSUME NEW q \in Request, NEW t \in Session,
                          At(q)' = t, state'[t] # "closed"
                   PROVE  Work(q, t)'
        BY DEF Works
      <3>1. At(q) = t /\ state[t] # "closed"
        BY <2>0 DEF ServerCommit, ClosedIsFree, Clean, At
      <3>2. Work(q, t)
        BY <3>1 DEF Works
      <3>3. CASE t = s
        BY <1>1, <2>0, <2>s, <3>1, <3>2, <3>3 DEF ServerCommit, Work, Stages, Stage
      <3>4. CASE t # s
        BY <2>0, <2>s, <3>2, <3>4 DEF ServerCommit, Work
      <3>5. QED
        BY <3>3, <3>4
    <2>5. QED
      BY <2>1, <2>2, <2>3, <2>4
  <1>2. ASSUME NEW w \in Writer, dirty[s] = w
        PROVE  DataInv'
    <2>0. /\ UNCHANGED <<pc, reads, refusing, snapshot, result, answer, conn>>
          /\ w # None /\ dirty' = [dirty EXCEPT ![s] = None]
          /\ holder = s /\ state[s] # "closed"
      BY <1>2 DEF ServerCommit, WritesAreLocked, ClosedIsFree, Clean
    <2>s. /\ Once' /\ ~Applied(w)
          /\ \A r : Applied(r)' <=> r = w \/ Applied(r)
          /\ Before(w)' = db
          /\ \A r : Applied(r) => Before(r)' = Before(r)
      BY <1>2, CommitApplies
    <2>a. \A t \in Session : dirty'[t] = None
      BY <2>0 DEF WritesAreLocked
    <2>b. /\ pc[w] \in {"committing", "rollback", "done"}
          /\ w \notin refusing /\ reads[w] = <<db, db>>
      BY <1>2, <2>0 DEF Pending, ServerCommit, Stages, Stage
    <2>1. Histories' /\ Views'
      BY <2>0 DEF Histories, Views, Seen
    <2>2. Pending'
      BY <2>a DEF Pending
    <2>3. Past'
      BY <2>0, <2>s, <2>b DEF Past
    <2>4. Works'
      <3> SUFFICES ASSUME NEW q \in Request, NEW t \in Session,
                          At(q)' = t, state'[t] # "closed"
                   PROVE  Work(q, t)'
        BY DEF Works
      <3>1. At(q) = t /\ state[t] # "closed"
        BY <2>0 DEF ServerCommit, At
      <3>2. Work(q, t) /\ Stage(q, t)
        BY <3>1 DEF Works, Stages
      <3>3. CASE t = s
        <4>1. pc[q] \notin {"read", "handle", "commit", "begin", "lock"}
          BY <2>0, <3>2, <3>3 DEF ServerCommit, Stage, Clean
        <4>2. pc[q] = "committing" /\ q \in Writer => q = w
          BY <1>2, <3>2, <3>3 DEF ServerCommit, Stage, Work
        <4>3. QED
          BY <2>0, <2>s, <3>3, <4>1, <4>2 DEF ServerCommit, Work
      <3>4. CASE t # s
        <4>1. q \in Writer => pc[q] \notin {"read", "handle", "commit"}
          BY <2>0, <3>2, <3>4 DEF Stage
        <4>2. inHand'[t] = inHand[t] /\ dirty'[t] = dirty[t]
          BY <2>0, <3>4 DEF ServerCommit
        <4>3. QED
          BY <2>0, <2>s, <3>2, <4>1, <4>2 DEF Work
      <3>5. QED
        BY <3>3, <3>4
    <2>5. QED
      BY <2>1, <2>2, <2>3, <2>4, <2>s
  <1>3. QED
    BY <1>1, <1>2

-----------------------------------------------------------------------------
(* Every step is one of SerialStore, or a stutter.                         *)

\* The requests that SerialStore takes to have begun.
Begun == {r \in Request : pc[r] # "queued"}

\* A step changes the views of those only whose snapshot or first read it changes.
LEMMA SameView ==
    ASSUME NEW r,
           r \notin Writer => snapshot'[r] = snapshot[r],
           r \in Writer => reads'[r] = reads[r]
    PROVE  ViewOf(r)' = ViewOf(r)
  BY DEF ViewOf

\* Nobody begins, views, results and answers stay, and nothing is applied.
LEMMA Stutters ==
    ASSUME db' = db, result' = result, answer' = answer, Begun' = Begun,
           \A q \in Request : ViewOf(q)' = ViewOf(q)
    PROVE  UNCHANGED Serial!serialVars
  BY DEF Serial!serialVars, Begun

\* One request begins.
LEMMA Begins ==
    ASSUME NEW r \in Request, r \notin Begun, Begun' = Begun \cup {r},
           db' = db, result' = result, answer' = answer,
           \A q \in Request : ViewOf(q)' = ViewOf(q)
    PROVE  Serial!Next
  <1>1. Serial!Begin(r)
    BY DEF Serial!Begin, Begun
  <1>2. QED
    BY <1>1 DEF Serial!Next

\* One request looks at the store.
LEMMA Looks ==
    ASSUME NEW r \in Request, r \in Begun, Begun' = Begun, answer[r] = "pending",
           db' = db, result' = result, answer' = answer,
           ViewOf(r) = None, ViewOf(r)' = db,
           \A q \in Request \ {r} : ViewOf(q)' = ViewOf(q)
    PROVE  Serial!Next
  <1>1. [q \in Request |-> ViewOf(q)]' = [[q \in Request |-> ViewOf(q)] EXCEPT ![r] = db]
    OBVIOUS
  <1>2. [q \in Request |-> ViewOf(q)][r] = None
    OBVIOUS
  <1>3. Serial!Look(r)
    BY <1>1, <1>2 DEF Serial!Look, Begun
  <1>4. QED
    BY <1>3 DEF Serial!Next

\* One writer is applied, on the store it looked at.
LEMMA Applies ==
    ASSUME StoreAssumption, NEW w \in Writer, ~Applied(w), answer[w] \in {"pending", "error"},
           db' = Append(db, w), result' = result, answer' = answer, Begun' = Begun,
           ViewOf(w) = db, \A q \in Request : ViewOf(q)' = ViewOf(q)
    PROVE  Serial!Next
  <1>0. w \in Request
    BY DEF StoreAssumption
  <1>1. [q \in Request |-> ViewOf(q)]' = [q \in Request |-> ViewOf(q)]
    OBVIOUS
  <1>2. [q \in Request |-> ViewOf(q)][w] = db
    BY <1>0
  <1>3. Serial!Apply(w)
    BY <1>1, <1>2 DEF Serial!Apply, Serial!Applied, Applied, Has, Begun
  <1>4. QED
    BY <1>0, <1>3 DEF Serial!Next

\* One request is answered, with two reads of what it looked at, or with none.
LEMMA Answers ==
    ASSUME NEW r \in Request, answer[r] = "pending", db' = db,
           \A q \in Request : ViewOf(q)' = ViewOf(q),
           \/ /\ answer' = [answer EXCEPT ![r] = "error"] /\ result' = result
              /\ Begun' = Begun \cup {r}
           \/ /\ ViewOf(r) # None /\ Begun' = Begun
              /\ result' = [result EXCEPT ![r] = <<ViewOf(r), ViewOf(r)>>]
              /\ \/ answer' = [answer EXCEPT ![r] = "refused"] /\ ~Applied(r)
                 \/ answer' = [answer EXCEPT ![r] = "ok"] /\ (r \in Writer => Applied(r))
    PROVE  Serial!Next
  <1>1. [q \in Request |-> ViewOf(q)]' = [q \in Request |-> ViewOf(q)]
    OBVIOUS
  <1>2. [q \in Request |-> ViewOf(q)][r] = ViewOf(r)
    OBVIOUS
  <1>3. Serial!AnswerOk(r) \/ Serial!AnswerRefused(r) \/ Serial!AnswerError(r)
    BY <1>1, <1>2 DEF Serial!AnswerOk, Serial!AnswerRefused, Serial!AnswerError,
       Serial!Applied, Applied, Has, Begun
  <1>4. QED
    BY <1>3 DEF Serial!Next

\* What the handler of a request worked with, once it has read twice.
LEMMA ViewIsRead ==
    ASSUME TypeOK, DataInv, NEW r \in Request,
           r \in refusing \/ pc[r] \in {"handle", "commit", "committing"}
    PROVE  ViewOf(r) # None /\ reads[r] = <<ViewOf(r), ViewOf(r)>>
  <1> USE StoreAssumption
  <1>1. PICK v \in Seq(Writer) : reads[r] = <<v, v>>
    BY DEF DataInv, Views, Seen
  <1>2. v # None
    OBVIOUS
  <1>3. ViewOf(r) = v
    <2>1. CASE r \in Writer
      BY <1>1, <2>1, ReadTwice DEF ViewOf
    <2>2. CASE r \notin Writer
      <3>1. reads[r] \in {<<>>, <<snapshot[r]>>, <<snapshot[r], snapshot[r]>>}
        BY <2>2 DEF DataInv, Views, Seen
      <3>2. <<v, v>> # <<>> /\ <<v, v>> # <<snapshot[r]>>
        OBVIOUS
      <3>3. reads[r] = <<snapshot[r], snapshot[r]>>
        BY <1>1, <3>1, <3>2
      <3>4. v = snapshot[r]
        BY <1>1, <3>3, ReadTwice
      <3>5. QED
        BY <2>2, <3>4 DEF ViewOf
    <2>3. QED
      BY <2>1, <2>2
  <1>4. QED
    BY <1>1, <1>2, <1>3

\* A request's steps.
LEMMA RequestSimulated ==
    ASSUME TypeOK, StoreInv, DataInv, NEW r \in Request, RequestStep(r)
    PROVE  Serial!Next \/ UNCHANGED Serial!serialVars
  <1> USE StoreAssumption
  <1>1. CASE Borrow(r)
    <2>1. UNCHANGED <<db, result, answer, snapshot, reads>>
      BY <1>1 DEF Borrow
    <2>2. r \notin Begun /\ Begun' = Begun \cup {r}
      BY <1>1 DEF Borrow, Begun, TypeOK
    <2>3. QED
      BY <2>1, <2>2, SameView, Begins
  <1>2. CASE Locked(r)
    <2>1. UNCHANGED <<db, result, answer, snapshot, reads>> /\ Begun' = Begun
      BY <1>2 DEF Locked, Begun, TypeOK
    <2>2. QED
      BY <2>1, SameView, Stutters
  <1>3. CASE Handle(r)
    <2>1. UNCHANGED <<db, result, answer, snapshot, reads>> /\ Begun' = Begun
      BY <1>3 DEF Handle, Begun, TypeOK
    <2>2. QED
      BY <2>1, SameView, Stutters
  <1>4. CASE Refuse(r)
    <2>1. UNCHANGED <<db, result, answer, snapshot, reads>> /\ Begun' = Begun
      BY <1>4 DEF Refuse, serverVars, Begun, TypeOK
    <2>2. QED
      BY <2>1, SameView, Stutters
  <1>5. CASE SendCommit(r)
    <2>1. UNCHANGED <<db, result, answer, snapshot, reads>> /\ Begun' = Begun
      BY <1>5 DEF SendCommit, Begun, TypeOK
    <2>2. QED
      BY <2>1, SameView, Stutters
  <1>6. CASE QueryFails(r)
    <2>1. UNCHANGED <<db, result, answer, snapshot, reads>> /\ Begun' = Begun
      BY <1>6 DEF QueryFails, serverVars, Begun, TypeOK
    <2>2. QED
      BY <2>1, SameView, Stutters
  <1>7. CASE Begin(r)
    <2>1. /\ UNCHANGED <<db, result, answer, reads>>
          /\ snapshot' = [snapshot EXCEPT ![r] = db]
          /\ pc[r] = "begin"
          /\ r \in Begun /\ Begun' = Begun
      BY <1>7 DEF Begin, Begun, TypeOK
    <2>2. \A q \in Request \ {r} : ViewOf(q)' = ViewOf(q)
      BY <2>1, SameView
    <2>3. answer[r] = "pending" /\ snapshot[r] = None
      BY <2>1 DEF DataInv, Views, Seen, TypeOK
    <2>4. CASE r \in Writer
      BY <2>1, <2>2, <2>4, SameView, Stutters
    <2>5. CASE r \notin Writer
      <3>1. ViewOf(r) = None /\ ViewOf(r)' = snapshot'[r]
        BY <2>3, <2>5 DEF ViewOf
      <3>2. snapshot'[r] = db
        BY <2>1 DEF DataInv, Histories
      <3>3. QED
        BY <2>1, <2>2, <2>3, <3>1, <3>2, Looks
    <2>6. QED
      BY <2>4, <2>5
  <1>8. CASE Read(r)
    <2>1. /\ UNCHANGED <<db, result, answer, snapshot>>
          /\ reads' = [reads EXCEPT ![r] = Append(@, StatementView(r))]
          /\ pc[r] = "read"
          /\ r \in Begun /\ Begun' = Begun
      BY <1>8 DEF Read, serverVars, Begun, TypeOK
    <2>2. \A q \in Request \ {r} : ViewOf(q)' = ViewOf(q)
      BY <2>1, SameView
    <2>3. answer[r] = "pending"
      BY <2>1 DEF DataInv, Views, Seen, TypeOK
    <2>4. CASE r \notin Writer
      BY <2>1, <2>2, <2>4, SameView, Stutters
    <2>5. CASE r \in Writer
      <3>1. reads'[r] = Append(reads[r], db)
        BY <2>1, <2>5 DEF DataInv, Histories, StatementView, Isolation
      <3>2. CASE reads[r] = <<>>
        <4>1. reads'[r] # <<>> /\ reads'[r][1] = db
          BY <3>1, <3>2, ReadTwice
        <4>2. ViewOf(r) = None /\ ViewOf(r)' = db
          BY <2>5, <3>2, <4>1 DEF ViewOf
        <4>3. QED
          BY <2>1, <2>2, <2>3, <4>2, Looks
      <3>3. CASE reads[r] # <<>>
        <4>1. PICK v \in Seq(Writer) : reads[r] = <<v>>
          BY <2>1, <3>3 DEF DataInv, Views, Seen
        <4>2. reads'[r] # <<>> /\ reads'[r][1] = v /\ reads[r][1] = v
          BY <3>1, <4>1, ReadTwice
        <4>3. ViewOf(r)' = ViewOf(r)
          BY <2>5, <3>3, <4>2 DEF ViewOf
        <4>4. QED
          BY <2>1, <2>2, <4>3, Stutters
      <3>4. QED
        BY <3>2, <3>3
    <2>6. QED
      BY <2>4, <2>5
  <1>9. CASE ConnectFails(r)
    <2>1. /\ UNCHANGED <<db, result, snapshot, reads>> /\ pc[r] = "queued"
          /\ answer' = [answer EXCEPT ![r] = "error"]
          /\ Begun' = Begun \cup {r}
      BY <1>9 DEF ConnectFails, Begun, TypeOK
    <2>2. answer[r] = "pending"
      BY <2>1 DEF DataInv, Views, Seen, TypeOK
    <2>3. QED
      BY <2>1, <2>2, SameView, Answers
  <1>10. CASE Committed(r)
    <2>1. /\ UNCHANGED <<db, snapshot, reads>> /\ pc[r] = "committing"
          /\ answer' = [answer EXCEPT ![r] = "ok"]
          /\ result' = [result EXCEPT ![r] = reads[r]]
          /\ Begun' = Begun
      BY <1>10 DEF Committed, Begun, TypeOK
    <2>2. answer[r] = "pending"
      BY <2>1 DEF DataInv, Views, Seen, TypeOK
    <2>3. r \in Writer => Applied(r)
      <3>1. At(r) \in Session /\ state[At(r)] # "closed" /\ inHand[At(r)] = "committed"
        BY <1>10 DEF Committed, Usable, At, TypeOK
      <3>2. QED
        BY <2>1, <3>1 DEF DataInv, Works, Work
    <2>4. ViewOf(r) # None /\ reads[r] = <<ViewOf(r), ViewOf(r)>>
      BY <2>1, ViewIsRead
    <2>5. \A q \in Request : ViewOf(q)' = ViewOf(q)
      BY <2>1, SameView
    <2>6. result' = [result EXCEPT ![r] = <<ViewOf(r), ViewOf(r)>>]
      BY <2>1, <2>4
    <2>7. QED
      BY <2>1, <2>2, <2>3, <2>4, <2>5, <2>6, Answers
  <1>11. CASE Rollback(r) \/ RollbackFails(r)
    <2>1. /\ UNCHANGED <<db, snapshot, reads>> /\ pc[r] = "rollback" /\ TellFailure(r)
          /\ r \in Begun /\ Begun' = Begun
      BY <1>11 DEF Rollback, RollbackFails, TellFailure, Begun, TypeOK
    <2>2. answer[r] = "pending" /\ result[r] = None
      BY <2>1 DEF DataInv, Views, Seen, TypeOK
    <2>3. \A q \in Request : ViewOf(q)' = ViewOf(q)
      BY <2>1, SameView
    <2>4. CASE r \in refusing
      <3>1. ~Applied(r)
        BY <2>4 DEF DataInv, Past
      <3>2. ViewOf(r) # None /\ reads[r] = <<ViewOf(r), ViewOf(r)>>
        BY <2>4, ViewIsRead
      <3>3. /\ answer' = [answer EXCEPT ![r] = "refused"]
            /\ result' = [result EXCEPT ![r] = <<ViewOf(r), ViewOf(r)>>]
        BY <2>1, <2>4, <3>2 DEF TellFailure
      <3>4. QED
        BY <2>1, <2>2, <2>3, <3>1, <3>2, <3>3, Answers
    <2>5. CASE r \notin refusing
      <3>1. answer' = [answer EXCEPT ![r] = "error"] /\ result' = result
        BY <2>1, <2>2, <2>5 DEF TellFailure, DataInv, Histories
      <3>2. Begun' = Begun \cup {r}
        BY <2>1
      <3>3. QED
        BY <2>1, <2>2, <2>3, <3>1, <3>2, Answers
    <2>6. QED
      BY <2>4, <2>5
  <1>12. QED
    BY <1>1, <1>2, <1>3, <1>4, <1>5, <1>6, <1>7, <1>8, <1>9, <1>10, <1>11 DEF RequestStep

\* A commit applies one writer, or nobody if there was nothing to write.
LEMMA CommitSimulated ==
    ASSUME TypeOK, StoreInv, DataInv, NEW s \in Session, ServerCommit(s)
    PROVE  Serial!Next \/ UNCHANGED Serial!serialVars
  <1> USE StoreAssumption
  <1>0. UNCHANGED <<result, answer, snapshot, reads>> /\ Begun' = Begun
    BY DEF ServerCommit, Begun
  <1>1. \A q \in Request : ViewOf(q)' = ViewOf(q)
    BY <1>0, SameView
  <1>2. CASE dirty[s] = None
    BY <1>0, <1>1, <1>2, Stutters DEF ServerCommit
  <1>3. ASSUME NEW w \in Writer, dirty[s] = w
        PROVE  Serial!Next
    <2>1. db' = Append(db, w) /\ w \in Request
      BY <1>3 DEF ServerCommit
    <2>2. /\ ~Applied(w) /\ answer[w] \in {"pending", "error"}
          /\ reads[w] = <<db, db>>
      BY <1>3, <2>1 DEF DataInv, Pending
    <2>3. ViewOf(w) = db
      BY <2>2, ReadTwice DEF ViewOf
    <2>4. QED
      BY <1>0, <1>1, <2>1, <2>2, <2>3, Applies
  <1>4. QED
    BY <1>2, <1>3 DEF TypeOK

\* The layer implements the serial store: "Every writer sees the previous writer's
\* commit before its first business read", a reader sees one instant, and what the
\* caller is told is true, for any number of processes, sessions and failures.
THEOREM LayerIsSerial == Spec => IsSerial
  <1>1. Init => Serial!Init
    <2> SUFFICES ASSUME Init PROVE Serial!Init
      OBVIOUS
    <2>1. \A r \in Request : ViewOf(r) = None
      BY DEF Init, ViewOf
    <2>2. QED
      BY <2>1 DEF Init, Serial!Init
  <1>2. TypeOK /\ StoreInv /\ DataInv /\ [Next]_vars => DataInv'
    BY RequestKeepsData, SurroundingsKeepData, CommitKeepsData DEF Next, SessionStep
  <1>3. TypeOK /\ StoreInv /\ DataInv /\ [Next]_vars
          => Serial!Next \/ UNCHANGED Serial!serialVars
    <2> SUFFICES ASSUME TypeOK, StoreInv, DataInv, [Next]_vars
                 PROVE  Serial!Next \/ UNCHANGED Serial!serialVars
      OBVIOUS
    <2>1. ASSUME NEW r \in Request, RequestStep(r)
          PROVE  Serial!Next \/ UNCHANGED Serial!serialVars
      BY <2>1, RequestSimulated
    <2>2. ASSUME NEW s \in Session, ServerCommit(s)
          PROVE  Serial!Next \/ UNCHANGED Serial!serialVars
      BY <2>2, CommitSimulated
    <2>3. CASE \/ \E p \in Process : Evict(p)
               \/ \E s \in Session :
                    GrantLock(s) \/ LockTimeout(s) \/ NetworkCut(s) \/ EndSession(s)
               \/ UNCHANGED vars
      <3>1. UNCHANGED <<db, result, answer, snapshot, reads>> /\ Begun' = Begun
        BY <2>3 DEF Evict, GrantLock, LockTimeout, NetworkCut, EndSession, vars, Begun
      <3>2. QED
        BY <3>1, SameView, Stutters
    <2>4. QED
      BY <2>1, <2>2, <2>3 DEF Next, SessionStep
  <1>4. TypeOK /\ StoreInv /\ [Next]_vars => StoreInv'
    BY RequestKeeps, SurroundingsKeep DEF Next
  <1>5. QED
    BY StoreTypeCorrect, StoreInvInit, DataInvInit, <1>1, <1>2, <1>3, <1>4, PTL
       DEF Spec, IsSerial, Serial!Spec

-----------------------------------------------------------------------------
(***************************************************************************)
(* Which store an answer tells of.                                         *)
(***************************************************************************)

\* The stores a request has met came one after the other.
InOrder(r) ==
    /\ pc[r] \in {"lock", "read"} => snapshot[r] \in Seq(Writer)
    /\ snapshot[r] \in Seq(Writer) => Continues(db, snapshot[r])
    /\ reads[r] # <<>> =>
         /\ snapshot[r] \in Seq(Writer) /\ reads[r][1] \in Seq(Writer)
         /\ Continues(reads[r][1], snapshot[r])
         /\ Continues(db, reads[r][1])
    /\ answer[r] \in {"ok", "refused"} =>
         /\ result[r] = reads[r]
         /\ \E v \in Seq(Writer) : reads[r] = <<v, v>>
    /\ answer[r] = "ok" /\ r \in Writer => Applied(r)
    /\ answer[r] = "refused" => r \in refusing

OrderInv == \A r \in Request : InOrder(r)

\* A store continues itself, and goes on continuing what it continued when one
\* more writer is applied.
LEMMA StoreGrows ==
    ASSUME NEW W, NEW q \in Seq(W), NEW w \in W
    PROVE  /\ Continues(q, q)
           /\ \A p \in Seq(W) : Continues(q, p) => Continues(Append(q, w), p)
  <1>1. /\ Len(Append(q, w)) = Len(q) + 1 /\ Len(q) \in Nat
        /\ \A i \in 1 .. Len(q) : Append(q, w)[i] = q[i]
    BY AppendProperties
  <1>2. \A p \in Seq(W) : Len(p) \in Nat
    OBVIOUS
  <1>3. QED
    BY <1>1, <1>2 DEF Continues

\* A store continues the one before an applied writer, and that writer after it.
LEMMA BeforeContinues ==
    ASSUME NEW W, NEW q \in Seq(W), NEW w \in W, Has(q, w)
    PROVE  Continues(q, Append(Upto(q, w), w))
  <1>1. PICK k \in 1 .. Len(q) : k = (CHOOSE j \in DOMAIN q : q[j] = w) /\ q[k] = w
    BY DEF Has
  <1> DEFINE u == SubSeq(q, 1, k - 1)
  <1>2. /\ u \in Seq(W) /\ Len(u) = k - 1
        /\ \A i \in 1 .. (k - 1) : u[i] = q[i]
    <2>1. \A i \in 1 .. (k - 1) : q[i] \in W
      OBVIOUS
    <2>2. QED
      BY <2>1, SubSeqProperties
  <1>3. Upto(q, w) = u
    BY <1>1 DEF Upto
  <1> HIDE DEF u
  <1>4. /\ Len(Append(u, w)) = k /\ Append(u, w)[k] = w
        /\ \A i \in 1 .. (k - 1) : Append(u, w)[i] = u[i]
    BY <1>2, AppendProperties
  <1>5. k <= Len(q) /\ \A i \in 1 .. k : q[i] = Append(u, w)[i]
    <2>1. k <= Len(q) /\ Len(q) \in Nat
      BY <1>1
    <2>2. \A i \in 1 .. k : i = k \/ i \in 1 .. (k - 1)
      BY <2>1
    <2>3. ASSUME NEW i \in 1 .. k
          PROVE  q[i] = Append(u, w)[i]
      <3>1. CASE i = k
        BY <1>1, <1>4, <3>1
      <3>2. CASE i \in 1 .. (k - 1)
        BY <1>2, <1>4, <3>2
      <3>3. QED
        BY <2>2, <3>1, <3>2
    <2>4. QED
      BY <2>1, <2>3
  <1>6. QED
    BY <1>3, <1>4, <1>5 DEF Continues

\* Nothing has been met.
LEMMA OrderInit == Init => OrderInv
  BY StoreAssumption DEF Init, OrderInv, InOrder

\* A request that a step does not touch has met what it had met, if the store
\* is as it was or has one more writer.
LEMMA OrderLasts ==
    ASSUME TypeOK, NEW r \in Request, InOrder(r),
           db' = db \/ \E w \in Writer : db' = Append(db, w),
           pc'[r] \in {"lock", "read"} => pc[r] \in {"lock", "read"},
           snapshot'[r] = snapshot[r], reads'[r] = reads[r],
           result'[r] = result[r], answer'[r] = answer[r],
           r \in refusing => r \in refusing'
    PROVE  InOrder(r)'
  <1>1. \A p \in Seq(Writer) : Continues(db, p) => Continues(db, p)'
    <2>1. CASE db' = db
      BY <2>1 DEF Continues
    <2>2. CASE \E w \in Writer : db' = Append(db, w)
      BY <2>2, StoreGrows DEF Continues, TypeOK
    <2>3. QED
      BY <2>1, <2>2
  <1>2. Applied(r) => Applied(r)'
    <2>1. CASE db' = db
      BY <2>1 DEF Applied
    <2>2. ASSUME NEW w \in Writer, db' = Append(db, w)
          PROVE  Applied(r) => Applied(r)'
      <3>1. /\ Len(db') = Len(db) + 1 /\ Len(db) \in Nat
            /\ DOMAIN db' = 1 .. Len(db') /\ DOMAIN db = 1 .. Len(db)
            /\ \A i \in 1 .. Len(db) : db'[i] = db[i]
        <4>1. db \in Seq(Writer) /\ db' \in Seq(Writer)
          BY <2>2 DEF TypeOK
        <4>2. QED
          BY <2>2, <4>1, AppendProperties
      <3>2. QED
        BY <3>1 DEF Applied, Has
    <2>3. QED
      BY <2>1, <2>2
  <1>3. snapshot[r] \in Seq(Writer) => Continues(db', snapshot'[r])
    BY <1>1 DEF InOrder, Continues
  <1>4. reads[r] # <<>> => Continues(db', reads'[r][1]) /\ Continues(reads'[r][1], snapshot'[r])
    BY <1>1 DEF InOrder, Continues
  <1>5. QED
    BY <1>2, <1>3, <1>4 DEF InOrder

\* What the request does that a step is of.
LEMMA RequestKeepsOrder ==
    ASSUME TypeOK, StoreInv, DataInv, OrderInv, NEW r \in Request, RequestStep(r)
    PROVE  OrderInv'
  <1> USE StoreAssumption
  <1> SUFFICES ASSUME NEW q \in Request PROVE InOrder(q)'
    BY DEF OrderInv
  <1>0. InOrder(q) /\ db' = db /\ db \in Seq(Writer)
    BY DEF OrderInv, RequestStep, Borrow, ConnectFails, Begin, Locked, Read, Handle, Refuse,
       SendCommit, Committed, QueryFails, Rollback, RollbackFails, serverVars, TypeOK
  <1>1. CASE Borrow(r)
    BY <1>0, <1>1, OrderLasts DEF Borrow, TypeOK
  <1>2. CASE Locked(r)
    BY <1>0, <1>2, OrderLasts DEF Locked, TypeOK
  <1>3. CASE Handle(r)
    BY <1>0, <1>3, OrderLasts DEF Handle, TypeOK
  <1>4. CASE Refuse(r)
    BY <1>0, <1>4, OrderLasts DEF Refuse, serverVars, TypeOK
  <1>5. CASE SendCommit(r)
    BY <1>0, <1>5, OrderLasts DEF SendCommit, TypeOK
  <1>6. CASE QueryFails(r)
    BY <1>0, <1>6, OrderLasts DEF QueryFails, serverVars, TypeOK
  <1>7. CASE q # r
    <2>1. /\ pc'[q] = pc[q] /\ snapshot'[q] = snapshot[q] /\ reads'[q] = reads[q]
          /\ result'[q] = result[q] /\ answer'[q] = answer[q]
          /\ q \in refusing => q \in refusing'
      BY <1>7 DEF RequestStep, Borrow, ConnectFails, Begin, Locked, Read, Handle, Refuse,
         SendCommit, Committed, QueryFails, Rollback, RollbackFails, TellFailure,
         serverVars, TypeOK, DataInv, Histories
    <2>2. QED
      BY <1>0, <2>1, OrderLasts
  <1>8. CASE q = r /\ Begin(r)
    <2>1. /\ snapshot'[r] = db /\ reads' = reads /\ reads[r] = <<>>
          /\ answer' = answer /\ answer[r] = "pending"
      BY <1>8 DEF Begin, DataInv, Histories, Views, Seen, TypeOK
    <2>2. Continues(db, db)
      BY <1>0 DEF Continues
    <2>3. QED
      BY <1>0, <1>8, <2>1, <2>2 DEF InOrder, Continues
  <1>9. CASE q = r /\ Read(r)
    <2>1. /\ UNCHANGED <<snapshot, answer>> /\ pc[r] = "read" /\ answer[r] = "pending"
          /\ reads'[r] = Append(reads[r], StatementView(r))
      BY <1>9 DEF Read, DataInv, Histories, Views, Seen, TypeOK
    <2>2. snapshot[r] \in Seq(Writer) /\ Continues(db, snapshot[r])
      BY <1>0, <1>9, <2>1 DEF InOrder
    <2>3. CASE reads[r] = <<>>
      <3>1. reads'[r] # <<>> /\ reads'[r][1] = StatementView(r)
        BY <2>1, <2>3, ReadTwice
      <3>2. /\ StatementView(r) \in Seq(Writer)
            /\ Continues(StatementView(r), snapshot[r]) /\ Continues(db, StatementView(r))
        <4>1. Continues(db, db) /\ Continues(snapshot[r], snapshot[r])
          BY <1>0, <2>2 DEF Continues
        <4>2. StatementView(r) \in {db, snapshot[r]}
          BY DEF StatementView
        <4>3. QED
          BY <1>0, <2>2, <4>1, <4>2
      <3>3. QED
        BY <1>0, <1>9, <2>1, <2>2, <3>1, <3>2 DEF InOrder, Continues
    <2>4. CASE reads[r] # <<>>
      <3>1. PICK v \in Seq(Writer) : reads[r] = <<v>>
        BY <2>1, <2>4 DEF DataInv, Views, Seen
      <3>2. reads'[r] # <<>> /\ reads'[r][1] = reads[r][1]
        BY <2>1, <3>1, ReadTwice
      <3>3. /\ reads[r][1] \in Seq(Writer)
            /\ Continues(reads[r][1], snapshot[r]) /\ Continues(db, reads[r][1])
        BY <1>0, <1>9, <2>4 DEF InOrder
      <3>4. QED
        BY <1>0, <1>9, <2>1, <2>2, <3>2, <3>3 DEF InOrder, Continues
    <2>5. QED
      BY <2>3, <2>4
  <1>10. CASE q = r /\ ConnectFails(r)
    <2>1. UNCHANGED <<snapshot, reads>> /\ answer'[r] = "error" /\ pc'[r] = "done"
      BY <1>10 DEF ConnectFails, TypeOK
    <2>2. QED
      BY <1>0, <1>10, <2>1 DEF InOrder, Continues
  <1>11. CASE q = r /\ Committed(r)
    <2>1. /\ UNCHANGED <<snapshot, reads>> /\ answer'[r] = "ok" /\ pc'[r] = "done"
          /\ result'[r] = reads[r] /\ pc[r] = "committing"
      BY <1>11 DEF Committed, TypeOK, DataInv, Histories
    <2>2. \E v \in Seq(Writer) : reads[r] = <<v, v>>
      BY <2>1 DEF DataInv, Views, Seen
    <2>3. r \in Writer => Applied(r)'
      <3>1. At(r) \in Session /\ state[At(r)] # "closed" /\ inHand[At(r)] = "committed"
        BY <1>11 DEF Committed, Usable, At, TypeOK
      <3>2. QED
        BY <1>0, <2>1, <3>1, SameStore DEF DataInv, Works, Work
    <2>4. QED
      BY <1>0, <1>11, <2>1, <2>2, <2>3 DEF InOrder, Continues
  <1>12. CASE q = r /\ (Rollback(r) \/ RollbackFails(r))
    <2>1. /\ UNCHANGED <<snapshot, reads, refusing>> /\ pc'[r] = "done"
          /\ answer'[r] = IF r \in refusing THEN "refused" ELSE "error"
          /\ r \in refusing => result'[r] = reads[r]
      BY <1>12 DEF Rollback, RollbackFails, TellFailure, TypeOK, DataInv, Histories
    <2>2. r \in refusing => \E v \in Seq(Writer) : reads[r] = <<v, v>>
      BY DEF DataInv, Views, Seen
    <2>3. QED
      BY <1>0, <1>12, <2>1, <2>2 DEF InOrder, Continues
  <1>13. QED
    BY <1>1, <1>2, <1>3, <1>4, <1>5, <1>6, <1>7, <1>8, <1>9, <1>10, <1>11, <1>12
       DEF RequestStep

\* The server, the network and the pools only let the store grow.
LEMMA SurroundingsKeepOrder ==
    ASSUME TypeOK, OrderInv,
           \/ \E p \in Process : Evict(p)
           \/ \E s \in Session : SessionStep(s)
           \/ UNCHANGED vars
    PROVE  OrderInv'
  <1> SUFFICES ASSUME NEW r \in Request PROVE InOrder(r)'
    BY DEF OrderInv
  <1>1. UNCHANGED <<pc, snapshot, reads, result, answer, refusing>>
    BY DEF Evict, SessionStep, GrantLock, LockTimeout, ServerCommit, NetworkCut, EndSession, vars
  <1>2. db' = db \/ \E w \in Writer : db' = Append(db, w)
    BY DEF Evict, SessionStep, GrantLock, LockTimeout, ServerCommit, NetworkCut, EndSession,
       vars, TypeOK
  <1>3. InOrder(r)
    BY DEF OrderInv
  <1>4. QED
    BY <1>1, <1>2, <1>3, OrderLasts

\* What the invariants say of an answered request.
LEMMA CurrentFollows ==
    ASSUME TypeOK, DataInv, OrderInv
    PROVE  AnswersAreCurrent
  <1> SUFFICES ASSUME NEW r \in Request, answer[r] \in {"ok", "refused"},
                      NEW v, v = result[r][1]
               PROVE  /\ v \in Seq(Writer) /\ result[r] = <<v, v>>
                      /\ Continues(v, snapshot[r])
                      /\ Continues(db, v)
                      /\ answer[r] = "ok" /\ r \in Writer => Continues(db, Append(v, r))
                      /\ answer[r] = "refused" => ~Applied(r)
    BY DEF AnswersAreCurrent, Applied, Has
  <1>1. InOrder(r)
    BY DEF OrderInv
  <1>2. v \in Seq(Writer) /\ reads[r] = <<v, v>> /\ result[r] = <<v, v>>
    <2>1. PICK u \in Seq(Writer) : reads[r] = <<u, u>> /\ result[r] = <<u, u>>
      BY <1>1 DEF InOrder
    <2>2. QED
      BY <2>1, ReadTwice
  <1>3. reads[r] # <<>> /\ reads[r][1] = v
    BY <1>2, ReadTwice
  <1>4. Continues(v, snapshot[r]) /\ Continues(db, v)
    BY <1>1, <1>3 DEF InOrder
  <1>5. answer[r] = "refused" => ~Applied(r)
    BY <1>1 DEF InOrder, DataInv, Past
  <1>6. answer[r] = "ok" /\ r \in Writer => Continues(db, Append(v, r))
    <2> SUFFICES ASSUME answer[r] = "ok", r \in Writer
                 PROVE  Continues(db, Append(v, r))
      OBVIOUS
    <2>1. Applied(r)
      BY <1>1 DEF InOrder
    <2>2. reads[r] = <<Before(r), Before(r)>>
      BY <2>1 DEF DataInv, Past
    <2>3. Before(r) = v
      BY <1>3, <2>2, ReadTwice
    <2>4. QED
      BY <2>1, <2>3, BeforeContinues DEF Applied, Before, TypeOK
  <1>7. QED
    BY <1>2, <1>4, <1>5, <1>6

\* A caller is never told of a store older than its request, torn between two stores,
\* or holding what was rolled back; "ok" means applied on exactly that store, and
\* "refused" means not applied, however late COMMIT or ROLLBACK took effect.
THEOREM AnswersStayCurrent == Spec => []AnswersAreCurrent
  <1>1. TypeOK /\ StoreInv /\ DataInv /\ [Next]_vars => DataInv'
    BY RequestKeepsData, SurroundingsKeepData, CommitKeepsData DEF Next, SessionStep
  <1>2. TypeOK /\ StoreInv /\ DataInv /\ OrderInv /\ [Next]_vars => OrderInv'
    BY RequestKeepsOrder, SurroundingsKeepOrder DEF Next
  <1>3. TypeOK /\ StoreInv /\ [Next]_vars => StoreInv'
    BY RequestKeeps, SurroundingsKeep DEF Next
  <1>4. TypeOK /\ DataInv /\ OrderInv => AnswersAreCurrent
    BY CurrentFollows
  <1>5. QED
    BY StoreTypeCorrect, StoreInvInit, DataInvInit, OrderInit, <1>1, <1>2, <1>3, <1>4, PTL
       DEF Spec
=============================================================================
