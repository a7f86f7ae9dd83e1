-------------------------- MODULE DeploymentProofs --------------------------
(***************************************************************************)
(* Machine-checked proofs about Deployment, for any number of commands and *)
(* of processes that run migrate.                                          *)
(*                                                                         *)
(*   DeploymentTypes     TypeOK                                            *)
(*   NobodyLeftBehind    NoOrphans, from what stop_children has done so far*)
(*   MigrationIsEnough   MigrationSuffices                                 *)
(***************************************************************************)
EXTENDS Deployment, TLAPS

\* stop_children starts from the first child, and has ended those it has passed.
Reaped ==
    /\ supervisor \in {"spawning", "watching", "signalling"} => waiting = 1
    /\ supervisor = "reaping" => \A c \in 1..(waiting - 1) : child[c] \notin Alive

Inv == TypeOK /\ Reaped /\ NoOrphans

(***************************************************************************)
(* The supervisor and its children.                                        *)
(***************************************************************************)

\* Nothing runs before the first container.
LEMMA InitInv == Init => Inv
  <1> SUFFICES ASSUME Init PROVE Inv
    OBVIOUS
  <1>1. store \in Store
    BY DEF Init, Store, Role, Schema, Limiter
  <1>2. verdict \in {"0", "1", "raised", None} /\ verdict # None
    BY DeploymentAssumption DEF Init
  <1>3. waiting \in 1..(N + 1)
    BY DeploymentAssumption DEF Init
  <1>4. TypeOK
    BY <1>1, <1>2, <1>3 DEF Init, TypeOK
  <1>5. Reaped /\ NoOrphans
    BY DEF Init, Reaped, NoOrphans, Alive
  <1>6. QED
    BY <1>4, <1>5 DEF Inv

\* The types after a step on the store.
LEMMA StoreStepType ==
    ASSUME TypeOK, NEW p \in Migrator, Inspect(p) \/ Migrate(p) \/ MigrationFails(p)
    PROVE  TypeOK'
  <1>1. store' \in Store
    <2>1. CASE Inspect(p) \/ MigrationFails(p)
      BY <2>1 DEF Inspect, MigrationFails, TypeOK
    <2>2. CASE Migrate(p)
      BY <2>2 DEF Migrate, TypeOK, Store, Role, Schema, Privilege, Limiter
    <2>3. QED
      BY <2>1, <2>2
  <1>2. /\ migrating' \in [Migrator -> {"idle", "inspected"}]
        /\ migrated' \in {"underway", "yes", "unknown"}
        /\ UNCHANGED superVars
    BY DEF Inspect, Migrate, MigrationFails, TypeOK
  <1>3. QED
    BY <1>1, <1>2 DEF TypeOK, superVars

\* The types after an administrator's step.
LEMMA DriftType ==
    ASSUME TypeOK, AlterRole \/ AlterGrants \/ AlterObjects \/ AlterContent
    PROVE  TypeOK'
  <1>1. store' \in Store
    BY DEF AlterRole, AlterGrants, AlterObjects, AlterContent, TypeOK, Store, Role,
           Schema, Limiter
  <1>2. /\ migrating' = migrating
        /\ migrated' \in {"underway", "yes", "unknown"}
        /\ UNCHANGED superVars
    BY DEF AlterRole, AlterGrants, AlterObjects, AlterContent, TypeOK
  <1>3. QED
    BY <1>1, <1>2 DEF TypeOK, superVars

\* The types after a step of a child or of the supervisor.
LEMMA SuperStepType ==
    ASSUME TypeOK, \/ \E c \in Child : ChildStarts(c) \/ ChildDies(c)
                   \/ StartContainer \/ Signal \/ Supervise
    PROVE  TypeOK'
  <1> USE DEF TypeOK, storeVars
  <1>1. ASSUME NEW c \in Child, ChildStarts(c) \/ ChildDies(c)
        PROVE  TypeOK'
    BY <1>1 DEF ChildStarts, ChildDies, Become, Alive
  <1>2. CASE StartContainer
    <2>1. waiting' \in 1..(N + 1)
      BY <1>2, DeploymentAssumption DEF StartContainer
    <2>2. "raised" # None
      BY DeploymentAssumption
    <2>3. supervisor' \in {"spawning", "watching"} <=> verdict' = None
      BY <1>2, <2>2 DEF StartContainer
    <2>4. QED
      BY <1>2, <2>1, <2>3 DEF StartContainer
  <1>3. CASE Signal
    BY <1>3 DEF Signal
  <1>4. CASE Spawn
    BY <1>4, DeploymentAssumption DEF Spawn, Alive
  <1>5. CASE Poll \/ StopSeen
    BY <1>5, DeploymentAssumption DEF Poll, StopSeen
  <1>6. CASE SendTerm
    BY <1>6 DEF SendTerm, Alive
  <1>7. CASE DeadlinePasses
    BY <1>7 DEF DeadlinePasses
  <1>8. CASE Reap
    <2>1. waiting' \in 1..(N + 1)
      BY <1>8, DeploymentAssumption DEF Reap
    <2>2. child' \in [Child -> Alive \cup {"none", "dead"}]
      BY <1>8 DEF Reap
    <2>3. QED
      BY <1>8, <2>1, <2>2 DEF Reap
  <1>9. CASE Exit
    BY <1>9 DEF Exit
  <1>10. QED
    BY <1>1, <1>2, <1>3, <1>4, <1>5, <1>6, <1>7, <1>8, <1>9 DEF Supervise

\* Types are kept by every step.
LEMMA StepType ==
    ASSUME TypeOK, [Next]_vars
    PROVE  TypeOK'
  <1>1. CASE UNCHANGED vars
    BY <1>1 DEF vars, storeVars, superVars, TypeOK
  <1>2. QED
    BY <1>1, StoreStepType, DriftType, SuperStepType DEF Next

\* Only a running supervisor starts children; one that reaps passes a child when
\* it has ended, and none of them comes back.
LEMMA StepReaped ==
    ASSUME TypeOK, Reaped, NoOrphans, [Next]_vars
    PROVE  Reaped' /\ NoOrphans'
  <1> USE DEF Reaped, NoOrphans, Child
  <1>0. waiting \in 1..(N + 1) /\ N \in Nat \ {0}
        /\ child \in [Child -> Alive \cup {"none", "dead"}]
    BY DeploymentAssumption DEF TypeOK
  <1>1. ASSUME NEW c \in Child, ChildStarts(c) \/ ChildDies(c)
        PROVE  Reaped' /\ NoOrphans'
    <2>1. \A b \in Child : child[b] \notin Alive => child'[b] \notin Alive
      BY <1>0, <1>1 DEF ChildStarts, ChildDies, Become, Alive
    <2>2. QED
      BY <1>0, <1>1, <2>1 DEF ChildStarts, ChildDies, Become
  <1>2. CASE StartContainer
    BY <1>2 DEF StartContainer, Alive
  <1>3. CASE Signal \/ DeadlinePasses
    BY <1>3 DEF Signal, DeadlinePasses
  <1>4. CASE Spawn
    BY <1>4 DEF Spawn
  <1>5. CASE Poll \/ StopSeen
    BY <1>5 DEF Poll, StopSeen
  <1>6. CASE SendTerm
    BY <1>0, <1>6 DEF SendTerm
  <1>7. CASE Reap
    <2>1. /\ waiting' = waiting + 1 /\ supervisor = "reaping" /\ supervisor' = "reaping"
          /\ waiting \in Child
      BY <1>0, <1>7 DEF Reap
    <2>2. child'[waiting] \notin Alive
      BY <1>0, <1>7, <2>1 DEF Reap, Alive
    <2>3. \A c \in Child : c # waiting => child'[c] = child[c]
      BY <1>0, <1>7 DEF Reap
    <2>4. \A c \in 1..waiting : child'[c] \notin Alive
      BY <1>0, <2>1, <2>2, <2>3
    <2>5. QED
      BY <1>0, <2>1, <2>4
  <1>8. CASE Exit
    BY <1>0, <1>8 DEF Exit
  <1>9. CASE \/ \E p \in Migrator : Inspect(p) \/ Migrate(p) \/ MigrationFails(p)
             \/ AlterRole \/ AlterGrants \/ AlterObjects \/ AlterContent
             \/ UNCHANGED vars
    BY <1>9 DEF Inspect, Migrate, MigrationFails, AlterRole, AlterGrants, AlterObjects,
                AlterContent, vars, superVars
  <1>10. QED
    BY <1>1, <1>2, <1>3, <1>4, <1>5, <1>6, <1>7, <1>8, <1>9 DEF Next, Supervise

\* The whole invariant is kept.
LEMMA StepInv == Inv /\ [Next]_vars => Inv'
  BY StepType, StepReaped DEF Inv

\* The types, for any number of commands: supervise() has a result exactly when
\* it has left its loop.
THEOREM DeploymentTypes == Spec => []TypeOK
  <1>1. Inv => TypeOK
    BY DEF Inv
  <1>2. QED
    BY InitInv, StepInv, <1>1, PTL DEF Spec

\* The supervisor exits with every child ended, for any number of children,
\* signals and refusals to end.
THEOREM NobodyLeftBehind == Spec => []NoOrphans
  <1>1. Inv => NoOrphans
    BY DEF Inv
  <1>2. QED
    BY InitInv, StepInv, <1>1, PTL DEF Spec

(***************************************************************************)
(* The store.                                                              *)
(***************************************************************************)

\* A migration whose checks were not overtaken by an administrator works on a
\* role that has no privilege of its own; what a completed one settled stays so
\* until an administrator undoes it.
Settled ==
    /\ migrated = "underway" => store.role \in {"none", "restricted", "nologin"}
    /\ migrated = "yes" =>
         /\ store.role \in {"restricted", "nologin"}
         /\ ~store.owns
         /\ store.schema = "v1"
         /\ store.acl = {"use"}
         /\ store.limiter \in {"ok", "corrupt"}

\* Three things are left open when the rest is settled.
LEMMA SettledSuffices == Settled => MigrationSuffices
  BY DEF Settled, MigrationSuffices, init_workspace, validateWorkspace

\* What an administrator changes of a settled store is remembered.
LEMMA DriftSettled ==
    ASSUME TypeOK, Settled, AlterRole \/ AlterGrants \/ AlterObjects \/ AlterContent
    PROVE  Settled'
  <1> USE DEF Settled, TypeOK, Store
  <1>1. CASE AlterRole
    BY <1>1 DEF AlterRole
  <1>2. CASE AlterGrants
    BY <1>2 DEF AlterGrants
  <1>3. CASE AlterObjects
    BY <1>3 DEF AlterObjects
  <1>4. CASE AlterContent
    BY <1>4 DEF AlterContent
  <1>5. QED
    BY <1>1, <1>2, <1>3, <1>4

\* The store and the history only change together.
LEMMA StepSettled ==
    ASSUME TypeOK, Settled, [Next]_vars
    PROVE  Settled'
  <1> USE DEF Settled
  <1>1. ASSUME NEW p \in Migrator, Inspect(p)
        PROVE  Settled'
    BY <1>1 DEF Inspect
  <1>2. ASSUME NEW p \in Migrator, Migrate(p)
        PROVE  Settled'
    <2>1. store \in Store
      BY DEF TypeOK
    <2>2. /\ store'.role = IF store.role = "none" THEN "restricted" ELSE store.role
          /\ store'.schema = "v1" /\ store'.acl = {"use"} /\ store'.owns = store.owns
          /\ store'.limiter = IF store.limiter = "none" THEN "ok" ELSE store.limiter
          /\ ~store.owns
      BY <1>2, <2>1 DEF Migrate, Store
    <2>3. migrated' = IF migrated = "underway" THEN "yes" ELSE migrated
      BY <1>2 DEF Migrate
    <2>4. store'.limiter \in {"ok", "corrupt"}
      BY <2>1, <2>2 DEF Store, Limiter
    <2>5. QED
      BY <2>2, <2>3, <2>4
  <1>3. ASSUME NEW p \in Migrator, MigrationFails(p)
        PROVE  Settled'
    BY <1>3 DEF MigrationFails
  <1>4. CASE AlterRole \/ AlterGrants \/ AlterObjects \/ AlterContent
    BY <1>4, DriftSettled
  <1>5. ASSUME NEW c \in Child, ChildStarts(c) \/ ChildDies(c)
        PROVE  Settled'
    BY <1>5 DEF ChildStarts, ChildDies, Become, storeVars
  <1>6. CASE StartContainer \/ Signal \/ Supervise
    BY <1>6 DEF StartContainer, Signal, Supervise, Spawn, Poll, StopSeen, SendTerm,
                DeadlinePasses, Reap, Exit, storeVars
  <1>7. CASE UNCHANGED vars
    BY <1>7 DEF vars, storeVars
  <1>8. QED
    BY <1>1, <1>2, <1>3, <1>4, <1>5, <1>6, <1>7 DEF Next

\* A completed migration leaves nothing that could keep a server from accepting
\* the store but a role that cannot log in and, for the frontend, an unreadable
\* limiter state and a partitioned table, until an administrator undoes the rest.
THEOREM MigrationIsEnough == Spec => []MigrationSuffices
  <1>1. Init => Settled
    BY DEF Init, Settled
  <1>2. Inv => TypeOK
    BY DEF Inv
  <1>3. QED
    BY InitInv, StepInv, StepSettled, SettledSuffices, <1>1, <1>2, PTL DEF Spec

=============================================================================
