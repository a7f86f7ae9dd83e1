----------------------------- MODULE Deployment -----------------------------
(***************************************************************************)
(* The combined container and the store it is deployed on:                 *)
(* scripts/serve_free.py (supervise, stop_children), the start of the      *)
(* backend (lifespan in main.py, init_workspace) and                       *)
(* scripts/workspace_postgres.py migrate, while an administrator of the    *)
(* database changes roles and grants under their feet.                     *)
(*                                                                         *)
(* Child 1 is the backend, which refuses to start on a store that migrate  *)
(* would not leave behind.  Child processes die, or ignore SIGTERM, when   *)
(* they like; signals reach the supervisor at any time.                    *)
(***************************************************************************)
EXTENDS Integers, FiniteSets

CONSTANTS
    N,              \* number of commands: backend, frontend
    Migrator,       \* processes that may run migrate
    None

ASSUME DeploymentAssumption ==
    /\ N \in Nat \ {0}
    /\ None \notin {"0", "1", "raised"}

VARIABLES
    store,      \* the catalogue: runtime role, schema, ownership, privileges
    migrating,  \* [Migrator -> "idle", or "inspected" once it holds the lock]
    migrated,   \* history: "underway" from the first check of a migration on,
                \* "yes" once it is completed, "unknown" again when an
                \* administrator undoes what it checked or did
    supervisor, \* where supervise() is
    child,      \* [1..N -> what the process is doing]
    waiting,    \* stop_children: the child it waits for
    overdue,    \* stop_children: the deadline has passed
    stopping,   \* the Event set by the signal handler
    verdict     \* the exit status, "raised" for an exception, None before

storeVars == <<store, migrating, migrated>>

superVars == <<supervisor, child, waiting, overdue, stopping, verdict>>

vars == <<storeVars, superVars>>

Child == 1..N

\* "restricted" is what CREATE ROLE makes; "nologin" has no more rights and cannot
\* connect with the application's password; "member" also belongs to another role;
\* "excessive" may create roles or databases, bypass security, replicate.
Role == {"none", "restricted", "nologin", "member", "excessive"}

\* Versions of the private schema.
Schema == {"none", "v1", "v2"}

\* "use" stands for the grants of migrate and their policy, "extra" for DELETE,
\* TRUNCATE and the like, or row security turned off, "create" for CREATE on the
\* schema.
Privilege == {"use", "extra", "create"}

\* The row of login_rate_limit: absent, as nextLoginRateLimit reads it, or not.
Limiter == {"none", "ok", "corrupt"}

\* "owns": the role owns an object of the schema.  "plain": every table is an
\* ordinary one, not a partitioned one.
Store == [role : Role, schema : Schema, owns : BOOLEAN, acl : SUBSET Privilege,
          limiter : Limiter, plain : BOOLEAN]

Alive == {"starting", "up", "terminating"}

-----------------------------------------------------------------------------
(* migrate: one transaction under WRITER_LOCK.                             *)

\* The checks that come before the first change.
Inspect(p) ==
    /\ \A q \in Migrator : migrating[q] = "idle"
    /\ store.role \in {"none", "restricted", "nologin"}
    /\ migrating' = [migrating EXCEPT ![p] = "inspected"]
    /\ migrated' = IF migrated = "yes" THEN "yes" ELSE "underway"
    /\ UNCHANGED <<store, superVars>>

\* IF NOT EXISTS and ON CONFLICT DO NOTHING keep what is there, its kind and its
\* content; then the version and the owners are looked at; then every privilege is
\* revoked, those of the application are granted and row security is turned on.
Migrate_OnlyGrants(p) ==
    /\ migrating[p] = "inspected"
    /\ store.schema \in {"none", "v1"}
    /\ ~store.owns
    /\ store' = [store EXCEPT !.role = IF @ = "none" THEN "restricted" ELSE @,
                              !.schema = "v1",
                              !.limiter = IF @ = "none" THEN "ok" ELSE @,
                              !.acl = @ \cup {"use"}]
    /\ migrating' = [migrating EXCEPT ![p] = "idle"]
    /\ migrated' = IF migrated = "underway" THEN "yes" ELSE migrated
    /\ UNCHANGED superVars

Migrate(p) ==
    /\ migrating[p] = "inspected"
    /\ store.schema \in {"none", "v1"}
    /\ ~store.owns
    /\ store' = [store EXCEPT !.role = IF @ = "none" THEN "restricted" ELSE @,
                              !.schema = "v1",
                              !.limiter = IF @ = "none" THEN "ok" ELSE @,
                              !.acl = {"use"}]
    /\ migrating' = [migrating EXCEPT ![p] = "idle"]
    /\ migrated' = IF migrated = "underway" THEN "yes" ELSE migrated
    /\ UNCHANGED superVars

\* A refusal or an error: nothing is kept.
MigrationFails(p) ==
    /\ migrating[p] = "inspected"
    /\ migrating' = [migrating EXCEPT ![p] = "idle"]
    /\ migrated' = IF migrated = "yes" THEN "yes" ELSE "unknown"
    /\ UNCHANGED <<store, superVars>>

\* An administrator of the database, who takes no advisory lock.  The role may be
\* there before the schema is.
AlterRole ==
    /\ \E role \in Role \ {"none"} :
         /\ store' = [store EXCEPT !.role = role]
         /\ migrated' = IF role \in {"restricted", "nologin"} THEN migrated ELSE "unknown"
    /\ UNCHANGED <<migrating, superVars>>

\* Grants and row security are rewritten by a migration that is under way.
AlterGrants ==
    /\ store.role # "none" /\ store.schema # "none"
    /\ \E acl \in SUBSET Privilege : store' = [store EXCEPT !.acl = acl]
    /\ migrated' = IF migrated = "underway" THEN "underway" ELSE "unknown"
    /\ UNCHANGED <<migrating, superVars>>

\* Owners, the version and the limiter's row are looked at once.
AlterObjects ==
    /\ store.role # "none" /\ store.schema # "none"
    /\ \/ \E owns \in BOOLEAN : store' = [store EXCEPT !.owns = owns]
       \/ store' = [store EXCEPT !.schema = "v2"]
       \/ store' = [store EXCEPT !.limiter = "none"]
    /\ migrated' = "unknown"
    /\ UNCHANGED <<migrating, superVars>>

\* What no migration looks at: a restored or handwritten limiter state, a table
\* turned into a partitioned one or back.
AlterContent ==
    /\ store.schema # "none"
    /\ \/ \E state \in {"ok", "corrupt"} : store' = [store EXCEPT !.limiter = state]
       \/ \E plain \in BOOLEAN : store' = [store EXCEPT !.plain = plain]
    /\ UNCHANGED <<migrating, migrated, superVars>>

-----------------------------------------------------------------------------
(* The children.                                                           *)

\* init_workspace with WORKSPACE_DATABASE_URL.
init_workspace ==
    /\ store.role \in {"restricted", "member"}
    /\ "create" \notin store.acl
    /\ ~store.owns
    /\ store.schema = "v1"
    /\ "use" \in store.acl

\* withWorkspace of the frontend, before every transaction and for /health: stricter
\* about the role, about the tables and what it may do to them, and it reads the
\* state of the login limiter.
validateWorkspace ==
    /\ store.role = "restricted"
    /\ ~store.owns
    /\ store.schema = "v1"
    /\ store.acl = {"use"}
    /\ store.plain
    /\ store.limiter = "ok"

Become(c, state) ==
    /\ child' = [child EXCEPT ![c] = state]
    /\ UNCHANGED <<storeVars, supervisor, waiting, overdue, stopping, verdict>>

ChildStarts(c) ==
    /\ child[c] = "starting"
    /\ Become(c, IF c = 1 /\ ~init_workspace THEN "dead" ELSE "up")

\* Of itself, or of SIGTERM.
ChildDies(c) ==
    /\ child[c] \in Alive
    /\ Become(c, "dead")

-----------------------------------------------------------------------------
(* supervise                                                               *)

\* The platform starts a container; runtime_environment may refuse it.
StartContainer ==
    /\ supervisor = "gone"
    /\ child' = [c \in Child |-> "none"]
    /\ waiting' = 1
    /\ overdue' = FALSE
    /\ stopping' = FALSE
    /\ \/ supervisor' = "spawning" /\ verdict' = None
       \/ supervisor' = "gone" /\ verdict' = "raised"
    /\ UNCHANGED storeVars

\* Popen for the next command.  When it raises, finally stops the others.
Spawn ==
    /\ supervisor = "spawning"
    /\ \E c \in Child :
         /\ child[c] = "none"
         /\ \A b \in 1..(c - 1) : child[b] # "none"
         /\ \/ /\ child' = [child EXCEPT ![c] = "starting"]
               /\ supervisor' = IF c = N THEN "watching" ELSE supervisor
               /\ UNCHANGED verdict
            \/ /\ supervisor' = "signalling"
               /\ verdict' = "raised"
               /\ UNCHANGED child
    /\ UNCHANGED <<storeVars, waiting, overdue, stopping>>

\* SIGTERM or SIGINT, from the handlers' installation to their removal, which
\* comes after stop_children.
Signal_HandlersRemoved ==
    /\ \/ /\ supervisor \in {"spawning", "watching"}
          /\ stopping' = TRUE
          /\ UNCHANGED <<supervisor, verdict>>
       \/ /\ supervisor \in {"signalling", "reaping"}
          /\ supervisor' = "gone"
          /\ UNCHANGED <<stopping, verdict>>
    /\ UNCHANGED <<storeVars, child, waiting, overdue>>

Signal ==
    /\ supervisor # "gone"
    /\ stopping' = TRUE
    /\ UNCHANGED <<storeVars, supervisor, child, waiting, overdue, verdict>>

\* stopping.wait(0.2) ran out: a child that ended ends the service.
Poll ==
    /\ supervisor = "watching"
    /\ ~stopping
    /\ \E c \in Child : child[c] = "dead"
    /\ supervisor' = "signalling"
    /\ verdict' = "1"
    /\ UNCHANGED <<storeVars, child, waiting, overdue, stopping>>

\* stopping.wait(0.2) saw the event: the children are not looked at again.
StopSeen_NoReturn ==
    /\ supervisor = "watching"
    /\ stopping
    /\ supervisor' = "signalling"
    /\ UNCHANGED <<storeVars, child, waiting, overdue, stopping, verdict>>

StopSeen ==
    /\ supervisor = "watching"
    /\ stopping
    /\ supervisor' = "signalling"
    /\ verdict' = "0"
    /\ UNCHANGED <<storeVars, child, waiting, overdue, stopping>>

\* stop_children: SIGTERM to the group of every child that has not ended.
SendTerm ==
    /\ supervisor = "signalling"
    /\ supervisor' = "reaping"
    /\ child' = [c \in Child |-> IF child[c] \in Alive THEN "terminating" ELSE child[c]]
    /\ UNCHANGED <<storeVars, waiting, overdue, stopping, verdict>>

DeadlinePasses ==
    /\ supervisor = "reaping"
    /\ ~overdue
    /\ overdue' = TRUE
    /\ UNCHANGED <<storeVars, supervisor, child, waiting, stopping, verdict>>

\* The next child is reaped when it has ended; past the deadline it is killed
\* first.  A child that was never started is not in the list.
Reap_WithoutKill ==
    /\ supervisor = "reaping"
    /\ waiting <= N
    /\ child[waiting] \in {"dead", "none"}
    /\ waiting' = waiting + 1
    /\ UNCHANGED <<storeVars, supervisor, child, overdue, stopping, verdict>>

Reap ==
    /\ supervisor = "reaping"
    /\ waiting <= N
    /\ child[waiting] \in {"dead", "none"} \/ overdue
    /\ child' = [child EXCEPT ![waiting] = IF @ = "none" THEN @ ELSE "dead"]
    /\ waiting' = waiting + 1
    /\ UNCHANGED <<storeVars, supervisor, overdue, stopping, verdict>>

Exit ==
    /\ supervisor = "reaping"
    /\ waiting > N
    /\ supervisor' = "gone"
    /\ UNCHANGED <<storeVars, child, waiting, overdue, stopping, verdict>>

-----------------------------------------------------------------------------

Init ==
    /\ store = [role |-> "none", schema |-> "none", owns |-> FALSE, acl |-> {},
                limiter |-> "none", plain |-> TRUE]
    /\ migrating = [p \in Migrator |-> "idle"]
    /\ migrated = "unknown"
    /\ supervisor = "gone"
    /\ child = [c \in Child |-> "none"]
    /\ waiting = 1
    /\ overdue = FALSE
    /\ stopping = FALSE
    /\ verdict = "raised"

Supervise == Spawn \/ Poll \/ StopSeen \/ SendTerm \/ DeadlinePasses \/ Reap \/ Exit

Next ==
    \/ \E p \in Migrator : Inspect(p) \/ Migrate(p) \/ MigrationFails(p)
    \/ AlterRole \/ AlterGrants \/ AlterObjects \/ AlterContent
    \/ \E c \in Child : ChildStarts(c) \/ ChildDies(c)
    \/ StartContainer
    \/ Signal
    \/ Supervise

\* The supervisor polls every 0.2 seconds and its clock passes the deadline;
\* nothing is assumed of the children.
Spec == Init /\ [][Next]_vars /\ WF_vars(Supervise)

-----------------------------------------------------------------------------
(* Properties.                                                             *)

\* The types; supervise() returns or raises exactly when it has left its loop.
TypeOK ==
    /\ store \in Store
    /\ migrating \in [Migrator -> {"idle", "inspected"}]
    /\ migrated \in {"underway", "yes", "unknown"}
    /\ supervisor \in {"gone", "spawning", "watching", "signalling", "reaping"}
    /\ child \in [Child -> Alive \cup {"none", "dead"}]
    /\ waiting \in 1..(N + 1)
    /\ overdue \in BOOLEAN
    /\ stopping \in BOOLEAN
    /\ verdict \in {"0", "1", "raised", None}
    /\ supervisor \in {"spawning", "watching"} <=> verdict = None

\* Whatever the children do and however often a signal comes, the supervisor
\* never leaves one of them behind.
NoOrphans == supervisor = "gone" => \A c \in Child : child[c] \notin Alive

\* After a completed migration three things are left that may still keep a server
\* from working, and no other: a role that existed before and cannot log in, which
\* stops both; a limiter state that cannot be read and a partitioned table, which
\* migrate keeps and only the frontend looks at.  Three lists of conditions, written
\* apart in three programs, agree on all the rest, whatever grants migrate found and
\* an administrator gave while it was at work.
MigrationSuffices ==
    migrated = "yes" =>
        /\ init_workspace <=> store.role # "nologin"
        /\ validateWorkspace <=> /\ store.role # "nologin"
                                 /\ store.limiter # "corrupt"
                                 /\ store.plain

\* "Neither process can silently keep serving when its sibling fails": the end
\* of one child, and a stop request, end the service, whether or not the others
\* react to SIGTERM.
ServiceEnds ==
    /\ supervisor = "watching" /\ (\E c \in Child : child[c] = "dead")
         ~> supervisor = "gone"
    /\ supervisor # "gone" /\ stopping ~> supervisor = "gone"
=============================================================================
