--------------------------- MODULE WorkspaceStore --------------------------
(***************************************************************************)
(* The transaction layer over PostgreSQL: withWorkspace of                 *)
(* frontend/src/lib/workspace-db.ts (postgres_connect of                   *)
(* backend/app/workspace_store.py takes the same steps).                   *)
(*                                                                         *)
(* Each process has a pool of one connection.  A request borrows it, opens *)
(* a transaction, takes the advisory lock if it writes, runs its handler   *)
(* (here: two reads, and a write or a refusal), commits, and gives the     *)
(* connection back, or destroys it when its state is not known.            *)
(*                                                                         *)
(* The server and the network are PostgreSQL's: a session outlives the     *)
(* client that lost it until the server notices, so a COMMIT may take      *)
(* effect after the client gave up; lock_timeout, statement_timeout and    *)
(* idle_in_transaction_session_timeout are steps the server may take.      *)
(* A process that crashes or freezes takes no more steps.                  *)
(*                                                                         *)
(* The store itself is the sequence of the writers committed so far: what  *)
(* a handler does with it is the business of module Prospecting.           *)
(***************************************************************************)
EXTENDS Naturals, Sequences, FiniteSets

CONSTANTS
    Request, Writer,    \* the requests of a run, and those with write = true
    Process, home,      \* the server processes; which one runs a request
    Session,            \* bound: server sessions alive at the same time
    None

ASSUME StoreAssumption ==
    /\ Writer \subseteq Request
    /\ home \in [Request -> Process]
    /\ None \notin Request \cup Session \cup Seq(Writer)

VARIABLES
    db,         \* the committed writers, in order
    state,      \* [Session -> "closed", "idle" or "active" (in a transaction)]
    link,       \* [Session -> the client can still use the connection]
    holder,     \* the session that holds the advisory lock, or None
    dirty,      \* [Session -> the request whose writes wait for COMMIT, or None]
    inHand,     \* [Session -> the statement the server has, or its outcome]
    conn,       \* [Process -> the connection of its pool, or None]
    busy,       \* [Process -> the request that has it, or None]
    pc,         \* [Request -> where withWorkspace is]
    snapshot,   \* [Request -> the store when its transaction began, or None]
    reads,      \* [Request -> what its handler has read]
    refusing,   \* the requests whose handler raised an application error
    result, answer

serverVars == <<state, link, holder, dirty, inHand>>

vars == <<db, state, link, holder, dirty, inHand, conn, busy, pc, snapshot,
          reads, refusing, result, answer>>

At(r) == conn[home[r]]

\* The client can talk to the server over its connection.
Usable(r) == At(r) # None /\ link[At(r)] /\ state[At(r)] # "closed"

\* The levels of the two BEGIN statements, and what a statement sees.
Isolation_Snapshot(r) == "repeatable read"

Isolation_Newest(r) == "read committed"

Isolation(r) == IF r \in Writer THEN "read committed" ELSE "repeatable read"

StatementView(r) == IF Isolation(r) = "repeatable read" THEN snapshot[r] ELSE db

\* A session that ends, or whose transaction does, lets the lock go.
Unlock(s) == holder' = IF holder = s THEN None ELSE holder

-----------------------------------------------------------------------------
(* The pool.                                                               *)

Borrow(r) ==
    LET p == home[r] IN
    /\ pc[r] = "queued"
    /\ busy[p] = None
    /\ busy' = [busy EXCEPT ![p] = r]
    /\ pc' = [pc EXCEPT ![r] = "begin"]
    /\ \/ conn[p] # None /\ UNCHANGED <<conn, state, link, inHand>>
       \/ /\ conn[p] = None
          /\ \E s \in Session :
               /\ state[s] = "closed"
               /\ \A q \in Process : conn[q] # s
               /\ conn' = [conn EXCEPT ![p] = s]
               /\ state' = [state EXCEPT ![s] = "idle"]
               /\ link' = [link EXCEPT ![s] = TRUE]
               /\ inHand' = [inHand EXCEPT ![s] = "none"]
    /\ UNCHANGED <<db, holder, dirty, snapshot, reads, refusing, result, answer>>

\* connectionTimeoutMillis, or no server.
ConnectFails(r) ==
    /\ pc[r] = "queued"
    /\ pc' = [pc EXCEPT ![r] = "done"]
    /\ answer' = [answer EXCEPT ![r] = "error"]
    /\ UNCHANGED <<db, serverVars, conn, busy, snapshot, reads, refusing, result>>

\* An idle connection that failed or is too old leaves the pool.
Evict(p) ==
    /\ busy[p] = None
    /\ conn[p] # None
    /\ conn' = [conn EXCEPT ![p] = None]
    /\ link' = [link EXCEPT ![conn[p]] = FALSE]
    /\ UNCHANGED <<db, state, holder, dirty, inHand, busy, pc, snapshot, reads,
                   refusing, result, answer>>

-----------------------------------------------------------------------------
(* withWorkspace.                                                          *)

TakesLock_Never(r) == FALSE

\* if (write) ... pg_advisory_xact_lock
TakesLock(r) == r \in Writer

\* BEGIN, SET LOCAL, and the lock statement of a writer.
Begin(r) ==
    /\ pc[r] = "begin"
    /\ Usable(r)
    /\ state' = [state EXCEPT ![At(r)] = "active"]
    /\ snapshot' = [snapshot EXCEPT ![r] = db]
    /\ inHand' = [inHand EXCEPT ![At(r)] = IF TakesLock(r) THEN "lock" ELSE "none"]
    /\ pc' = [pc EXCEPT ![r] = IF TakesLock(r) THEN "lock" ELSE "read"]
    /\ UNCHANGED <<db, link, holder, dirty, conn, busy, reads, refusing, result, answer>>

Locked(r) ==
    /\ pc[r] = "lock"
    /\ Usable(r)
    /\ inHand[At(r)] \in {"granted", "refused"}
    /\ inHand' = [inHand EXCEPT ![At(r)] = "none"]
    /\ pc' = [pc EXCEPT ![r] = IF inHand[At(r)] = "granted" THEN "read" ELSE "rollback"]
    /\ UNCHANGED <<db, state, link, holder, dirty, conn, busy, snapshot, reads,
                   refusing, result, answer>>

\* The handler reads twice: its check and what it builds on it, or two tables
\* of one answer.
Read(r) ==
    /\ pc[r] = "read"
    /\ Usable(r)
    /\ reads' = [reads EXCEPT ![r] = Append(@, StatementView(r))]
    /\ pc' = [pc EXCEPT ![r] =
                IF reads[r] = <<>> THEN "read" ELSE "handle"]
    /\ UNCHANGED <<db, serverVars, conn, busy, snapshot, refusing, result, answer>>

\* Only the handlers that ask for write = true write.
Writes(r) == r \in Writer

\* The handler is done; its writes wait for COMMIT.
Handle(r) ==
    /\ pc[r] = "handle"
    /\ Usable(r)
    /\ dirty' = IF Writes(r) THEN [dirty EXCEPT ![At(r)] = r] ELSE dirty
    /\ pc' = [pc EXCEPT ![r] = "commit"]
    /\ UNCHANGED <<db, state, link, holder, inHand, conn, busy, snapshot, reads,
                   refusing, result, answer>>

\* The handler, a reader's too, raises WorkspaceHttpError: 404, 409, 422.
Refuse(r) ==
    /\ pc[r] = "handle"
    /\ refusing' = refusing \cup {r}
    /\ pc' = [pc EXCEPT ![r] = "rollback"]
    /\ UNCHANGED <<db, serverVars, conn, busy, snapshot, reads, result, answer>>

SendCommit(r) ==
    /\ pc[r] = "commit"
    /\ Usable(r)
    /\ inHand' = [inHand EXCEPT ![At(r)] = "commit"]
    /\ pc' = [pc EXCEPT ![r] = "committing"]
    /\ UNCHANGED <<db, state, link, holder, dirty, conn, busy, snapshot, reads,
                   refusing, result, answer>>

Committed(r) ==
    /\ pc[r] = "committing"
    /\ Usable(r)
    /\ inHand[At(r)] = "committed"
    /\ inHand' = [inHand EXCEPT ![At(r)] = "none"]
    /\ pc' = [pc EXCEPT ![r] = "done"]
    /\ busy' = [busy EXCEPT ![home[r]] = None]
    /\ result' = [result EXCEPT ![r] = reads[r]]
    /\ answer' = [answer EXCEPT ![r] = "ok"]
    /\ UNCHANGED <<db, state, link, holder, dirty, conn, snapshot, reads, refusing>>

\* A statement fails: the connection is gone, the statement timed out on the
\* server, or the answer (also to COMMIT) did not come within query_timeout.
QueryFails(r) ==
    /\ pc[r] \in {"begin", "lock", "read", "handle", "commit", "committing"}
    /\ pc' = [pc EXCEPT ![r] = "rollback"]
    /\ UNCHANGED <<db, serverVars, conn, busy, snapshot, reads, refusing, result, answer>>

\* The catch block: what the caller is told.
TellFailure(r) ==
    /\ pc' = [pc EXCEPT ![r] = "done"]
    /\ busy' = [busy EXCEPT ![home[r]] = None]
    /\ answer' = [answer EXCEPT ![r] = IF r \in refusing THEN "refused" ELSE "error"]
    /\ result' = [result EXCEPT ![r] = IF r \in refusing THEN reads[r] ELSE None]

\* ROLLBACK is answered once the server is through with the statement before.
Rollback(r) ==
    /\ pc[r] = "rollback"
    /\ Usable(r)
    /\ inHand[At(r)] \notin {"lock", "commit"}
    /\ state' = [state EXCEPT ![At(r)] = "idle"]
    /\ Unlock(At(r))
    /\ dirty' = [dirty EXCEPT ![At(r)] = None]
    /\ inHand' = [inHand EXCEPT ![At(r)] = "none"]
    /\ TellFailure(r)
    /\ UNCHANGED <<db, link, conn, snapshot, reads, refusing>>

\* ROLLBACK fails or times out: destroy = true, and release() closes the socket.
GiveBack_Kept(r) == UNCHANGED <<conn, link>>

GiveBack(r) ==
    /\ conn' = [conn EXCEPT ![home[r]] = None]
    /\ link' = [link EXCEPT ![At(r)] = FALSE]

RollbackFails(r) ==
    /\ pc[r] = "rollback"
    /\ GiveBack(r)
    /\ TellFailure(r)
    /\ UNCHANGED <<db, state, holder, dirty, inHand, snapshot, reads, refusing>>

-----------------------------------------------------------------------------
(* PostgreSQL and the network.                                             *)

LockFree(s) == holder \in {None, s}

GrantLock(s) ==
    /\ inHand[s] = "lock"
    /\ LockFree(s)
    /\ holder' = s
    /\ inHand' = [inHand EXCEPT ![s] = "granted"]
    /\ UNCHANGED <<db, state, link, dirty, conn, busy, pc, snapshot, reads,
                   refusing, result, answer>>

\* lock_timeout = 5000ms
LockTimeout(s) ==
    /\ inHand[s] = "lock"
    /\ holder # None
    /\ inHand' = [inHand EXCEPT ![s] = "refused"]
    /\ UNCHANGED <<db, state, link, holder, dirty, conn, busy, pc, snapshot,
                   reads, refusing, result, answer>>

\* The advisory lock is a transaction lock: COMMIT releases it.
ServerCommit(s) ==
    /\ inHand[s] = "commit"
    /\ db' = IF dirty[s] = None THEN db ELSE Append(db, dirty[s])
    /\ state' = [state EXCEPT ![s] = "idle"]
    /\ Unlock(s)
    /\ dirty' = [dirty EXCEPT ![s] = None]
    /\ inHand' = [inHand EXCEPT ![s] = "committed"]
    /\ UNCHANGED <<link, conn, busy, pc, snapshot, reads, refusing, result, answer>>

NetworkCut(s) ==
    /\ link[s]
    /\ state[s] # "closed"
    /\ link' = [link EXCEPT ![s] = FALSE]
    /\ UNCHANGED <<db, state, holder, dirty, inHand, conn, busy, pc, snapshot,
                   reads, refusing, result, answer>>

\* The server ends a session: its client is gone, it was idle in a transaction
\* for 20000 ms, or the server itself restarts.
SessionMayEnd_ClientGone(s) == ~link[s] /\ state[s] # "closed"

SessionMayEnd(s) == state[s] # "closed"

EndSession(s) ==
    /\ SessionMayEnd(s)
    /\ state' = [state EXCEPT ![s] = "closed"]
    /\ Unlock(s)
    /\ dirty' = [dirty EXCEPT ![s] = None]
    /\ inHand' = [inHand EXCEPT ![s] = "none"]
    /\ UNCHANGED <<db, link, conn, busy, pc, snapshot, reads, refusing, result, answer>>

-----------------------------------------------------------------------------

Init ==
    /\ db = <<>>
    /\ state = [s \in Session |-> "closed"]
    /\ link = [s \in Session |-> FALSE]
    /\ holder = None
    /\ dirty = [s \in Session |-> None]
    /\ inHand = [s \in Session |-> "none"]
    /\ conn = [p \in Process |-> None]
    /\ busy = [p \in Process |-> None]
    /\ pc = [r \in Request |-> "queued"]
    /\ snapshot = [r \in Request |-> None]
    /\ reads = [r \in Request |-> <<>>]
    /\ refusing = {}
    /\ result = [r \in Request |-> None]
    /\ answer = [r \in Request |-> "pending"]

RequestStep(r) ==
    \/ Borrow(r) \/ ConnectFails(r) \/ Begin(r) \/ Locked(r) \/ Read(r) \/ Handle(r)
    \/ Refuse(r) \/ SendCommit(r) \/ Committed(r) \/ QueryFails(r)
    \/ Rollback(r) \/ RollbackFails(r)

SessionStep(s) ==
    GrantLock(s) \/ LockTimeout(s) \/ ServerCommit(s) \/ NetworkCut(s) \/ EndSession(s)

Next ==
    \/ \E r \in Request : RequestStep(r)
    \/ \E p \in Process : Evict(p)
    \/ \E s \in Session : SessionStep(s)

Spec == Init /\ [][Next]_vars

\* The three SET LOCAL limits, which the server enforces whatever the clients
\* do: a session that waits for its client in a transaction is ended, a lock
\* statement comes back, and so does a COMMIT.
AwaitsClient(s) == state[s] = "active" /\ inHand[s] \notin {"lock", "commit"}

ServerSpec ==
    /\ Spec
    /\ \A s \in Session :
         /\ WF_vars(AwaitsClient(s) /\ EndSession(s))
         /\ WF_vars(GrantLock(s) \/ LockTimeout(s))
         /\ WF_vars(ServerCommit(s))

-----------------------------------------------------------------------------
(* Properties.                                                             *)

TypeOK ==
    /\ db \in Seq(Writer)
    /\ state \in [Session -> {"closed", "idle", "active"}]
    /\ link \in [Session -> BOOLEAN]
    /\ holder \in Session \cup {None}
    /\ dirty \in [Session -> Writer \cup {None}]
    /\ inHand \in [Session -> {"none", "lock", "granted", "refused", "commit", "committed"}]
    /\ conn \in [Process -> Session \cup {None}]
    /\ busy \in [Process -> Request \cup {None}]
    /\ pc \in [Request -> {"queued", "begin", "lock", "read", "handle", "commit",
                           "committing", "rollback", "done"}]
    /\ refusing \subseteq Request
    /\ answer \in [Request -> {"pending", "ok", "refused", "error"}]

\* A connection waiting in the pool carries nothing over to the next request:
\* no transaction, no lock, no statement still in hand, whatever failed before.
PoolIsClean ==
    \A p \in Process : busy[p] = None /\ conn[p] # None =>
        /\ state[conn[p]] # "active"
        /\ holder # conn[p]
        /\ inHand[conn[p]] = "none"

\* Uncommitted writes exist only under the lock, also those of a session whose
\* client has already given up: no two writers are ever both between their
\* first check and their commit.
WritesAreLocked == \A s \in Session : dirty[s] # None => holder = s

\* The layer implements the serial store.  A request begins when it gets a
\* connection; a reader looks when its transaction begins, a writer with its
\* first read, and it is applied when the server commits it.
ViewOf(r) ==
    IF r \notin Writer THEN snapshot[r]
    ELSE IF reads[r] = <<>> THEN None ELSE reads[r][1]

Serial == INSTANCE SerialStore WITH
    begun <- {r \in Request : pc[r] # "queued"},
    view <- [r \in Request |-> ViewOf(r)]

\* Every behaviour of the layer is one of SerialStore: "Every writer sees the
\* previous writer's commit before its first business read".
IsSerial == Serial!Spec

\* The store q came after the store p: it starts with the writers of p.
Continues(q, p) == Len(p) <= Len(q) /\ \A i \in 1 .. Len(p) : q[i] = p[i]

\* An answer that is not an error tells of one store, which holds whatever was
\* committed when the request's transaction began and nothing that is not committed;
\* a writer answered "ok" was applied right after the store it read, and one that
\* was refused is not applied.
AnswersAreCurrent ==
    \A r \in Request : answer[r] \in {"ok", "refused"} =>
        LET v == result[r][1] IN
        /\ v \in Seq(Writer) /\ result[r] = <<v, v>>
        /\ Continues(v, snapshot[r])
        /\ Continues(db, v)
        /\ answer[r] = "ok" /\ r \in Writer => Continues(db, Append(v, r))
        /\ answer[r] = "refused" => \A i \in DOMAIN db : db[i] # r

\* No writer keeps the others out for ever: the lock is let go even if the
\* process that took it never takes another step.
LockIsFreed == \A s \in Session : holder = s ~> holder # s
=============================================================================
