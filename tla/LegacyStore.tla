----------------------------- MODULE LegacyStore ---------------------------
(***************************************************************************)
(* Where the agents' costs are kept: the store that get_supabase selects   *)
(* (backend/app/db/supabase.py), the development tenant init_db seeds in   *)
(* SQLite, and backend/app/cost_tracker.py, which logs a run and adds up   *)
(* the costs of a campaign.  Composed with the runs of module AgentRun.    *)
(*                                                                         *)
(* Each process selects its store by itself and remembers it; they share   *)
(* the SQLite file and the hosted database.  A process may end at any step *)
(* and start again.                                                        *)
(***************************************************************************)
EXTENDS AgentRun

CONSTANTS
    Process,
    Tenant,     \* bound: the row ids the processes may draw
    Campaign    \* bound: the campaigns the callers name

\* What _ensure_dev_tenant returns: a tenant, and whether it has a playbook.
DevTenant == [tenant : Tenant, playbook : BOOLEAN]

\* What log_agent_run is called with; "campaign_id: str | None = None".
Log == [tenant : Tenant, campaign : Campaign \cup {None}]

ASSUME StoreAssumption == None \notin Tenant \cup DevTenant \cup Process \cup Campaign \cup Log

VARIABLES
    settings,   \* the environment: production, url, key
    home,       \* [Run -> the process it runs in, or None]
    selected,   \* [Process -> _use_supabase: "unchecked", "supabase" or "sqlite"]
    tables,     \* the SQLite file has its tables
    tenants,    \* SQLite: the committed tenants
    playbooks,  \* SQLite: the tenants that have a committed playbook
    seeding,    \* [Process -> where _ensure_dev_tenant is]
    draft,      \* [Process -> the tenant of its open transaction, or None]
    given,      \* [Process -> the tenant and playbook it was given, or None]
    local,      \* SQLite: the rows of agent_runs
    hosted,     \* Supabase: the rows of agent_runs
    attempted,  \* [Run -> what its caller has called log_agent_run with, or None]
    logged      \* [Run -> what log_agent_run returned for, or None]

seedVars == <<tables, tenants, playbooks, seeding, draft, given>>
storeVars == <<settings, home, selected, seedVars, local, hosted, attempted, logged>>
vars == <<agentVars, storeVars>>

-----------------------------------------------------------------------------
(* get_supabase.                                                           *)

\* The two settings belong together, and production has no SQLite.
Misconfigured ==
    \/ settings.url # settings.key
    \/ settings.production /\ ~settings.url

Unchecked_FallsBack == IF settings.url THEN {"supabase", "sqlite"} ELSE {"sqlite"}

\* create_client fails, or the client is kept; without settings, SQLite is.
Unchecked == IF settings.url THEN {"supabase", "raises"} ELSE {"sqlite"}

GetSupabase(p) ==
    IF Misconfigured THEN {"raises"}
    ELSE IF selected[p] # "unchecked" THEN {selected[p]} ELSE Unchecked

\* A failed initialisation leaves the choice open.
Selects(p, store) ==
    /\ store \in GetSupabase(p)
    /\ selected' = IF store = "raises" THEN selected
                   ELSE [selected EXCEPT ![p] = store]

-----------------------------------------------------------------------------
(* init_db and _ensure_dev_tenant.                                         *)

InitDb(p) ==
    /\ seeding[p] = "none"
    /\ \E store \in {"supabase", "sqlite", "raises"} :
         /\ Selects(p, store)
         /\ IF store = "sqlite"
            THEN tables' = TRUE /\ seeding' = [seeding EXCEPT ![p] = "look"]
            ELSE UNCHANGED <<tables, seeding>>
    /\ UNCHANGED <<agentVars, settings, home, tenants, playbooks, draft, given,
                   local, hosted, attempted, logged>>

\* SELECT id FROM tenants LIMIT 1, outside a transaction: any of them.
FindTenant(p, t) ==
    /\ seeding[p] = "look"
    /\ t \in tenants
    /\ given' = [given EXCEPT ![p] = [tenant |-> t, playbook |-> t \in playbooks]]
    /\ seeding' = [seeding EXCEPT ![p] = "none"]
    /\ UNCHANGED <<agentVars, settings, home, selected, tables, tenants,
                   playbooks, draft, local, hosted, attempted, logged>>

FindNoTenant(p) ==
    /\ seeding[p] = "look"
    /\ tenants = {}
    /\ seeding' = [seeding EXCEPT ![p] = "absent"]
    /\ UNCHANGED <<agentVars, settings, home, selected, tables, tenants,
                   playbooks, draft, given, local, hosted, attempted, logged>>

WriteLockFree == \A p \in Process : draft[p] = None

\* The first INSERT opens the transaction and takes the write lock.
InsertsTenant(p, t) ==
    /\ seeding[p] = "absent"
    /\ WriteLockFree
    /\ t \notin tenants
    /\ draft' = [draft EXCEPT ![p] = t]
    /\ seeding' = [seeding EXCEPT ![p] = "insert"]

InsertTenant_Committed(p, t) ==
    /\ InsertsTenant(p, t)
    /\ tenants' = tenants \cup {t}
    /\ UNCHANGED <<agentVars, settings, home, selected, tables, playbooks, given,
                   local, hosted, attempted, logged>>

InsertTenant(p, t) ==
    /\ InsertsTenant(p, t)
    /\ UNCHANGED <<agentVars, settings, home, selected, tables, tenants,
                   playbooks, given, local, hosted, attempted, logged>>

\* The second INSERT, and the commit of get_db.
InsertPlaybook(p) ==
    /\ seeding[p] = "insert"
    /\ tenants' = tenants \cup {draft[p]}
    /\ playbooks' = playbooks \cup {draft[p]}
    /\ given' = [given EXCEPT ![p] = [tenant |-> draft[p], playbook |-> TRUE]]
    /\ draft' = [draft EXCEPT ![p] = None]
    /\ seeding' = [seeding EXCEPT ![p] = "none"]
    /\ UNCHANGED <<agentVars, settings, home, selected, tables, local, hosted,
                   attempted, logged>>

\* A statement raises ("database is locked"): get_db rolls back.
SeedFails(p) ==
    /\ seeding[p] # "none"
    /\ seeding' = [seeding EXCEPT ![p] = "none"]
    /\ draft' = [draft EXCEPT ![p] = None]
    /\ UNCHANGED <<agentVars, settings, home, selected, tables, tenants,
                   playbooks, given, local, hosted, attempted, logged>>

-----------------------------------------------------------------------------
(* The runs, each in its process.                                          *)

StartIn(r, p) ==
    /\ Start(r)
    /\ home' = [home EXCEPT ![r] = p]
    /\ UNCHANGED <<settings, selected, seedVars, local, hosted, attempted, logged>>

Call(r) == Calls(r) /\ UNCHANGED storeVars

\* A process ends and starts again: what it remembered and what it had not
\* committed is gone.
Restart(p) ==
    /\ EndOf({r \in Run : home[r] = p})
    /\ selected' = [selected EXCEPT ![p] = "unchecked"]
    /\ seeding' = [seeding EXCEPT ![p] = "none"]
    /\ draft' = [draft EXCEPT ![p] = None]
    /\ given' = [given EXCEPT ![p] = None]
    /\ UNCHANGED <<settings, home, tables, tenants, playbooks, local, hosted,
                   attempted, logged>>

-----------------------------------------------------------------------------
(* log_agent_run and get_campaign_costs.                                   *)

Row(r, log) == [run |-> r, log |-> log, cost |-> result[r].cost]

\* PRAGMA foreign_keys: the tenant of a row exists.
Accepts(t) == tables /\ t \in tenants /\ WriteLockFree

LogToSupabase(r, log, arrives, answers) ==
    /\ hosted' = IF arrives THEN hosted \cup {Row(r, log)} ELSE hosted
    /\ logged' = [logged EXCEPT ![r] = IF arrives /\ answers THEN log ELSE None]
    /\ UNCHANGED local

\* The INSERT and its commit, or an error: a campaign may not exist, for nothing
\* in the repository creates one.
LogToSqlite(r, log, writes) ==
    /\ local' = IF writes /\ Accepts(log.tenant) THEN local \cup {Row(r, log)} ELSE local
    /\ UNCHANGED <<hosted, logged>>

\* The caller logs what the run returned: once, "failures are surfaced".
LogRun(r, log) ==
    /\ result[r] # None
    /\ r \notin lost
    /\ attempted[r] = None
    /\ attempted' = [attempted EXCEPT ![r] = log]
    /\ \E store \in {"supabase", "sqlite", "raises"} :
         /\ Selects(home[r], store)
         /\ \/ /\ store = "supabase"
               /\ \E arrives, answers \in BOOLEAN : LogToSupabase(r, log, arrives, answers)
            \/ store = "sqlite" /\ \E writes \in BOOLEAN : LogToSqlite(r, log, writes)
            \/ store = "raises" /\ UNCHANGED <<local, hosted, logged>>
    /\ UNCHANGED <<agentVars, settings, home, seedVars>>

\* After the commit, log_agent_run returns, unless the process ends before.
Returns(r) ==
    /\ r \notin lost
    /\ logged[r] = None
    /\ \E row \in local : row.run = r
    /\ logged' = [logged EXCEPT ![r] = attempted[r]]
    /\ UNCHANGED <<agentVars, settings, home, selected, seedVars, local, hosted,
                   attempted>>

\* Only the SQLite store answers, if it has its tables.
GetCampaignCosts(p) ==
    /\ \E store \in {"supabase", "sqlite", "raises"} : Selects(p, store)
    /\ UNCHANGED <<agentVars, settings, home, seedVars, local, hosted, attempted,
                   logged>>

Answers(p) == "sqlite" \in GetSupabase(p) /\ tables

\* WHERE tenant_id = ? AND campaign_id = ?: the rows whose tokens and costs the
\* query adds up.  A row without a campaign is in no answer.
Summed(t, c) == {row \in local : row.log = [tenant |-> t, campaign |-> c]}

-----------------------------------------------------------------------------

Init ==
    /\ AgentInit
    /\ settings \in [production : BOOLEAN, url : BOOLEAN, key : BOOLEAN]
    /\ home = [r \in Run |-> None]
    /\ selected = [p \in Process |-> "unchecked"]
    /\ tables = FALSE
    /\ tenants = {}
    /\ playbooks = {}
    /\ seeding = [p \in Process |-> "none"]
    /\ draft = [p \in Process |-> None]
    /\ given = [p \in Process |-> None]
    /\ local = {}
    /\ hosted = {}
    /\ attempted = [r \in Run |-> None]
    /\ logged = [r \in Run |-> None]

Seed(p) ==
    \/ InitDb(p) \/ FindNoTenant(p) \/ InsertPlaybook(p) \/ SeedFails(p)
    \/ \E t \in Tenant : FindTenant(p, t) \/ InsertTenant(p, t)

Next ==
    \/ \E p \in Process : Seed(p) \/ Restart(p)
    \/ \E r \in Run, p \in Process : StartIn(r, p)
    \/ \E r \in Run : Call(r) \/ Returns(r)
    \/ \E r \in Run, log \in Log : LogRun(r, log)
    \/ \E p \in Process : GetCampaignCosts(p)

Spec == Init /\ [][Next]_vars

-----------------------------------------------------------------------------
(* Properties.                                                             *)

\* The tenant a process is given is committed and has its playbook, whoever
\* inserted it and whatever ended in between: the seed is never half there.
SeedIsWhole ==
    \A p \in Process : given[p] # None =>
        given[p].tenant \in tenants /\ given[p].playbook

\* Whenever get_campaign_costs answers, in any process, what it adds up for a
\* campaign holds every run logged for it, at what the answers of its providers
\* cost, and nothing that was not to be logged for it: "A configured store must not
\* fail over silently to an unrelated database".  A run whose process ended between
\* the commit and the return may be in it; its caller never heard.
CostsAreHonest ==
    \A p \in Process, t \in Tenant, c \in Campaign : Answers(p) =>
        LET log == [tenant |-> t, campaign |-> c] IN
        /\ \A r \in Run : logged[r] = log =>
             [run |-> r, log |-> log, cost |-> Bill(r)] \in Summed(t, c)
        /\ \A row \in Summed(t, c) :
             attempted[row.run] = log /\ row.cost = Bill(row.run)
=============================================================================
