# TLA+ models of the Outreached workspace

Outreached ("Lexia") is a prospecting workspace for one user: a list of leads,
an opposition list, campaigns of three drafted messages per lead, sends the user
declares by hand, and a journal. Around it are a browser client, signed sessions,
a login limiter, a PostgreSQL or SQLite store with migration and backup, a
container supervisor, and agents that call language models and log their costs.
This directory holds the TLA+ modules that model them, the TLC configurations
that check them on small instances, and the theorems about them that TLAPS checks
for every instance.

    tlc -workers 2 -config workspace_keys.cfg MCProspecting     # a run
    tlapm ProspectingProofs.tla                                 # the proofs

## 1. The system

| Component | Source | State it keeps | Operations | What makes it correct | Modules |
|---|---|---|---|---|---|
| Workspace rules | `backend/app/prospecting.py`, restated in TypeScript in `frontend/src/lib/workspace-service.ts` | tables `leads`, `suppressions`, `profile`, `campaigns`, `drafts`, `events` | create, batch, CSV import, edit a lead; save the profile; create a campaign; edit, prepare and declare sent a draft; list, detail, export | no two leads share a key; the opposition list and the statuses agree and only grow; one sequence per address; follow-ups in order and spaced; a sent message is frozen; the journal accounts for the rest | Prospecting |
| Transaction layer | `frontend/src/lib/workspace-db.ts`, `backend/app/workspace_store.py` | a pool of one connection per process; PostgreSQL sessions, an advisory lock; or one SQLite file | one transaction per request, writers under the lock | a request is served as if alone; the pool hands out clean connections; the lock is always let go | WorkspaceStore, SerialStore; the validation of the store is in Deployment |
| Login rate limit | `frontend/src/lib/login-rate-limit-core.ts`, `login-rate-limit.ts`, `auth-core.ts`, `app/api/auth/login/route.ts` | one JSON state in PostgreSQL, or two maps in memory | one attempt | the number of attempts is bounded over any interval; a refused user may come back; the state never becomes undecodable | LoginRateLimit |
| Sessions and CSRF | `auth-core.ts`, `auth.ts`, logout and session routes, the two pages | none on the server: a signed cookie; a cached token in each tab | sign in, sign out, authorize, load a page | a session is good on every instance while it is fresh; a stale token is refused once; the tab comes to rest | Session |
| Browser client | `app/campaign/workspace.tsx`, `lib/api.ts` | what each tab has loaded, forms, a prepared message | open, save, prepare, mail, declare sent, prepare a sequence | a late or repeated request does no harm; a declared send was sent; no form overwrites what it never showed | BrowserClient |
| API gateway | `app/api/[...path]/route.ts`, `proxy-policy.ts`, `backend-transport.ts`, `readiness.ts`, `health/route.ts`, `backend/app/main.py` | none | forward or serve a request | a refusal of the gateway's own key never reaches the tab; only listed routes pass | what a tab can tell apart is in Session, the start in Deployment |
| Validation and CSV | `workspace-validation.ts`, `workspace-csv.ts`, the pydantic models | none | check and normalise input | both implementations accept the same input | - (one rule in BackupRestore) |
| Backup and restore | `scripts/workspace_postgres.py`, `scripts/workspace_backup.py` | a backup file, the target store | migrate, back up, restore | a backup is one instant of the store and can be restored; a restore is all or nothing and overwrites nothing; a migration suffices for what starts on it | BackupRestore, Deployment |
| Container supervisor | `scripts/serve_free.py` | two child processes, a stop flag | start, watch, stop | the end of one child ends the service; no child is left | Deployment |
| Agents and LLM routing | `backend/app/agents/base.py`, `llm/*`, `cost_tracker.py` | a result under construction, rows of `agent_runs` | run an agent through a chain of providers, log it, add up | every answer is in the cost; no provider is paid twice; the sum is that of the logged runs | AgentRun, LegacyStore |
| Legacy store access | `backend/app/db/supabase.py` | which store a process uses; SQLite tables, a seeded tenant | select, initialise, seed | no process falls back to another database; a tenant is never half seeded | LegacyStore |
| The rest | RAG, adapters, Celery, CLI, settings, deployment checks | none of interest | wrappers and sequential checks | - | - |

How they interact: the browser calls the gateway with a session cookie and a
CSRF token. The gateway either forwards to the Python service or calls the
TypeScript service in its own process; both run their handler inside one
transaction of the transaction layer. The login route uses the same transaction
layer for the shared limiter. Backup and restore take the same advisory lock as
the writers. The supervisor runs the two servers side by side in one container,
and both refuse a store that migrate would not leave behind. The agents and their
costs live in a store of their own.

What is hard to test here: two writers that check for a duplicate and then
insert; readers that query several times; a COMMIT whose answer is lost; a
ROLLBACK that fails on a connection that goes back to a pool; a frozen process
that holds the lock; opposition, address edits and sequences interleaved over
weeks; two computations of "what may be sent now" that must agree; instances
with different clocks sharing one limiter or one session; stale forms, stale
tokens and requests served after the tab gave up; a backup or a restoration that
stops half-way; signals and deaths of children at the same time; an answer that
was paid for and cannot be read. `PROJECT.json` lists each of these at its line,
with the property that covers it.

## 2. The modules

    SerialStore <--implements-- WorkspaceStore <-- MCWorkspaceStore
                                     ^------------ StoreProofs
    Outreach <--implements-- Prospecting

    Prospecting <-- MCProspecting
        ^  ^  ^---- ProspectingProofs <---------------------.
        |  '------- BrowserClient <-- MCBrowserClient        |
        |               ^------------ BrowserProofs ---------|
        '---------- BackupRestore <-- MCBackupRestore        |
                        ^------------ BackupProofs ----------'
    LoginRateLimit <-- MCLoginRateLimit, LoginProofs
    Session        <-- MCSession, SessionProofs
    Deployment     <-- MCDeployment, DeploymentProofs
    AgentRun <-- LegacyStore <-- MCLegacyStore, AgentProofs

A plain arrow is EXTENDS; "implements" is an INSTANCE with a refinement mapping and the
abstract specification as a property. BrowserClient and BackupRestore are compositions: their steps
contain the handlers of Prospecting as they are. BackupRestore also instantiates
Prospecting twice more, on the tables of the backup file and on those of the store
restored into, to state the workspace's own invariants of them. LegacyStore
composes the runs of AgentRun with the stores their costs go to.

### Prospecting

One variable per table. A lead row keeps the fields some rule reads: the
address, the SIREN, company and city as one "place" (the duplicate rule only
compares them together), whether a source is recorded, `qualified`, `status`.
The three drafts of a lead are one record, because `create_campaign` writes all
three in one transaction and nothing deletes one. The table `events` is kept as
a page per lead that counts what the properties compare: creations, drafted
sequences, the sends in order, and the last event from which a reader can tell the
status: one that names it, or a declared send, which names none but leaves the lead
contacted. `reached` is a history variable: the addresses a lead's declared sends went to.

| Action | Code | Notes |
|---|---|---|
| `create_lead` | `create_lead`, `add_lead` | a duplicate is returned unchanged: a stutter |
| `add_leads` | `add_leads`, called by the batch and import routes | `Kept` says which rows of a batch are inserted: those that clash neither with the table nor with an earlier kept row |
| `update_lead` | `update_lead` | the four refusals are guards, the reset of `qualified` and the opposition inserts are part of the step |
| `save_profile` | `save_profile` | |
| `create_campaign` | `create_campaign`, `build_sequence` | `Selected` is the list `eligible`; the profile is copied into the campaign and the footers |
| `update_draft` | `update_draft` | |
| `mark_sent` | `mark_sent`, `actionable_draft` | |
| `Tick` | `now()` | |

Requests that write nothing (reads, refusals, `prepare_draft`) are stuttering
steps. A handler is one step because it runs in one transaction under the writer
lock; that this is sound is what WorkspaceStore checks. Leads, campaigns and
drafts are never deleted by the code, so neither are they here.

### Outreach

What the user does with leads, imports, edits and campaigns is of no concern to the
people written to. Outreach states what they may rely on: everybody gets at most one
sequence of three messages, in order and spaced by the follow-up delay (`Write`), may
oppose at any time (`Oppose`), and gets nothing afterwards. `IsOutreach` maps an address
to the sends of whichever lead reached it (`LettersTo`), and the opposition list to
those who opposed. The promise is not one of any table: a lead may change its
address, a lead and its address may part before the first send, and only the
history `reached` says to whom a sequence went.

### WorkspaceStore and SerialStore

WorkspaceStore follows `withWorkspace` statement by statement: borrow the pooled
connection, BEGIN with its level, take the lock if the request writes, two reads
of the handler, then its writes or a refusal, COMMIT, and the catch block with its
ROLLBACK and the decision to destroy the connection. The server side is
PostgreSQL's and marked external in the map: a session goes on with the
statement it has after its client gave up, the lock ends with its transaction,
READ COMMITTED reads the newest commit and REPEATABLE READ a snapshot. Any
statement may fail or time out at any point (`QueryFails`), any link may break
(`NetworkCut`), the server may end any session (`EndSession`), a process may
freeze (it takes no more steps). `postgres_connect` of the Python service takes
the same steps; what it does with a failed rollback is the business of
SQLAlchemy's pool.

SerialStore is what handlers and users rely on, strict serializability: a request
begins, looks at the store at one instant after that, and is answered. A writer is
applied on the very store it looked at, with nobody in between; "ok" means applied,
"refused" means never applied, "error" means perhaps, also later, at most once. So
whoever begins after another was answered sees what that one did. The refinement
`IsSerial` maps the beginning of a request to getting a connection, the view of a
writer to its first read, and that of a reader to the store at its BEGIN. READ
COMMITTED for writers is essential: with a snapshot taken before the lock wait the
refinement fails, which is the mutant of this property. REPEATABLE READ for readers
is as essential: with READ COMMITTED for everybody two queries of one answer see two
stores, the mutant of `AnswersAreCurrent`, which says of every answer that is not an
error what SerialStore implies for it.

### BrowserClient

One tab on one lead, composed with Prospecting, which every other tab and client
goes on changing (`Others`, `OthersSend`). `shown` is the copy of the lead the last
GET returned, `prepared` the message the editor holds ready, `call` the request
that keeps the tab busy, `late` the requests it gave up on that the server may
still execute. `mailed`, `decided` and `toldOpposed` are history variables.

| Action | Code |
|---|---|
| `OpenLead`, `CloseLead`, `ShowDetail` | opening and closing the detail dialog; GET `/leads/{id}/detail` and its answer; `LeadDetail` is keyed by `updated_at` |
| `SaveLead` | `LeadForm`: PUT of the whole record with the status it was opened with, or another one |
| `PrepareMessage`, `prepare_draft` | the button `actionable` enables (`CanPrepare`, by the browser's clock), and POST `/drafts/{id}/prepare` |
| `SendMail`, `DeclareSent` | the mailto link and the user's mail client; POST `/drafts/{id}/mark-sent` |
| `RequestCampaign` | POST `/campaigns` for this lead |
| `Answered` | the server executes the request (`Serve` is the handler of Prospecting) and the tab learns it |
| `GiveUp`, `ServeLate` | `AbortSignal.timeout(25_000)`, a refusal or a broken connection; the server may still execute the write, later |

That `Serve` and the answer are one step hides nothing: an answer that does not
come is `GiveUp` followed by `ServeLate`, and the copy of the tab may be made stale
by the others at any time.

The button compares `next_action_at` with the browser's own clock as it was when the
tab was last rendered (`BrowserTime`), the server compares with its own: the browser's
may be behind or ahead by `ClockSkew`. The creation of a lead, from which a sequence
that was not started is due, is time 0 here. The user is assumed to declare only what
was mailed: `DeclareSent` needs a prepared message that `SendMail` sent.

### BackupRestore

The workspace of Prospecting goes on while `backup` reads it table by table
(`BeginBackup`, `ReadTable`), creates its file (`CreateFile`, O_EXCL: an existing file
stays), completes or removes it (`FinishFile`), or is killed in between
(`BackupCrashes`). `copy_workspace` is the SQLite variant. Several processes run
`restore` on one target: `ReadBackup` validates the file (`read_backup`),
`BeginRestore` takes the lock and looks for rows, `InsertTable` goes through the six
tables, `CommitRestore` makes them visible, `RestoreFails` is any failure or crash
before that. The application of the target may write too (`TargetWrites`). A lead
has one more field than in Prospecting, the length of its website: validation
makes it longer than what was submitted (`valid_website`), and the restoration
validates it again. A profile saved with nothing but its defaults is the same as none
in the model, so a target that holds only that counts as empty here.

### Session

One tab of a browser whose other tabs sign in and out. The server keeps nothing:
each instance decides from the cookie, its own clock (`ahead`) and its own
credentials, which a redeployment replaces one instance at a time (`Redeploy`). A
MAC is modelled by what it proves: a session names the credentials it was signed
under, a CSRF token is the session it was derived from.

| Action | Code |
|---|---|
| `Start`, `TokenArrives` | `api()` and `headers()` of `api.ts`: the token is fetched once and cached; the write leaves with the cookie of that later moment |
| `SubmitPassword`, `LoggedIn` | the login form and its answer |
| `Login` | the login route on one instance: `createSession`, or a failure |
| `Authorize` | `authorize` and `verifySession` on one instance, the first thing the other routes do; session and logout answer at once |
| `Handled` | what the gateway does after its awaits on the body and on the store or backend: `protect_workspace`, whose 401 and 403 it turns into a failure |
| `Unauthorized`, `LoggedOut`, `Forbidden`, `Done`, `Fail` | what the tab does with an answer: go to the sign-in page, forget the token, show an error |
| `Load`, `Visit` | the two pages, which redirect to each other by the same test (`hasPageSession`) |
| `CookieRemoved`, `SignedInElsewhere`, `Tick` | the other tabs, Max-Age and time |

A session is looked at once, before the body is read (`route.ts:19`). Between
`Authorize` and `Handled` it may end, by time, sign-out or redeployment, and the write
is made all the same; the code promises nothing else, and neither does a property.

### Deployment

The start of the combined container on the store that `migrate` prepared. `store` is
the catalogue as far as the three programs look at it: the role and whether it can log
in, the schema version, ownership, privileges, whether the tables are ordinary ones,
and the state of the login limiter. `Inspect`, `Migrate`, `MigrationFails` are
`migrate`, one transaction under the writer lock. An administrator of the database
takes no lock and alters what each step of a migration looks at
(`AlterRole`, `AlterGrants`, `AlterObjects`) or what none does (`AlterContent`).
`init_workspace` (backend) and `validateWorkspace`
(frontend) are the conditions the two servers check by themselves. The supervisor
is `supervise` and `stop_children`: `StartContainer`, `Spawn`, `Poll`, `StopSeen`,
`SendTerm`, `DeadlinePasses`, `Reap`, `Exit`, with `Signal` at any time and children
that start, die or ignore SIGTERM as they like (`ChildStarts`, `ChildDies`).

### AgentRun and LegacyStore

AgentRun is `BaseAgent.run`: `Start` takes the chain of configured providers
(`Preferred`, then DeepSeek, Kimi, Anthropic, each once), and each call is `Answered`,
`Unparsable` (counted, and then the parser raises) or `CallFails`; the loop goes on
with the next provider or ends (`FailOver`). `Usage` says what each provider's answer
reports (`_parse_response` of `provider.py`: two of the three count a missing usage
as nothing) and `Price` what it costs. `heard` is a history variable. Input and
output tokens are one amount, and the rounding of a total to a millionth of a euro
is left out.

LegacyStore adds where the costs go: `get_supabase` selects a store once per process
(`Selects`), `init_db` seeds a development tenant in SQLite (`InitDb`, `FindTenant`,
`FindNoTenant`, `InsertTenant`, `InsertPlaybook`, `SeedFails`), `log_agent_run` stores a
row (`LogRun`) and, in SQLite, returns after its commit (`Returns`), so a process may end
in between with a row nobody was told of. `get_campaign_costs` adds up the rows of one
campaign of one tenant (`GetCampaignCosts`, `Summed`); a run logged without a campaign, the
default, is in no answer. A process may end at any step and start again (`Restart`). In the source no code but
the tests calls `log_agent_run`: the caller of the model is the one its documentation
describes, which logs each run it was given once.

### LoginRateLimit

Both limiters of the login route, chosen by `backend`: `nextLoginRateLimit` over
the state in PostgreSQL, called by instances whose clocks are off by at most
`Skew`; and `allowLoginAttempt` over two in-memory maps of one process with one
clock. An attempt is one step, since the first runs under the writer lock and
the second has no await. `granted` is a history variable: how many attempts of
each source passed at each age, over the last `Window - 2 * Skew` ticks, as long
as a window certainly lasts. A counter above its limit is only compared with
it, so the in-memory counters stop at limit + 1.

## 3. Runs

| Run | Bounds | Distinct states |
|---|---|---|
| `workspace_keys` | 3 leads, 2 addresses and none, 1 SIREN and none, 2 places, batches of 2, no campaign | 18,017 |
| `workspace_sequences` | 2 leads, 2 addresses and none, 2 campaigns, 1 text, delay 2, clock to 4 | 159,520 |
| `workspace_drafts` | 1 lead, 2 texts, 2 campaigns, delay 2, clock to 4 | 7,840 |
| `store_serial` | 2 processes, 2 writers and 1 reader, 2 sessions | 594,802 |
| `login_rate_limit` | 3 sources, 2 places, limits 3 and 2, window 4, skew 1, clock to 8 | 94,515 |
| `browser_tab` | 1 lead, 2 addresses, 1 campaign, 1 late request, delay 1, clock to 1, browser ahead by 1 | 421,872 |
| `browser_stale_form` | the same with the status "replied" | ends at a violation |
| `backup_restore` | 1 lead, 1 address, 1 campaign, 2 restorations, no clock | 440,304 |
| `backup_refused` | the same with 1 restoration and a website of 993 characters | ends at a violation |
| `session` | 2 instances, lifetime 2, tolerance 1, skew 1, clock to 3, 2 sessions | 335,766 |
| `deployment` | 2 children, 1 process that migrates | 260,852 |
| `agent_costs` | 1 run, 2 processes, 2 tenants, 1 campaign and none, 3 agent types | 295,322 |

### Why these are enough

* *Workspace.* A clash is between two leads, and a chain through a rejected row
  needs a third: `workspace_keys` has three, and keys enough for two rows to clash
  by any one rule alone. A delay of 2 and a clock to 4 let a sequence of three
  messages finish with nothing to spare and leave room for a send to be too
  early by one.
* *Store.* One reader and one writer share a process and its pooled connection, so
  what a failed request leaves behind meets the next one; the other writer
  competes from another process. Two sessions let an abandoned session live
  beside the one that replaces it.
* *Limiter.* The limits differ from each other and from the number of sources, so
  that each of the three refusals is decisive somewhere, and the clock covers the
  end of a window and the whole next one.
* *Browser.* An address that changes needs two; one request given up on and still
  unserved is enough to be overtaken by those after it; with a delay and a clock
  of 1 two of the three steps of a sequence become due one after the other.
* *Backup.* What a torn backup breaks is visible on one lead: its row, its address
  on the opposition list, its drafts, its journal. Two restorations and the
  application compete for the target.
* *Session.* With a lifetime of 2, a tolerance and a skew of 1 a session can be
  refused too early, too late, and at its first moment; two sessions are a cookie
  and the one a token was derived from.
* *Deployment.* A child can be alive while the other is dead, and a `Popen` can fail
  between the two. Migrations exclude each other by the lock, so one process that
  migrates again and again, and an administrator beside it, meet every state.
* *Agents.* Runs share nothing but the store, so one run has every set of keys and
  every order of failures; two processes are needed to race for the tenant and to
  write what the other reads. `AgentProofs` covers several runs.

Every one of these bounds is a CONSTANT, and the theorems of section 4 hold for
all of them.

`CHECK_DEADLOCK FALSE` is set where the modelled system comes to its end: the
requests of `store_serial`, the sessions and the time of `session`, the runs of
`agent_costs` are finitely many. Symmetry is used in runs of safety and action
properties only, for values the configuration gives every role alike; the runs
with liveness properties use none.

### What the runs show

* `KeysUnique`, `OppositionAgrees`: whatever the order of creations, imports and
  edits, no two leads share a key, and a lead is "do_not_contact" exactly when its
  address is opposed.
* `OneSequencePerAddress`: nobody is written to twice, from two leads or at two
  addresses.
* `FollowUpsSpaced`, `NextActionIsHonest`: sends are in order and spaced, and the
  list shows a step as due exactly when the server would accept it.
* `JournalAccounts`, `CampaignsAreWhole`: the history and the campaigns agree
  with the drafts and the statuses.
* `OppositionIsFinal`, `SentIsFrozen`: opposition is never undone, and a declared
  message never changes.
* `IsOutreach`: all this seen from the people written to. Edits may move an address from
  lead to lead, but no address gets a second sequence, a message too early, or one
  after it opposed.
* `PoolIsClean`, `WritesAreLocked`, `IsSerial`, `AnswersAreCurrent`: failures included,
  the transaction layer is a strictly serializable store, and nobody is answered from
  a store that is torn or older than the request; `LockIsFreed`: the lock cannot be kept by a client that
  froze or vanished.
* `StaysDecodable`, `GrantsBounded`, `RetryIsHonoured`, `ThrottledTakesNothing`:
  the limiter bounds what passes, forgives in time, never corrupts its state, and the
  attempts of a throttled source use up nothing of what the others have or share. They
  may open the next shared window, which then ends at a moment they chose; nothing is
  claimed of decisions that depend on it.
* `DeclaredWasMailed`, `ToldOppositionHolds`, `ButtonIsHonest`: with an old
  copy, late requests and other tabs at work, what is declared sent was mailed to
  the address on record; a tab that was told of an opposition offers no message;
  on an up-to-date copy the tab and the server agree on what comes next but for their
  clocks, although they compute it from different data: a browser whose clock is not
  behind offers what the server accepts, one whose clock is not ahead nothing else.
* `FileIsOneMoment`, `TargetIsConsistent`, `NeverOverwritten`: a backup holds tables of
  one instant, the target satisfies the workspace's own invariants in every state,
  and no restoration changes a store that holds something.
* `FreshSessionAccepted`, `NeverRefusedTwice`, `TabSettles`: a fresh
  session is good on every instance, a stale token costs one refusal, and the two pages do not send a tab to and fro for ever.
* `NoOrphans`, `ServiceEnds`, `MigrationSuffices`: no child outlives the supervisor,
  the death of one or a signal ends the service. On what a completed `migrate` left
  the backend starts exactly when the role can log in, and the frontend works
  exactly when, besides, the limiter's state is readable and the tables are ordinary
  ones: these three `migrate` takes as it finds them.
* `UsageIsComplete`, `FallsBackOnce`, `SeedIsWhole`, `CostsAreHonest`: every answer is in
  the bill, no provider is asked twice, no tenant is half seeded, and the answer for
  a campaign holds every run logged for it and nothing that was not to be.

### Two disagreements

* `browser_stale_form`. The campaign view tells its user that a reply, a meeting or
  an opposition stops the follow-ups (`workspace.tsx:157`). `LeadForm` submits the
  whole record with the status it was opened with, and `update_lead` writes it.
  The trace: a form is opened, a reply is recorded in another tab, the first form
  is saved, and the next follow-up is due again. An opposition does hold, because
  `update_lead` refuses to undo one.
* `backup_refused`. `docs/audit/PRODUCTION_BASELINE.md:45` promises a backup of six
  tables and its restoration. `valid_website` (`prospecting.py:98`) puts `https://` in
  front of a website after the limit of 1000 characters was checked, so 993 to
  1000 characters without a scheme become 1001 to 1008, and `read_backup`, which
  validates every lead with the same model, refuses the whole file.

### Fairness

* `LockIsFreed` needs the server only (`ServerSpec`), not the clients, which may
  freeze. The transaction sets `idle_in_transaction_session_timeout`, `lock_timeout`
  and `statement_timeout`: a session that waits for its client in a transaction is
  eventually ended (weak fairness of `EndSession` while `AwaitsClient`), a lock
  statement comes back, and so does a COMMIT.
* `TabSettles` needs weak fairness of `Respond` (`AbortSignal.timeout(25_000)` on every
  call of `api.ts`, and what the tab then does by itself; the server owes it nothing) and of `Load` (a navigation ends). The user owes nothing.
* `ServiceEnds` needs weak fairness of `Supervise`: the loop polls every 0.2 s and
  its wait has a deadline, after which it kills. The children owe nothing.
* Nothing is claimed to end in AgentRun: the time limits of the HTTP client are per
  phase of a call, so a provider that trickles bytes is not bounded by them.

## 4. Proofs

Every invariant, action property and refinement the passing runs check is proved,
`BackupRestore`'s, `BrowserClient`'s and `LegacyStore`'s included; only liveness is not. The
`TypeOK` of WorkspaceStore and of Session are proved and therefore in no run.

Each component's theorems are in a module of their own and hold for every value of
its constants under the named assumptions of the component's module
(`DataAssumption`, `BoundAssumption`, `StoreAssumption`, ...: None is no value of a
column, forms have the shape of `LeadInput`, limits are positive, sets that are
counted are finite). TLC evaluates those assumptions in the runs.

### ProspectingProofs: all properties of the workspace

| Theorem | Property | Argument |
|---|---|---|
| `TypeCorrect` | `TypeOK` | one step per handler |
| `KeysStayUnique` | `KeysUnique` | restated as "no two known leads clash" (`NoClash`), which is inductive with the types: a new row is checked against the table, the rows of a batch also against each other, an edited row against all others |
| `OppositionIsConsistent` | `OppositionAgrees` | not inductive alone: opposing a lead's address would leave any other lead with that address behind. There is none, by `KeysUnique`; so the invariant is their conjunction |
| `NobodyIsApproachedTwice` | `OneSequencePerAddress` | strengthened by `ReachedIsPresent`: whatever address a lead reached is its present one, because an address may change only while the lead has no drafts, hence no sends; then uniqueness of keys separates two leads |
| `FollowUpsStaySpaced` | `FollowUpsSpaced` | a send is accepted only after all earlier steps and the delay; other steps leave the times alone, and a campaign only writes where there were no drafts (`SequencesStay`) |
| `NextActionStaysHonest` | `NextActionIsHonest` | follows from the spacing of the sends and the agreement on oppositions: the list's count of sends and the server's search for the first unsent step then meet |
| `JournalKeepsAccount` | `JournalAccounts` | per lead (`PagesAccount`): a page changes only with its lead's row or sequence |
| `CampaignsStayWhole` | `CampaignsAreWhole` | a campaign is written with its sequences, none of which is written again |
| `OppositionStaysFinal` | `OppositionIsFinal` | step by step from the types: the list only grows, a batch never touches a known lead, an edit and a declared send each refuse an opposed one |
| `SentStaysFrozen` | `SentIsFrozen` | step by step from the types: a campaign only writes where there is no sequence, an edit and a send only touch a step that is not sent |
| `WorkspaceIsOutreach` | `IsOutreach` | the refinement of Outreach. A send is a `Write` to the lead's present address: no lead reached it before, by `OneSequencePerAddress`, or this lead did, with the earlier steps; its spacing is that of `FollowUpsSpaced`. Every other step leaves `LettersTo` alone, since what was sent is recorded in `reached` (`SentIsReached`) and a new sequence is unsent (`NewSequenceUnsent`) |
| `ImportIsDetermined` | | `Kept` defines the rows an import keeps by a condition that mentions itself; for every batch and table exactly one set satisfies it |
| `ImportIsRowByRow` | | importing one more row keeps the same of those before it, and that row exactly when `create_lead` would accept it in the table they leave behind. So, row by row, an import is its leads created one after another |

The two theorems about imports are inductions over the rows. An induction theorem
cannot be instantiated here, so they are told with a least counterexample: a set of
naturals that is not empty has a least element (`LeastNatural`, from the
well-foundedness of `<`), and the least length without a result, or the least row on
which two results differ, contradicts the one before it (`LoopEnds`, `LoopEndsOneWay`).

The lemmas the steps share (`NewRowIsRow`, `NewRowClash`, `AddLeadsRows`,
`ClashSymmetric`, `SequencesStay`, ...) are stated once in that module, and reused by
BrowserProofs and BackupProofs.

### StoreProofs: safety, and the refinement

`StoreTypeCorrect`, `WritersAreAlone` and `PoolStaysClean` rest on `StoreInv`: a process
owns the connection it works on (`OneOwner`), a closed session holds nothing
(`ClosedIsFree`), and each step of `withWorkspace` finds its session in the condition
it assumes, while the session lives (`Stages`). Without `Stages` neither property is
inductive: a connection goes back to the pool on the word of the client alone.

`LayerIsSerial` proves `Spec => IsSerial`, the refinement of SerialStore. `DataInv` says
what a request knows at each step: its writes wait for COMMIT on top of the store
it read (`Pending`), an applied writer had read exactly what precedes it (`Past`), it
is applied once (`Once`), and what it read is a view a serial store could have shown
(`Works`, `Views`). From it every step of the layer is proved to be a `Begin`, a `Look`, an
`Apply` or an answer of the serial store, or a stutter.

`AnswersStayCurrent` adds that the stores a request has met came one after the other:
the one at its BEGIN, the one it read, the present one (`InOrder`, inductive with
`DataInv`, because the store only ever grows by a commit). With `Views`, both reads are of
one store, and with `Past`, a writer was applied right after the one it read.

### The others

| Theorems | Argument |
|---|---|
| `GrantsStayBounded` (LoginProofs) | for each source, and for all together: what passed certainly inside the present window is at most what its bucket counted, and the whole history holds at most one limit more (`Line`). When a window has ended by any clock, all of the history lies inside it (`WindowOver`), so the next one starts with at most one limit behind it. What is bounded is the cardinality of a set of attempts (`Grants`), which an attempt adds one element to and time shifts, so no sum, and no induction over one, is needed (`GrantInv`) |
| `AlwaysDecodable`, `RetryStaysHonoured`, `ThrottledTakesNone` (LoginProofs) | the state stays a table within capacity (`Table`), with counts decodeState accepts (`Counted`), and every window in it ends within a window plus the clock difference (`EndsBy`): a cardinality argument for the first, and for the last a comparison of the two states a throttled attempt separates |
| `DeclaredStaysMailed`, `OppositionIsHeard`, `ButtonStaysHonest` (BrowserProofs) | on top of the workspace's invariants: whoever has a prepared message has a sequence, so the address can no longer change (`PreparedIsPresent`), and every declaration under way was mailed (`DeclarationsAreTrue`); a save closes the message before its answer can tell of an opposition (`SaveClears`, `ToldIsOpposed`); an up-to-date copy is the server's row (`CopyAgrees`) |
| `TabIsAWorkspace` (BrowserProofs), `SourceIsAWorkspace` (BackupProofs) | each step of the composition is one of Prospecting or leaves its tables alone; so every theorem about Prospecting, `WorkspaceIsOutreach` among them, holds behind a browser whose requests come late, and of a workspace that is being backed up |
| `BackupTypesHold` (BackupProofs) | the types of the six tables (`Typed`) are carried from the source through snapshot and file to the rows of each restoration, table by table (`TypedByTable`, `TypesInv`) |
| `BackupIsOneMoment`, `TargetStaysWhole`, `NothingIsOverwritten` (BackupProofs) | consistency of six tables is proved of the source from the workspace's invariants (`SourceInv`), carried through the snapshot and the file (`ReadingInv`, `FileInv`) to the rows of each restoration; one that holds the lock is alone and its target empty (`RestoreInv`) |
| `SessionTypes`, `SessionsAreAccepted`, `RefusedAtMostOnce` (SessionProofs) | a session's times bound the moment its password was given, whichever instance signed it (`SessionsSound`); after a refusal the tab caches and sends the refused cookie's own token for as long as it has that cookie (`RefusalsSound`) |
| `DeploymentTypes`, `NobodyLeftBehind`, `MigrationIsEnough` (DeploymentProofs) | a child leaves the list of those to wait for only when it has ended (`Reaped`); from its first check on, unless an administrator undid what it checked, a migration has a role without rights of its own, and once completed the version, owners, grants and limiter row it leaves (`Settled`) |
| `BillIsComplete`, `AskedOnce`, `StoreKeepsRuns`, `SeedStaysWhole`, `CostsStayHonest` (AgentProofs) | the first two for AgentRun (`CostIsHeard`, `AskedInv`); `StoreKeepsRuns` shows that LegacyStore implements AgentRun; every process that selected a store selected the one the settings name, and a row there was attempted with its campaign and costs what its run heard, whether or not its caller was told (`CostsInv`); a process knows a tenant only once it is committed with its playbook (`SeedInv`) |

### Only model-checked

* The two violated properties, `AnswersStopFollowUps` and `FinishedBackupsRestore`, which
  the code does not have.
* The liveness properties `LockIsFreed`, `TabSettles` and `ServiceEnds`, which
  need ENABLED and fairness.

No module declares a RECURSIVE operator.

## 5. Plan

Done, in the order in which other parts rest on it: the workspace rules and the
store below them, the limiter, the browser on top of the workspace, the backup
beside it, the sessions, the container, the agents. What would come next:

1. The SQLite variant of the transaction layer with its busy timeout, as a second
   implementation of SerialStore.
2. Two tabs that share a cookie composed with two that share a lead (Session with
   BrowserClient).

## 6. Not modelled

* SQLite's own transactions: BEGIN IMMEDIATE gives the same serial writers on one
  file; its busy timeout and WAL are the library's. BackupRestore relies on them
  for `copy_workspace`.
* `add_leads` as a loop with its three dictionaries: `Kept` says which rows it inserts, not
  in which order it looks (`ImportIsRowByRow` shows that the order of the rows is the
  order of the decisions).
* Text: templates, CSV parsing, address formats, escaping, sorting and wording.
  A draft is a text value, and what `build_sequence` writes is `Template`.
* Case folding: `lower()` differs between the databases for some letters; a place
  stands for the pair as the database compares it.
* The public company search, a stateless query to another service; the company
  dialog, the CSV dialog and the filters of the browser.
* `campaign_runner`, a preview that stores nothing; prompts and the text of answers;
  the playbook store and its seed script, one statement per call.
* The gateway's list of routes, body limits and headers; `validateWorkspace` inside a
  request, which only adds one more reason for it to fail before its handler
  starts (its condition is in Deployment).
* The limiter's hashing of a source, the password check after its decision, and the
  restart of the process that holds the in-memory limiter, which forgets.
* Which exit status a container has. `supervise` (`serve_free.py:98`) says that it returns
  non-zero when any child exits unexpectedly; when a stop request and a child's death
  fall into one polling interval, it returns 0 without looking at the children again
  (`StopSeen`). No property is about the status.
* Email adapters, Celery tasks and the command line: wrappers of one call with no
  state of their own. Configuration, smoke tests and the verification of the
  container: sequential checks that end at the first failure.
