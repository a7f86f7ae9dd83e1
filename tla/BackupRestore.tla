--------------------------- MODULE BackupRestore ---------------------------
(***************************************************************************)
(* Backups of a workspace in use and their restoration into another store: *)
(* scripts/workspace_postgres.py (backup, restore: a JSON file) and        *)
(* scripts/workspace_backup.py (a copy of the SQLite file).                *)
(*                                                                         *)
(* The source goes on changing as Prospecting says.  A lead has one more   *)
(* field here, the length of its website: the only field whose validation  *)
(* makes it longer than what was submitted.                                *)
(*                                                                         *)
(* The two programs read, write and insert table by table, and may crash   *)
(* between any two steps.  A file that was not finished does not parse (or *)
(* is not an Outreached database) and is refused.  There is one path for   *)
(* the file, which neither program ever overwrites.                        *)
(***************************************************************************)
EXTENDS Prospecting

CONSTANTS
    Restorer,       \* processes that may run restore on the one target
    MaxWebsite,     \* Field(max_length=1000)
    Websites        \* lengths a user submits, without "https://"

SchemeLength == 8   \* "https://"

ASSUME WebsiteAssumption ==
    /\ MaxWebsite \in Nat
    /\ Websites \subseteq 0..MaxWebsite

\* What the six tables may hold; a record of all of them is not None.
TableRows ==
    <<Profile, [LeadId -> LeadRow \cup {None}] \X [LeadId -> Nat], SUBSET Email,
      [CampaignId -> Profile \cup {None}], [LeadId -> Sequence \cup {None}],
      [LeadId -> JournalPage]>>

TableSet ==
    [profile : TableRows[1], leads : TableRows[2], suppressions : TableRows[3],
     campaigns : TableRows[4], drafts : TableRows[5], events : TableRows[6]]

ASSUME TableAssumption == None \notin TableSet

WORKSPACE_TABLES ==
    <<"profile", "leads", "suppressions", "campaigns", "drafts", "events">>

VARIABLES
    website,    \* column website of table leads: [LeadId -> length]
    reading,    \* backup(): None, or the transaction's view and the rows so far
    file,       \* the destination: None, or its rows and whether it is finished
    target,     \* the store restored into: its six tables
    restoring   \* [Restorer -> None, or the rows read and the tables inserted]

backupVars == <<reading, file>>

restoreVars == <<target, restoring>>

allVars == <<vars, website, backupVars, restoreVars>>

\* The six tables of the source.
Tables ==
    [profile |-> profile, leads |-> <<leads, website>>, suppressions |-> suppressed,
     campaigns |-> campaigns, drafts |-> drafts, events |-> journal]

EmptyTables ==
    [profile |-> DefaultProfile,
     leads |-> <<[l \in LeadId |-> None], [l \in LeadId |-> 0]>>,
     suppressions |-> {},
     campaigns |-> [c \in CampaignId |-> None],
     drafts |-> [l \in LeadId |-> None],
     events |-> [l \in LeadId |-> BlankPage]]

-----------------------------------------------------------------------------
(* The source.                                                             *)

\* Field(max_length) looks at what was submitted, valid_website puts the scheme
\* in front of it afterwards.
valid_website(length) ==
    IF length = 0 THEN 0 ELSE length + SchemeLength

SourceCreate ==
    \E l \in LeadId, input \in LeadInputs, length \in Websites :
        /\ create_lead(l, input)
        /\ website' = [website EXCEPT ![l] = valid_website(length)]
        /\ UNCHANGED <<backupVars, restoreVars>>

\* The form sends the stored website again, or another one.
SourceUpdate ==
    \E l \in LeadId, input \in LeadInputs, status \in Status :
        /\ update_lead(l, input, status)
        /\ \/ website[l] <= MaxWebsite /\ UNCHANGED website
           \/ \E length \in Websites :
                website' = [website EXCEPT ![l] = valid_website(length)]
        /\ UNCHANGED <<backupVars, restoreVars>>

SourceChange ==
    /\ SaveProfile \/ CreateCampaign \/ MarkSent
    /\ UNCHANGED <<website, backupVars, restoreVars>>

-----------------------------------------------------------------------------
(* backup                                                                  *)

\* connect(write=False): REPEATABLE READ, or a deferred SQLite transaction.
BeginBackup ==
    /\ reading = None
    /\ reading' = [view |-> Tables, rows |-> <<>>]
    /\ UNCHANGED <<vars, website, file, restoreVars>>

\* What SELECT * FROM table returns inside the transaction.
Seen_Committed(t) == Tables[t]

Seen(t) == reading.view[t]

\* snapshot(): one SELECT per table.
ReadTable ==
    /\ reading # None
    /\ Len(reading.rows) < Len(WORKSPACE_TABLES)
    /\ reading' = [reading EXCEPT
                     !.rows = Append(@, Seen(WORKSPACE_TABLES[Len(@) + 1]))]
    /\ UNCHANGED <<vars, website, file, restoreVars>>

\* O_CREAT | O_EXCL: an existing file ends the backup and stays as it is.
CreateFile ==
    /\ reading # None
    /\ Len(reading.rows) = Len(WORKSPACE_TABLES)
    /\ reading.view # None
    /\ IF file = None
       THEN /\ file' = [rows |-> reading.rows, whole |-> FALSE]
            /\ reading' = [reading EXCEPT !.view = None]
       ELSE /\ reading' = None
            /\ UNCHANGED file
    /\ UNCHANGED <<vars, website, restoreVars>>

\* json.dump, flush and fsync end well, or raise and the file is removed.
FinishFile ==
    /\ reading # None /\ reading.view = None
    /\ reading' = None
    /\ file' \in {None, [file EXCEPT !.whole = TRUE]}
    /\ UNCHANGED <<vars, website, restoreVars>>

\* The process is killed: what it wrote stays.
BackupCrashes ==
    /\ reading # None
    /\ reading' = None
    /\ UNCHANGED <<vars, website, file, restoreVars>>

\* copy_workspace: creates the file, and the backup API copies the committed
\* pages under one read lock before anything can change them.
copy_workspace ==
    /\ reading = None
    /\ file = None
    /\ file' \in {[rows |-> [i \in DOMAIN WORKSPACE_TABLES |-> Tables[WORKSPACE_TABLES[i]]],
                   whole |-> done] : done \in BOOLEAN}
    /\ UNCHANGED <<vars, website, reading, restoreVars>>

-----------------------------------------------------------------------------
(* restore                                                                 *)

\* The checks of read_backup a file of this program may fail: it is finished,
\* and LeadUpdate accepts every lead and returns it unchanged.
ValidRows(rows) ==
    \A l \in LeadId : rows[2][2][l] <= MaxWebsite

read_backup ==
    file # None /\ file.whole /\ ValidRows(file.rows)

ReadBackup(p) ==
    /\ restoring[p] = None
    /\ read_backup
    /\ restoring' = [restoring EXCEPT ![p] = [rows |-> file.rows, done |-> None]]
    /\ UNCHANGED <<vars, website, backupVars, target>>

\* The session that holds the writer lock.
Locked == {p \in Restorer : restoring[p] # None /\ restoring[p].done # None}

Populated(tables) == tables # EmptyTables

\* postgres_connect takes the lock (BEGIN IMMEDIATE does too), and only then
\* every table is looked at: one row in any of them refuses the restoration.
BeginRestore_Unchecked(p) ==
    /\ restoring[p] # None
    /\ restoring[p].done = None
    /\ Locked = {}
    /\ restoring' = [restoring EXCEPT ![p].done = 0]
    /\ UNCHANGED <<vars, website, backupVars, target>>

BeginRestore(p) ==
    /\ restoring[p] # None
    /\ restoring[p].done = None
    /\ Locked = {}
    /\ restoring' = [restoring EXCEPT ![p] = IF Populated(target) THEN None
                                             ELSE [@ EXCEPT !.done = 0]]
    /\ UNCHANGED <<vars, website, backupVars, target>>

\* The tables the first n inserts filled.
Inserted(rows, n) ==
    [t \in DOMAIN EmptyTables |->
        IF \E i \in 1..n : WORKSPACE_TABLES[i] = t
        THEN rows[CHOOSE i \in 1..n : WORKSPACE_TABLES[i] = t] ELSE EmptyTables[t]]

InsertTable_OneMore(p) ==
    /\ p \in Locked
    /\ restoring[p].done <= Len(WORKSPACE_TABLES)
    /\ restoring' = [restoring EXCEPT ![p].done = @ + 1]
    /\ UNCHANGED <<vars, website, backupVars, target>>

InsertTable_Autocommit(p) ==
    /\ p \in Locked
    /\ restoring[p].done < Len(WORKSPACE_TABLES)
    /\ restoring' = [restoring EXCEPT ![p].done = @ + 1]
    /\ target' = Inserted(restoring[p].rows, restoring[p].done + 1)
    /\ UNCHANGED <<vars, website, backupVars>>

InsertTable(p) ==
    /\ p \in Locked
    /\ restoring[p].done < Len(WORKSPACE_TABLES)
    /\ restoring' = [restoring EXCEPT ![p].done = @ + 1]
    /\ UNCHANGED <<vars, website, backupVars, target>>

CommitRestore(p) ==
    /\ p \in Locked
    /\ restoring[p].done = Len(WORKSPACE_TABLES)
    /\ target' = Inserted(restoring[p].rows, restoring[p].done)
    /\ restoring' = [restoring EXCEPT ![p] = None]
    /\ UNCHANGED <<vars, website, backupVars>>

\* A failed statement, a lost connection, a killed process: rolled back.
RestoreFails(p) ==
    /\ restoring[p] # None
    /\ restoring' = [restoring EXCEPT ![p] = None]
    /\ UNCHANGED <<vars, website, backupVars, target>>

\* The application of the target store: here a PUT /profile.
TargetWrites ==
    /\ Locked = {}
    /\ \E p \in Profile : target' = [target EXCEPT !.profile = p]
    /\ UNCHANGED <<vars, website, backupVars, restoring>>

-----------------------------------------------------------------------------

BackupInit ==
    /\ Init
    /\ website = [l \in LeadId |-> 0]
    /\ reading = None
    /\ file = None
    /\ target = EmptyTables
    /\ restoring = [p \in Restorer |-> None]

BackupNext ==
    \/ SourceCreate
    \/ SourceUpdate
    \/ SourceChange
    \/ BeginBackup
    \/ ReadTable
    \/ CreateFile
    \/ FinishFile
    \/ BackupCrashes
    \/ copy_workspace
    \/ \E p \in Restorer :
         \/ ReadBackup(p)
         \/ BeginRestore(p)
         \/ InsertTable(p)
         \/ CommitRestore(p)
         \/ RestoreFails(p)
    \/ TargetWrites

BackupSpec == BackupInit /\ [][BackupNext]_allVars

-----------------------------------------------------------------------------
(* Properties.                                                             *)

AreRows(rows) == \A i \in DOMAIN rows : rows[i] \in TableRows[i]

BackupTypeOK ==
    /\ website \in [LeadId -> Nat]
    /\ reading # None => AreRows(reading.rows)
    /\ file # None => AreRows(file.rows) /\ Len(file.rows) = Len(WORKSPACE_TABLES)
    /\ \A i \in DOMAIN WORKSPACE_TABLES : target[WORKSPACE_TABLES[i]] \in TableRows[i]
    /\ \A p \in Restorer : restoring[p] # None =>
         /\ AreRows(restoring[p].rows)
         /\ restoring[p].done \in {None} \cup (0..Len(WORKSPACE_TABLES))

FileRows == IF file # None THEN file.rows
            ELSE [i \in DOMAIN WORKSPACE_TABLES |-> EmptyTables[WORKSPACE_TABLES[i]]]

InFile == INSTANCE Prospecting WITH
    profile <- FileRows[1], leads <- FileRows[2][1], suppressed <- FileRows[3],
    campaigns <- FileRows[4], drafts <- FileRows[5], journal <- FileRows[6]

InTarget == INSTANCE Prospecting WITH
    profile <- target.profile, leads <- target.leads[1],
    suppressed <- target.suppressions, campaigns <- target.campaigns,
    drafts <- target.drafts, journal <- target.events

\* A backup taken while leads are opposed, drafted and sent to is the workspace
\* of one moment: its tables, read one after the other, agree on who is opposed,
\* which campaign a draft belongs to and what the journal recorded.
FileIsOneMoment ==
    file # None =>
        InFile!OppositionAgrees /\ InFile!JournalAccounts /\ InFile!CampaignsAreWhole

\* Whatever fails, and whatever file was left by what failed before, the store
\* restored into is a consistent workspace: never a lead without the opposition
\* it had, nor a draft without its campaign.
TargetIsConsistent ==
    InTarget!OppositionAgrees /\ InTarget!JournalAccounts /\ InTarget!CampaignsAreWhole

\* "Restore never overwrites a populated workspace", also when its application
\* or another restore is at work: data there changes by its application only.
NeverOverwritten ==
    [][Populated(target) => target' \in {[target EXCEPT !.profile = p] : p \in Profile}]_target

\* "Portable backup of the six tables": a finished backup can be restored.
FinishedBackupsRestore ==
    file # None /\ file.whole => ValidRows(file.rows)
=============================================================================
