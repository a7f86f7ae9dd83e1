---------------------------- MODULE BackupProofs ----------------------------
(***************************************************************************)
(* Machine-checked proofs about BackupRestore, for any number of leads and *)
(* of processes that restore.                                              *)
(*                                                                         *)
(*   BackupIsOneMoment    FileIsOneMoment                                  *)
(*   TargetStaysWhole     TargetIsConsistent                               *)
(*   NothingIsOverwritten NeverOverwritten, a property of steps            *)
(*   BackupTypesHold      BackupTypeOK                                     *)
(*   SourceIsAWorkspace   BackupSpec implements Prospecting's Spec, so     *)
(*                        every theorem about Spec holds of the source     *)
(*                                                                         *)
(* Six tables are consistent when they agree on oppositions, journal and   *)
(* campaigns (Consistent).  The source's always are, by the proofs about   *)
(* Prospecting; so is what a backup sees, hence what it writes and what is *)
(* restored from it.                                                       *)
(***************************************************************************)
EXTENDS BackupRestore, ProspectingProofs

(***************************************************************************)
(* Six consistent tables.                                                  *)
(***************************************************************************)

\* A record of six tables, and the one the rows of a file are.
SixTables == {"profile", "leads", "suppressions", "campaigns", "drafts", "events"}

IsRecord(T) ==
    T = [profile |-> T.profile, leads |-> T.leads, suppressions |-> T.suppressions,
         campaigns |-> T.campaigns, drafts |-> T.drafts, events |-> T.events]

AsTables(rows) ==
    [profile |-> rows[1], leads |-> rows[2], suppressions |-> rows[3],
     campaigns |-> rows[4], drafts |-> rows[5], events |-> rows[6]]

\* OppositionAgrees, JournalAccounts and CampaignsAreWhole, said of tables.
OppositionIn(row, opposed) ==
    \A l \in LeadId : row[l] # None /\ row[l].email # None =>
        (row[l].status = "do_not_contact" <=> row[l].email \in opposed)

JournalIn(row, draft, page) ==
    \A l \in LeadId :
        /\ page[l].created = IF row[l] # None THEN 1 ELSE 0
        /\ page[l].drafted = IF draft[l] # None THEN 1 ELSE 0
        /\ draft[l] # None =>
             /\ \A i \in DOMAIN page[l].sends : page[l].sends[i] = i
             /\ \A s \in Steps : draft[l].sentAt[s] # None <=> s \in DOMAIN page[l].sends
        /\ row[l] # None =>
             \/ page[l].told = row[l].status
             \/ page[l].told = "manual_send" /\ row[l].status = "contacted"
             \/ page[l].told = None /\ row[l].status \in {"new", "do_not_contact"}

CampaignsIn(campaign, draft) ==
    /\ \A c \in CampaignId : campaign[c] # None =>
         \E l \in LeadId : draft[l] # None /\ draft[l].campaign = c
    /\ \A l \in LeadId : draft[l] # None =>
         campaign[draft[l].campaign] = draft[l].footer

Consistent(T) ==
    /\ IsRecord(T)
    /\ OppositionIn(T.leads[1], T.suppressions)
    /\ JournalIn(T.leads[1], T.drafts, T.events)
    /\ CampaignsIn(T.campaigns, T.drafts)

\* The tables of a consistent source are consistent.
LEMMA SourceConsistent ==
    ASSUME OppositionAgrees, JournalAccounts, CampaignsAreWhole
    PROVE  Consistent(Tables)
  <1>1. IsRecord(Tables)
    BY DEF IsRecord, Tables
  <1>2. OppositionIn(leads, suppressed)
    BY DEF OppositionAgrees, OppositionIn, Known
  <1>3. JournalIn(leads, drafts, journal)
    BY DEF JournalAccounts, JournalIn, Known, Drafted, Sent
  <1>4. CampaignsIn(campaigns, drafts)
    BY DEF CampaignsAreWhole, CampaignsIn, Drafted
  <1>5. /\ Tables.leads[1] = leads /\ Tables.suppressions = suppressed
        /\ Tables.campaigns = campaigns /\ Tables.drafts = drafts
        /\ Tables.events = journal
    BY DEF Tables
  <1>6. QED
    BY <1>1, <1>2, <1>3, <1>4, <1>5 DEF Consistent

\* An empty store is consistent.
LEMMA EmptyConsistent == Consistent(EmptyTables)
  <1>1. IsRecord(EmptyTables)
    BY DEF IsRecord, EmptyTables
  <1>2. OppositionIn([l \in LeadId |-> None], {})
    BY DEF OppositionIn
  <1>3. JournalIn([l \in LeadId |-> None], [l \in LeadId |-> None],
                  [l \in LeadId |-> BlankPage])
    BY DEF JournalIn, BlankPage, NewPage
  <1>4. CampaignsIn([c \in CampaignId |-> None], [l \in LeadId |-> None])
    BY DEF CampaignsIn
  <1>5. /\ EmptyTables.leads[1] = [l \in LeadId |-> None]
        /\ EmptyTables.suppressions = {}
        /\ EmptyTables.campaigns = [c \in CampaignId |-> None]
        /\ EmptyTables.drafts = [l \in LeadId |-> None]
        /\ EmptyTables.events = [l \in LeadId |-> BlankPage]
    BY DEF EmptyTables
  <1>6. QED
    BY <1>1, <1>2, <1>3, <1>4, <1>5 DEF Consistent

\* No rule compares the profile with another table.
LEMMA ProfileIsFree ==
    ASSUME NEW T, Consistent(T), NEW p
    PROVE  Consistent([T EXCEPT !.profile = p])
  <1>1. [T EXCEPT !.profile = p] =
          [profile |-> p, leads |-> T.leads, suppressions |-> T.suppressions,
           campaigns |-> T.campaigns, drafts |-> T.drafts, events |-> T.events]
    BY DEF Consistent, IsRecord
  <1>2. QED
    BY <1>1 DEF Consistent, IsRecord

\* The tables the six inserts filled are those of the file.
LEMMA AllInserted ==
    ASSUME NEW rows
    PROVE  Inserted(rows, Len(WORKSPACE_TABLES)) = AsTables(rows)
  <1>1. /\ Len(WORKSPACE_TABLES) = 6
        /\ WORKSPACE_TABLES[1] = "profile" /\ WORKSPACE_TABLES[2] = "leads"
        /\ WORKSPACE_TABLES[3] = "suppressions" /\ WORKSPACE_TABLES[4] = "campaigns"
        /\ WORKSPACE_TABLES[5] = "drafts" /\ WORKSPACE_TABLES[6] = "events"
    BY DEF WORKSPACE_TABLES
  <1>2. DOMAIN EmptyTables = SixTables
    BY DEF EmptyTables, SixTables
  <1>3. \A i \in 1..6 :
          /\ \E j \in 1..6 : WORKSPACE_TABLES[j] = WORKSPACE_TABLES[i]
          /\ (CHOOSE j \in 1..6 : WORKSPACE_TABLES[j] = WORKSPACE_TABLES[i]) = i
    <2> SUFFICES ASSUME NEW i \in 1..6
                 PROVE  (CHOOSE j \in 1..6 : WORKSPACE_TABLES[j] = WORKSPACE_TABLES[i]) = i
      OBVIOUS
    <2>1. \A j \in 1..6 : WORKSPACE_TABLES[j] = WORKSPACE_TABLES[i] <=> j = i
      BY <1>1
    <2>2. QED
      BY <2>1
  <1>4. \A i \in 1..6 :
          /\ WORKSPACE_TABLES[i] \in SixTables
          /\ Inserted(rows, 6)[WORKSPACE_TABLES[i]] = rows[i]
    BY <1>1, <1>2, <1>3 DEF Inserted, SixTables
  <1>5. /\ Inserted(rows, 6)["profile"] = rows[1]
        /\ Inserted(rows, 6)["leads"] = rows[2]
        /\ Inserted(rows, 6)["suppressions"] = rows[3]
        /\ Inserted(rows, 6)["campaigns"] = rows[4]
        /\ Inserted(rows, 6)["drafts"] = rows[5]
        /\ Inserted(rows, 6)["events"] = rows[6]
    BY <1>1, <1>4
  <1>6. Inserted(rows, 6) = [t \in SixTables |-> Inserted(rows, 6)[t]]
    BY <1>2 DEF Inserted
  <1>7. QED
    BY <1>1, <1>5, <1>6 DEF AsTables, SixTables

-----------------------------------------------------------------------------
(***************************************************************************)
(* The invariant.                                                          *)
(***************************************************************************)

\* What the proofs about Prospecting establish of the source.
SourceInv ==
    /\ TypeOK
    /\ website \in [LeadId -> Nat]
    /\ NoClash
    /\ OppositionAgrees
    /\ PagesAccount
    /\ CampaignsAreWhole

\* Until it creates the file, a backup has read the first tables of a consistent
\* view.
ReadingInv ==
    reading # None =>
        /\ reading = [view |-> reading.view, rows |-> reading.rows]
        /\ reading.view # None =>
             /\ Consistent(reading.view)
             /\ reading.rows \in Seq({reading.view[t] : t \in SixTables})
             /\ \A i \in 1..Len(reading.rows) :
                  reading.rows[i] = reading.view[WORKSPACE_TABLES[i]]

\* A file that is there, or being written, is consistent, finished or not.
FileInv ==
    file # None \/ (reading # None /\ reading.view = None) =>
        /\ file = [rows |-> file.rows, whole |-> file.whole]
        /\ Consistent(AsTables(file.rows))

\* A restoration works on consistent rows; one that holds the lock is alone and
\* the store is empty.
RestoreInv ==
    /\ restoring = [p \in Restorer |-> restoring[p]]
    /\ \A p \in Restorer : restoring[p] # None =>
         /\ restoring[p] = [rows |-> restoring[p].rows, done |-> restoring[p].done]
         /\ Consistent(AsTables(restoring[p].rows))
    /\ \A p, q \in Locked : p = q
    /\ Locked # {} => target = EmptyTables
    /\ Consistent(target)

BackupInv == SourceInv /\ ReadingInv /\ FileInv /\ RestoreInv

\* It holds of empty stores.
LEMMA BackupInvInit == BackupInit => BackupInv
  <1> SUFFICES ASSUME BackupInit PROVE BackupInv
    OBVIOUS
  <1>1. Init /\ website \in [LeadId -> Nat]
    BY DEF BackupInit
  <1>2. TypeOK
    BY <1>1, InitType
  <1>3. NoClash /\ OppositionAgrees /\ CampaignsAreWhole
    BY <1>1 DEF Init, NoClash, OppositionAgrees, CampaignsAreWhole, Known, Drafted
  <1>4. PagesAccount
    BY <1>1 DEF Init, PagesAccount, Accounted, BlankPage, NewPage, Steps
  <1>5. RestoreInv
    BY EmptyConsistent DEF BackupInit, RestoreInv, Locked
  <1>6. QED
    BY <1>1, <1>2, <1>3, <1>4, <1>5
       DEF BackupInit, BackupInv, SourceInv, ReadingInv, FileInv

\* The tables of the source are consistent at any time, and tables.
LEMMA SourceIsConsistent ==
    ASSUME SourceInv
    PROVE  Consistent(Tables) /\ Tables # None
  <1>1. JournalAccounts
    BY DEF SourceInv, PagesAccount, Accounted, JournalAccounts, Known, Drafted, Sent
  <1>2. Tables \in TableSet
    BY DEF SourceInv, TypeOK, Tables, TableSet, TableRows
  <1>3. QED
    BY <1>1, <1>2, SourceConsistent, TableAssumption DEF SourceInv

\* Every step leaves the source alone or is a handler's.
LEMMA SourceStep ==
    ASSUME SourceInv, [BackupNext]_allVars
    PROVE  SourceInv'
  <1>1. [Next]_vars
    BY DEF BackupNext, allVars, vars, SourceCreate, SourceUpdate, SourceChange,
           Next, CreateLead, UpdateLead, BeginBackup, ReadTable, CreateFile,
           FinishFile, BackupCrashes, copy_workspace, ReadBackup, BeginRestore,
           InsertTable, CommitRestore, RestoreFails, TargetWrites
  <1>2. website' \in [LeadId -> Nat]
    <2>1. \A length \in Websites : valid_website(length) \in Nat
      BY WebsiteAssumption DEF valid_website, SchemeLength
    <2>2. CASE SourceCreate \/ SourceUpdate
      BY <2>1, <2>2 DEF SourceCreate, SourceUpdate, SourceInv
    <2>3. CASE ~(SourceCreate \/ SourceUpdate)
      BY <2>3 DEF BackupNext, allVars, SourceChange, BeginBackup, ReadTable,
                  CreateFile, FinishFile, BackupCrashes, copy_workspace, ReadBackup,
                  BeginRestore, InsertTable, CommitRestore, RestoreFails,
                  TargetWrites, SourceInv
    <2>4. QED
      BY <2>2, <2>3
  <1>3. QED
    BY <1>1, <1>2, StepType, KeysStep, OppositionStep, PagesStep, CampaignsStep
       DEF SourceInv

-----------------------------------------------------------------------------
(***************************************************************************)
(* Backup.                                                                 *)
(***************************************************************************)

\* Each position of a file is a table.
LEMMA TableNames ==
    /\ Len(WORKSPACE_TABLES) = 6
    /\ \A i \in 1..6 : WORKSPACE_TABLES[i] \in SixTables
  BY DEF WORKSPACE_TABLES, SixTables

\* A full list of the tables of a view is that view.
LEMMA RowsAreView ==
    ASSUME NEW T, IsRecord(T), NEW rows,
           \A i \in 1..6 : rows[i] = T[WORKSPACE_TABLES[i]]
    PROVE  AsTables(rows) = T
  <1>1. /\ rows[1] = T.profile /\ rows[2] = T.leads /\ rows[3] = T.suppressions
        /\ rows[4] = T.campaigns /\ rows[5] = T.drafts /\ rows[6] = T.events
    BY DEF WORKSPACE_TABLES
  <1>2. QED
    BY <1>1 DEF AsTables, IsRecord

\* The backup programs keep what they read and write consistent.
LEMMA BackupStep ==
    ASSUME BackupInv, [BackupNext]_allVars
    PROVE  ReadingInv' /\ FileInv'
  <1> USE DEF BackupInv
  <1>1. CASE BeginBackup
    <2>1. reading' = [view |-> Tables, rows |-> <<>>] /\ file' = file
      BY <1>1 DEF BeginBackup
    <2>2. ReadingInv'
      BY <2>1, SourceIsConsistent DEF ReadingInv
    <2>3. FileInv'
      BY <1>1, <2>1, SourceIsConsistent DEF FileInv, BeginBackup
    <2>4. QED
      BY <2>2, <2>3
  <1>2. CASE ReadTable
    <2> DEFINE next == reading.view[WORKSPACE_TABLES[Len(reading.rows) + 1]]
               rows == reading.rows
    <2>1. /\ reading # None
          /\ reading = [view |-> reading.view, rows |-> rows]
          /\ Len(rows) < 6
          /\ file' = file
      BY <1>2, TableNames DEF ReadTable, ReadingInv
    <2>2. reading' = [view |-> reading.view, rows |-> Append(rows, next)]
      <3>1. reading' = [reading EXCEPT !.rows = Append(rows, next)]
        BY <1>2 DEF ReadTable, Seen
      <3> HIDE DEF next, rows
      <3>2. QED
        BY <2>1, <3>1
    <2>3. ReadingInv'
      <3>1. ASSUME reading.view # None
            PROVE  /\ Append(rows, next) \in Seq({reading.view[t] : t \in SixTables})
                   /\ \A i \in 1..Len(Append(rows, next)) :
                        Append(rows, next)[i] = reading.view[WORKSPACE_TABLES[i]]
        <4>1. /\ rows \in Seq({reading.view[t] : t \in SixTables})
              /\ \A i \in 1..Len(rows) : rows[i] = reading.view[WORKSPACE_TABLES[i]]
          BY <2>1, <3>1 DEF ReadingInv
        <4>2. next \in {reading.view[t] : t \in SixTables}
          BY <2>1, <4>1, TableNames
        <4>3. QED
          BY <4>1, <4>2
      <3> HIDE DEF next, rows
      <3>2. reading.view # None => Consistent(reading.view)
        BY <2>1 DEF ReadingInv
      <3>3. QED
        BY <2>2, <3>1, <3>2 DEF ReadingInv
    <2>4. FileInv'
      <3> HIDE DEF next, rows
      <3>1. reading'.view = reading.view
        BY <2>2
      <3>2. QED
        BY <2>1, <3>1 DEF FileInv
    <2>5. QED
      BY <2>3, <2>4
  <1>3. CASE CreateFile
    <2>1. /\ reading # None /\ reading.view # None
          /\ reading = [view |-> reading.view, rows |-> reading.rows]
          /\ Len(reading.rows) = 6
      BY <1>3, TableNames DEF CreateFile, ReadingInv
    <2>2. AsTables(reading.rows) = reading.view /\ Consistent(reading.view)
      BY <2>1, RowsAreView DEF ReadingInv, Consistent
    <2>3. CASE file = None
      <3>1. /\ file' = [rows |-> reading.rows, whole |-> FALSE]
            /\ reading' = [view |-> None, rows |-> reading.rows]
        BY <1>3, <2>1, <2>3 DEF CreateFile
      <3>2. QED
        BY <2>2, <3>1 DEF ReadingInv, FileInv
    <2>4. CASE file # None
      BY <1>3, <2>4 DEF CreateFile, ReadingInv, FileInv
    <2>5. QED
      BY <2>3, <2>4
  <1>4. CASE FinishFile
    <2>1. /\ file = [rows |-> file.rows, whole |-> file.whole]
          /\ Consistent(AsTables(file.rows))
      BY <1>4 DEF FinishFile, FileInv
    <2>2. reading' = None /\ file' \in {None, [rows |-> file.rows, whole |-> TRUE]}
      BY <1>4, <2>1 DEF FinishFile
    <2>3. QED
      BY <2>1, <2>2 DEF ReadingInv, FileInv
  <1>5. CASE BackupCrashes
    BY <1>5 DEF BackupCrashes, ReadingInv, FileInv
  <1>6. CASE copy_workspace
    <2> DEFINE rows == [i \in DOMAIN WORKSPACE_TABLES |-> Tables[WORKSPACE_TABLES[i]]]
    <2>1. reading = None /\ reading' = reading
      BY <1>6 DEF copy_workspace
    <2>2. PICK done \in BOOLEAN : file' = [rows |-> rows, whole |-> done]
      BY <1>6 DEF copy_workspace
    <2>3. AsTables(rows) = Tables
      <3>1. DOMAIN WORKSPACE_TABLES = 1..6
        BY DEF WORKSPACE_TABLES
      <3>2. \A i \in 1..6 : rows[i] = Tables[WORKSPACE_TABLES[i]]
        BY <3>1
      <3>3. QED
        BY <3>2, RowsAreView, SourceIsConsistent DEF Consistent
    <2> HIDE DEF rows
    <2>4. QED
      BY <2>1, <2>2, <2>3, SourceIsConsistent DEF ReadingInv, FileInv
  <1>7. CASE UNCHANGED backupVars
    BY <1>7 DEF backupVars, ReadingInv, FileInv
  <1>8. QED
    BY <1>1, <1>2, <1>3, <1>4, <1>5, <1>6, <1>7
       DEF BackupNext, allVars, backupVars, SourceCreate, SourceUpdate, SourceChange,
           ReadBackup, BeginRestore, InsertTable, CommitRestore, RestoreFails,
           TargetWrites

-----------------------------------------------------------------------------
(***************************************************************************)
(* Restore.                                                                *)
(***************************************************************************)

\* A restoration that changes without touching the store, as four steps do.
LEMMA OneRestores ==
    ASSUME RestoreInv, target' = target, NEW p \in Restorer, NEW now,
           restoring' = [restoring EXCEPT ![p] = now],
           now # None =>
             /\ now = [rows |-> now.rows, done |-> now.done]
             /\ Consistent(AsTables(now.rows))
             /\ now.done # None => p \in Locked \/ (Locked = {} /\ target = EmptyTables)
    PROVE  RestoreInv'
  <1>1. /\ restoring' = [q \in Restorer |-> restoring'[q]]
        /\ restoring'[p] = now
        /\ \A q \in Restorer : q # p => restoring'[q] = restoring[q]
    BY DEF RestoreInv
  <1>2. Locked' \subseteq {p} \cup Locked
    BY <1>1 DEF Locked
  <1>3. p \in Locked' => p \in Locked \/ (Locked = {} /\ target = EmptyTables)
    BY <1>1 DEF Locked
  <1>4. (\A q, r \in Locked' : q = r) /\ (Locked' # {} => target = EmptyTables)
    BY <1>2, <1>3 DEF RestoreInv
  <1>5. QED
    BY <1>1, <1>4 DEF RestoreInv

\* The restoring processes, and the application of their store, keep it
\* consistent.
LEMMA RestoreStep ==
    ASSUME BackupInv, [BackupNext]_allVars
    PROVE  RestoreInv'
  <1> USE DEF BackupInv
  <1>1. ASSUME NEW p \in Restorer, ReadBackup(p)
        PROVE  RestoreInv'
    <2>1. file # None /\ Consistent(AsTables(file.rows))
      BY <1>1 DEF ReadBackup, read_backup, FileInv
    <2>2. QED
      BY <1>1, <2>1, OneRestores DEF ReadBackup
  <1>2. ASSUME NEW p \in Restorer, BeginRestore(p)
        PROVE  RestoreInv'
    <2>1. /\ restoring[p] = [rows |-> restoring[p].rows, done |-> restoring[p].done]
          /\ Consistent(AsTables(restoring[p].rows))
          /\ Locked = {}
      BY <1>2 DEF BeginRestore, RestoreInv
    <2>2. CASE Populated(target)
      <3>1. restoring' = [restoring EXCEPT ![p] = None] /\ target' = target
        BY <1>2, <2>2 DEF BeginRestore
      <3>2. QED
        BY <3>1, OneRestores
    <2>3. CASE ~Populated(target)
      <3>1. restoring' = [restoring EXCEPT ![p] = [rows |-> restoring[p].rows, done |-> 0]]
        <4>1. [restoring[p] EXCEPT !.done = 0] = [rows |-> restoring[p].rows, done |-> 0]
          BY <2>1
        <4>2. restoring' = [restoring EXCEPT ![p] = [restoring[p] EXCEPT !.done = 0]]
          BY <1>2, <2>3 DEF BeginRestore
        <4>3. QED
          BY <4>1, <4>2
      <3>2. target' = target /\ target = EmptyTables
        BY <1>2, <2>3 DEF BeginRestore, Populated
      <3>3. QED
        BY <2>1, <3>1, <3>2, OneRestores
    <2>4. QED
      BY <2>2, <2>3
  <1>3. ASSUME NEW p \in Restorer, InsertTable(p)
        PROVE  RestoreInv'
    <2>1. /\ restoring[p] = [rows |-> restoring[p].rows, done |-> restoring[p].done]
          /\ Consistent(AsTables(restoring[p].rows))
          /\ p \in Locked
      BY <1>3 DEF InsertTable, RestoreInv, Locked
    <2> DEFINE now == [rows |-> restoring[p].rows, done |-> restoring[p].done + 1]
    <2>2. restoring' = [restoring EXCEPT ![p] = now] /\ target' = target
      <3>1. [restoring[p] EXCEPT !.done = restoring[p].done + 1] = now
        BY <2>1
      <3>2. restoring' = [restoring EXCEPT ![p] =
              [restoring[p] EXCEPT !.done = restoring[p].done + 1]]
        BY <1>3 DEF InsertTable
      <3>3. QED
        BY <1>3, <3>1, <3>2 DEF InsertTable
    <2>3. QED
      BY <2>1, <2>2, OneRestores
  <1>4. ASSUME NEW p \in Restorer, CommitRestore(p)
        PROVE  RestoreInv'
    <2>1. p \in Locked /\ Consistent(AsTables(restoring[p].rows))
      BY <1>4 DEF CommitRestore, RestoreInv, Locked
    <2>2. target' = AsTables(restoring[p].rows)
      BY <1>4, AllInserted DEF CommitRestore
    <2>3. /\ restoring' = [q \in Restorer |-> restoring'[q]]
          /\ restoring'[p] = None
          /\ \A q \in Restorer : q # p => restoring'[q] = restoring[q]
      BY <1>4 DEF CommitRestore, RestoreInv
    <2>4. Locked' = {}
      BY <2>1, <2>3 DEF Locked, RestoreInv
    <2>5. QED
      BY <2>1, <2>2, <2>3, <2>4 DEF RestoreInv
  <1>5. ASSUME NEW p \in Restorer, RestoreFails(p)
        PROVE  RestoreInv'
    BY <1>5, OneRestores DEF RestoreFails
  <1>6. CASE TargetWrites
    <2>1. PICK p \in Profile : target' = [target EXCEPT !.profile = p]
      BY <1>6 DEF TargetWrites
    <2>2. Consistent(target')
      BY <2>1, ProfileIsFree DEF RestoreInv
    <2>3. restoring' = restoring /\ Locked = {} /\ Locked' = Locked
      BY <1>6 DEF TargetWrites, Locked
    <2>4. QED
      BY <2>2, <2>3 DEF RestoreInv
  <1>7. CASE UNCHANGED restoreVars
    BY <1>7 DEF restoreVars, RestoreInv, Locked
  <1>8. QED
    BY <1>1, <1>2, <1>3, <1>4, <1>5, <1>6, <1>7
       DEF BackupNext, allVars, restoreVars, SourceCreate, SourceUpdate, SourceChange,
           BeginBackup, ReadTable, CreateFile, FinishFile, BackupCrashes,
           copy_workspace

\* The invariant holds whatever crashes and whoever interferes.
LEMMA BackupInvHolds == BackupSpec => []BackupInv
  <1>1. BackupInv /\ [BackupNext]_allVars => BackupInv'
    BY SourceStep, BackupStep, RestoreStep DEF BackupInv
  <1>2. QED
    BY <1>1, BackupInvInit, PTL DEF BackupSpec

\* In every reachable state the file, finished or not, holds one moment of the
\* source.
THEOREM BackupIsOneMoment == BackupSpec => []FileIsOneMoment
  <1>1. BackupInv => FileIsOneMoment
    <2> SUFFICES ASSUME BackupInv, file # None
                 PROVE  InFile!OppositionAgrees /\ InFile!JournalAccounts
                          /\ InFile!CampaignsAreWhole
      BY DEF FileIsOneMoment
    <2>1. FileRows = file.rows
      BY DEF FileRows
    <2>2. /\ OppositionIn(file.rows[2][1], file.rows[3])
          /\ JournalIn(file.rows[2][1], file.rows[5], file.rows[6])
          /\ CampaignsIn(file.rows[4], file.rows[5])
      BY DEF BackupInv, FileInv, Consistent, AsTables
    <2>3. InFile!OppositionAgrees
      BY <2>1, <2>2 DEF OppositionIn, InFile!OppositionAgrees, InFile!Known
    <2>4. InFile!JournalAccounts
      BY <2>1, <2>2 DEF JournalIn, InFile!JournalAccounts, InFile!Known,
                        InFile!Drafted, InFile!Sent, InFile!Steps, Steps
    <2>5. InFile!CampaignsAreWhole
      BY <2>1, <2>2 DEF CampaignsIn, InFile!CampaignsAreWhole, InFile!Drafted
    <2>6. QED
      BY <2>3, <2>4, <2>5
  <1>2. QED
    BY <1>1, BackupInvHolds, PTL

\* In every reachable state the store restored into is a consistent workspace.
THEOREM TargetStaysWhole == BackupSpec => []TargetIsConsistent
  <1>1. BackupInv => TargetIsConsistent
    <2> SUFFICES ASSUME BackupInv
                 PROVE  InTarget!OppositionAgrees /\ InTarget!JournalAccounts
                          /\ InTarget!CampaignsAreWhole
      BY DEF TargetIsConsistent
    <2>1. /\ OppositionIn(target.leads[1], target.suppressions)
          /\ JournalIn(target.leads[1], target.drafts, target.events)
          /\ CampaignsIn(target.campaigns, target.drafts)
      BY DEF BackupInv, RestoreInv, Consistent
    <2>2. InTarget!OppositionAgrees
      BY <2>1 DEF OppositionIn, InTarget!OppositionAgrees, InTarget!Known
    <2>3. InTarget!JournalAccounts
      BY <2>1 DEF JournalIn, InTarget!JournalAccounts, InTarget!Known,
                  InTarget!Drafted, InTarget!Sent, InTarget!Steps, Steps
    <2>4. InTarget!CampaignsAreWhole
      BY <2>1 DEF CampaignsIn, InTarget!CampaignsAreWhole, InTarget!Drafted
    <2>5. QED
      BY <2>2, <2>3, <2>4
  <1>2. QED
    BY <1>1, BackupInvHolds, PTL

\* In no behaviour does a restoration change a store that holds anything.
THEOREM NothingIsOverwritten == BackupSpec => NeverOverwritten
  <1>1. BackupInv /\ [BackupNext]_allVars =>
          [Populated(target) => target' \in {[target EXCEPT !.profile = p] : p \in Profile}]_target
    <2> SUFFICES ASSUME BackupInv, [BackupNext]_allVars, target' # target,
                        Populated(target)
                 PROVE  target' \in {[target EXCEPT !.profile = p] : p \in Profile}
      OBVIOUS
    <2>1. Locked = {}
      BY DEF BackupInv, RestoreInv, Populated
    <2>2. TargetWrites
      BY <2>1 DEF BackupNext, allVars, restoreVars, SourceCreate, SourceUpdate,
                  SourceChange, BeginBackup, ReadTable, CreateFile, FinishFile,
                  BackupCrashes, copy_workspace, ReadBackup, BeginRestore,
                  InsertTable, CommitRestore, RestoreFails
    <2>3. QED
      BY <2>2 DEF TargetWrites
  <1>2. QED
    BY <1>1, BackupInvHolds, PTL DEF BackupSpec, NeverOverwritten

(***************************************************************************)
(* Types.                                                                  *)
(***************************************************************************)

\* A record, and a list, of six well-typed tables.
Typed(T) == \A i \in 1..6 : T[WORKSPACE_TABLES[i]] \in TableRows[i]

FullRows(rows) == DOMAIN rows = 1..6 /\ Len(rows) = 6 /\ AreRows(rows)

TypesInv ==
    /\ reading # None =>
         /\ AreRows(reading.rows)
         /\ IF reading.view # None THEN Typed(reading.view) ELSE FullRows(reading.rows)
    /\ file # None \/ (reading # None /\ reading.view = None) => FullRows(file.rows)
    /\ \A p \in Restorer : restoring[p] # None =>
         /\ FullRows(restoring[p].rows)
         /\ restoring[p].done \in {None} \cup 0..6
    /\ Typed(target)

\* Tables are typed one by one.
LEMMA TypedByTable ==
    ASSUME NEW T
    PROVE  Typed(T) <=>
             /\ T.profile \in Profile
             /\ T.leads \in [LeadId -> LeadRow \cup {None}] \X [LeadId -> Nat]
             /\ T.suppressions \in SUBSET Email
             /\ T.campaigns \in [CampaignId -> Profile \cup {None}]
             /\ T.drafts \in [LeadId -> Sequence \cup {None}]
             /\ T.events \in [LeadId -> JournalPage]
  <1>1. /\ WORKSPACE_TABLES[1] = "profile" /\ WORKSPACE_TABLES[2] = "leads"
        /\ WORKSPACE_TABLES[3] = "suppressions" /\ WORKSPACE_TABLES[4] = "campaigns"
        /\ WORKSPACE_TABLES[5] = "drafts" /\ WORKSPACE_TABLES[6] = "events"
    BY DEF WORKSPACE_TABLES
  <1>2. /\ TableRows[1] = Profile
        /\ TableRows[2] = [LeadId -> LeadRow \cup {None}] \X [LeadId -> Nat]
        /\ TableRows[3] = SUBSET Email
        /\ TableRows[4] = [CampaignId -> Profile \cup {None}]
        /\ TableRows[5] = [LeadId -> Sequence \cup {None}]
        /\ TableRows[6] = [LeadId -> JournalPage]
    BY DEF TableRows
  <1>3. \A i \in 1..6 : i = 1 \/ i = 2 \/ i = 3 \/ i = 4 \/ i = 5 \/ i = 6
    OBVIOUS
  <1>4. Typed(T) <=>
          /\ T[WORKSPACE_TABLES[1]] \in TableRows[1]
          /\ T[WORKSPACE_TABLES[2]] \in TableRows[2]
          /\ T[WORKSPACE_TABLES[3]] \in TableRows[3]
          /\ T[WORKSPACE_TABLES[4]] \in TableRows[4]
          /\ T[WORKSPACE_TABLES[5]] \in TableRows[5]
          /\ T[WORKSPACE_TABLES[6]] \in TableRows[6]
    BY <1>3 DEF Typed
  <1>5. QED
    BY <1>1, <1>2, <1>4

\* The tables of the source, and empty ones, are typed.
LEMMA SourceTyped == SourceInv => Typed(Tables)
  <1> SUFFICES ASSUME SourceInv PROVE Typed(Tables)
    OBVIOUS
  <1>1. TypeOK /\ website \in [LeadId -> Nat]
    BY DEF SourceInv
  <1>2. /\ Tables.profile = profile /\ Tables.leads = <<leads, website>>
        /\ Tables.suppressions = suppressed /\ Tables.campaigns = campaigns
        /\ Tables.drafts = drafts /\ Tables.events = journal
    BY DEF Tables
  <1>3. <<leads, website>> \in [LeadId -> LeadRow \cup {None}] \X [LeadId -> Nat]
    BY <1>1 DEF TypeOK
  <1> DEFINE T == Tables
  <1>4. /\ T.profile \in Profile
        /\ T.leads \in [LeadId -> LeadRow \cup {None}] \X [LeadId -> Nat]
        /\ T.suppressions \in SUBSET Email
        /\ T.campaigns \in [CampaignId -> Profile \cup {None}]
        /\ T.drafts \in [LeadId -> Sequence \cup {None}]
        /\ T.events \in [LeadId -> JournalPage]
    BY <1>1, <1>2, <1>3 DEF TypeOK
  <1> HIDE DEF T
  <1>5. Typed(T)
    BY <1>4, TypedByTable
  <1>6. QED
    BY <1>5 DEF T

\* An empty store has the types.
LEMMA EmptyTyped == Typed(EmptyTables)
  <1>1. /\ EmptyTables.profile = DefaultProfile
        /\ EmptyTables.leads = <<[l \in LeadId |-> None], [l \in LeadId |-> 0]>>
        /\ EmptyTables.suppressions = {}
        /\ EmptyTables.campaigns = [c \in CampaignId |-> None]
        /\ EmptyTables.drafts = [l \in LeadId |-> None]
        /\ EmptyTables.events = [l \in LeadId |-> BlankPage]
    BY DEF EmptyTables
  <1>2. BlankPage \in JournalPage
    <2>1. BlankPage = [created |-> 0, drafted |-> 0, sends |-> <<>>, told |-> None]
      BY DEF BlankPage, NewPage
    <2>2. <<>> \in Seq(Steps)
      OBVIOUS
    <2>3. QED
      BY <2>1, <2>2 DEF JournalPage
  <1>3. DefaultProfile \in Profile
    BY DataAssumption
  <1> DEFINE T == EmptyTables
  <1>4. /\ T.profile \in Profile
        /\ T.leads \in [LeadId -> LeadRow \cup {None}] \X [LeadId -> Nat]
        /\ T.suppressions \in SUBSET Email
        /\ T.campaigns \in [CampaignId -> Profile \cup {None}]
        /\ T.drafts \in [LeadId -> Sequence \cup {None}]
        /\ T.events \in [LeadId -> JournalPage]
    BY <1>1, <1>2, <1>3
  <1> HIDE DEF T
  <1>5. Typed(T)
    BY <1>4, TypedByTable
  <1>6. QED
    BY <1>5 DEF T

\* The tables of a full list are typed.
LEMMA FullRowsTyped ==
    ASSUME NEW rows, FullRows(rows)
    PROVE  Typed(AsTables(rows))
  <1>1. \A i \in 1..6 : rows[i] \in TableRows[i]
    BY DEF FullRows, AreRows
  <1>2. \A i \in 1..6 : AsTables(rows)[WORKSPACE_TABLES[i]] = rows[i]
    BY DEF AsTables, WORKSPACE_TABLES
  <1>3. QED
    BY <1>1, <1>2 DEF Typed

\* Types hold of empty stores.
LEMMA TypesInit == BackupInit => TypesInv
  BY EmptyTyped DEF BackupInit, TypesInv

\* The backup programs read, and write, typed tables.
LEMMA BackupTypes ==
    ASSUME BackupInv, TypesInv, [BackupNext]_allVars
    PROVE  /\ reading' # None =>
                /\ AreRows(reading'.rows)
                /\ IF reading'.view # None THEN Typed(reading'.view)
                   ELSE FullRows(reading'.rows)
           /\ file' # None \/ (reading' # None /\ reading'.view = None)
                => FullRows(file'.rows)
  <1> USE DEF TypesInv
  <1>1. CASE BeginBackup
    <2>1. reading' = [view |-> Tables, rows |-> <<>>] /\ file' = file
          /\ Tables # None /\ Typed(Tables)
      BY <1>1, SourceTyped, SourceIsConsistent DEF BeginBackup, BackupInv
    <2>2. AreRows(<<>>)
      BY DEF AreRows
    <2>3. QED
      BY <1>1, <2>1, <2>2 DEF BeginBackup
  <1>2. CASE ReadTable
    <2> DEFINE next == reading.view[WORKSPACE_TABLES[Len(reading.rows) + 1]]
               rows == reading.rows
    <2>1. /\ reading # None
          /\ reading = [view |-> reading.view, rows |-> rows]
          /\ Len(rows) < 6
          /\ file' = file
          /\ reading' = [reading EXCEPT !.rows = Append(rows, next)]
      BY <1>2, TableNames DEF ReadTable, ReadingInv, BackupInv, Seen
    <2> HIDE DEF next, rows
    <2>2. /\ reading'.view = reading.view
          /\ reading'.rows = Append(rows, next)
          /\ reading' = [view |-> reading.view, rows |-> Append(rows, next)]
      BY <2>1
    <2>3. CASE reading.view # None
      <3>1. rows \in Seq({reading.view[t] : t \in SixTables})
        BY <2>1, <2>3 DEF ReadingInv, BackupInv, rows
      <3>2. AreRows(rows) /\ Typed(reading.view)
        BY <2>1, <2>3 DEF rows
      <3>3. Len(rows) \in Nat /\ Len(rows) + 1 \in 1..6
        BY <2>1, <3>1
      <3>4. next \in TableRows[Len(rows) + 1]
        BY <3>2, <3>3 DEF Typed, next, rows
      <3>5. DOMAIN Append(rows, next) = 1..Len(rows) + 1
            /\ \A i \in 1..Len(rows) : Append(rows, next)[i] = rows[i]
            /\ Append(rows, next)[Len(rows) + 1] = next
            /\ DOMAIN rows = 1..Len(rows)
        BY <3>1
      <3>6. AreRows(Append(rows, next))
        BY <3>2, <3>3, <3>4, <3>5 DEF AreRows
      <3>7. QED
        BY <2>1, <2>2, <2>3, <3>2, <3>6
    <2>4. CASE reading.view = None
      BY <2>1, <2>4 DEF FullRows, rows
    <2>5. QED
      BY <2>3, <2>4
  <1>3. CASE CreateFile
    <2>1. /\ reading # None /\ reading.view # None
          /\ reading = [view |-> reading.view, rows |-> reading.rows]
          /\ Len(reading.rows) = 6
          /\ reading.rows \in Seq({reading.view[t] : t \in SixTables})
      BY <1>3, TableNames DEF CreateFile, ReadingInv, BackupInv
    <2>2. FullRows(reading.rows)
      BY <2>1 DEF FullRows
    <2>3. CASE file = None
      <3>1. /\ file' = [rows |-> reading.rows, whole |-> FALSE]
            /\ reading' = [view |-> None, rows |-> reading.rows]
        BY <1>3, <2>1, <2>3 DEF CreateFile
      <3>2. QED
        BY <2>2, <3>1 DEF FullRows
    <2>4. CASE file # None
      BY <1>3, <2>4 DEF CreateFile
    <2>5. QED
      BY <2>3, <2>4
  <1>4. CASE FinishFile
    <2>1. /\ file = [rows |-> file.rows, whole |-> file.whole]
          /\ FullRows(file.rows)
      BY <1>4 DEF FinishFile, FileInv, BackupInv
    <2>2. reading' = None /\ file' \in {None, [rows |-> file.rows, whole |-> TRUE]}
      BY <1>4, <2>1 DEF FinishFile
    <2>3. QED
      BY <2>1, <2>2
  <1>5. CASE BackupCrashes
    BY <1>5 DEF BackupCrashes
  <1>6. CASE copy_workspace
    <2> DEFINE rows == [i \in DOMAIN WORKSPACE_TABLES |-> Tables[WORKSPACE_TABLES[i]]]
    <2>1. reading = None /\ reading' = reading
      BY <1>6 DEF copy_workspace
    <2>2. PICK done \in BOOLEAN : file' = [rows |-> rows, whole |-> done]
      BY <1>6 DEF copy_workspace
    <2>3. DOMAIN WORKSPACE_TABLES = 1..6
      BY DEF WORKSPACE_TABLES
    <2>4. Typed(Tables)
      BY SourceTyped DEF BackupInv
    <2>5. rows = [i \in 1..6 |-> Tables[WORKSPACE_TABLES[i]]]
      BY <2>3
    <2> HIDE DEF rows
    <2>6. FullRows(rows)
      BY <2>4, <2>5 DEF FullRows, AreRows, Typed
    <2>7. QED
      BY <2>1, <2>2, <2>6
  <1>7. CASE UNCHANGED backupVars
    BY <1>7 DEF backupVars
  <1>8. QED
    BY <1>1, <1>2, <1>3, <1>4, <1>5, <1>6, <1>7
       DEF BackupNext, allVars, backupVars, SourceCreate, SourceUpdate, SourceChange,
           ReadBackup, BeginRestore, InsertTable, CommitRestore, RestoreFails,
           TargetWrites

\* The restoring processes handle typed tables.
LEMMA RestoreTypes ==
    ASSUME BackupInv, TypesInv, [BackupNext]_allVars
    PROVE  /\ \A p \in Restorer : restoring'[p] # None =>
                /\ FullRows(restoring'[p].rows)
                /\ restoring'[p].done \in {None} \cup 0..6
           /\ Typed(target')
  <1> DEFINE Fine(r) == r # None => FullRows(r.rows) /\ r.done \in {None} \cup 0..6
  <1> SUFFICES (\A q \in Restorer : Fine(restoring'[q])) /\ Typed(target')
    OBVIOUS
  <1>1. \A p \in Restorer : Fine(restoring[p])
    BY DEF TypesInv
  <1>2. Typed(target)
    BY DEF TypesInv
  <1>3. ASSUME NEW p \in Restorer, NEW now, Fine(now), target' = target,
               restoring' = [restoring EXCEPT ![p] = now]
        PROVE  (\A q \in Restorer : Fine(restoring'[q])) /\ Typed(target')
    <2>1. \A q \in Restorer : restoring'[q] = IF q = p THEN now ELSE restoring[q]
      BY <1>3 DEF BackupInv, RestoreInv
    <2> HIDE DEF Fine
    <2>2. QED
      BY <1>1, <1>2, <1>3, <2>1
  <1>4. ASSUME NEW p \in Restorer, ReadBackup(p)
        PROVE  (\A q \in Restorer : Fine(restoring'[q])) /\ Typed(target')
    <2>1. FullRows(file.rows)
      BY <1>4 DEF ReadBackup, read_backup, TypesInv
    <2>2. Fine([rows |-> file.rows, done |-> None])
      BY <2>1
    <2> HIDE DEF Fine
    <2>3. QED
      BY <1>3, <1>4, <2>2 DEF ReadBackup
  <1>5. ASSUME NEW p \in Restorer, restoring[p] # None, NEW n \in 0..6,
               restoring' = [restoring EXCEPT ![p] = [restoring[p] EXCEPT !.done = n]],
               target' = target
        PROVE  (\A q \in Restorer : Fine(restoring'[q])) /\ Typed(target')
    <2>1. restoring[p] = [rows |-> restoring[p].rows, done |-> restoring[p].done]
      BY <1>5 DEF BackupInv, RestoreInv
    <2>2. [restoring[p] EXCEPT !.done = n] = [rows |-> restoring[p].rows, done |-> n]
      BY <2>1
    <2>3. Fine([restoring[p] EXCEPT !.done = n])
      BY <1>1, <1>5, <2>2
    <2> HIDE DEF Fine
    <2>4. QED
      BY <1>3, <1>5, <2>3
  <1>6. ASSUME NEW p \in Restorer, BeginRestore(p)
        PROVE  (\A q \in Restorer : Fine(restoring'[q])) /\ Typed(target')
    <2>1. CASE Populated(target)
      <3>1. Fine(None)
        OBVIOUS
      <3> HIDE DEF Fine
      <3>2. QED
        BY <1>3, <1>6, <2>1, <3>1 DEF BeginRestore
    <2>2. CASE ~Populated(target)
      <3>1. /\ restoring[p] # None /\ 0 \in 0..6 /\ target' = target
            /\ restoring' = [restoring EXCEPT ![p] = [restoring[p] EXCEPT !.done = 0]]
        BY <1>6, <2>2 DEF BeginRestore
      <3> HIDE DEF Fine
      <3>2. QED
        BY <1>5, <3>1
    <2>3. QED
      BY <2>1, <2>2
  <1>7. ASSUME NEW p \in Restorer, InsertTable(p)
        PROVE  (\A q \in Restorer : Fine(restoring'[q])) /\ Typed(target')
    <2>1. restoring[p] # None /\ restoring[p].done # None /\ restoring[p].done < 6
      BY <1>7, TableNames DEF InsertTable, Locked
    <2>2. restoring[p].done + 1 \in 0..6
      BY <1>1, <2>1
    <2>3. restoring' = [restoring EXCEPT ![p] =
            [restoring[p] EXCEPT !.done = restoring[p].done + 1]] /\ target' = target
      BY <1>7 DEF InsertTable
    <2> HIDE DEF Fine
    <2>4. QED
      BY <1>5, <2>1, <2>2, <2>3
  <1>8. ASSUME NEW p \in Restorer, CommitRestore(p)
        PROVE  (\A q \in Restorer : Fine(restoring'[q])) /\ Typed(target')
    <2>1. target' = AsTables(restoring[p].rows)
      BY <1>8, AllInserted DEF CommitRestore
    <2>2. FullRows(restoring[p].rows)
      BY <1>1, <1>8 DEF CommitRestore, Locked
    <2>3. Typed(target')
      BY <2>1, <2>2, FullRowsTyped
    <2>4. \A q \in Restorer : restoring'[q] = None \/ restoring'[q] = restoring[q]
      BY <1>8 DEF CommitRestore, BackupInv, RestoreInv
    <2>5. QED
      BY <1>1, <2>3, <2>4
  <1>9. ASSUME NEW p \in Restorer, RestoreFails(p)
        PROVE  (\A q \in Restorer : Fine(restoring'[q])) /\ Typed(target')
    <2>1. Fine(None)
      OBVIOUS
    <2> HIDE DEF Fine
    <2>2. QED
      BY <1>3, <1>9, <2>1 DEF RestoreFails
  <1>10. CASE TargetWrites
    <2>1. PICK p \in Profile : target' = [target EXCEPT !.profile = p]
      BY <1>10 DEF TargetWrites
    <2>2. /\ IsRecord(target)
          /\ restoring' = restoring
      BY <1>10 DEF TargetWrites, BackupInv, RestoreInv, Consistent
    <2>3. /\ target'.profile = p
          /\ target'.leads = target.leads /\ target'.suppressions = target.suppressions
          /\ target'.campaigns = target.campaigns /\ target'.drafts = target.drafts
          /\ target'.events = target.events
      BY <2>1, <2>2 DEF IsRecord
    <2>4. Typed(target')
      BY <1>2, <2>3, TypedByTable
    <2>5. \A q \in Restorer : restoring'[q] = restoring[q]
      BY <2>2
    <2> HIDE DEF Fine
    <2>6. QED
      BY <1>1, <2>4, <2>5
  <1>11. CASE UNCHANGED restoreVars
    BY <1>1, <1>2, <1>11 DEF restoreVars
  <1>12. QED
    <2>1. \/ \E p \in Restorer : \/ ReadBackup(p) \/ BeginRestore(p) \/ InsertTable(p)
                                 \/ CommitRestore(p) \/ RestoreFails(p)
          \/ TargetWrites
          \/ UNCHANGED restoreVars
      BY DEF BackupNext, allVars, restoreVars, SourceCreate, SourceUpdate, SourceChange,
             BeginBackup, ReadTable, CreateFile, FinishFile, BackupCrashes,
             copy_workspace
    <2> HIDE DEF Fine
    <2>2. QED
      BY <1>4, <1>6, <1>7, <1>8, <1>9, <1>10, <1>11, <2>1

\* What is read, written, restored and kept are the six tables, row by row of
\* their types.
THEOREM BackupTypesHold == BackupSpec => []BackupTypeOK
  <1>1. BackupInv /\ TypesInv /\ [BackupNext]_allVars => TypesInv'
    <2> SUFFICES ASSUME BackupInv, TypesInv, [BackupNext]_allVars PROVE TypesInv'
      OBVIOUS
    <2>1. QED
      BY BackupTypes, RestoreTypes DEF TypesInv, FullRows, AreRows, Typed
  <1>2. BackupInv /\ TypesInv => BackupTypeOK
    <2>1. DOMAIN WORKSPACE_TABLES = 1..6 /\ Len(WORKSPACE_TABLES) = 6
      BY DEF WORKSPACE_TABLES
    <2>2. QED
      BY <2>1 DEF BackupInv, SourceInv, TypesInv, FullRows, Typed, BackupTypeOK
  <1>3. QED
    BY <1>1, <1>2, TypesInit, BackupInvHolds, PTL DEF BackupSpec

(***************************************************************************)
(* The source, seen alone.                                                 *)
(***************************************************************************)

\* A workspace that is backed up, and that another is restored from, behaves as
\* a workspace does: neither program writes to it.
THEOREM SourceIsAWorkspace == BackupSpec => Spec
  <1>1. BackupInit => Init
    BY DEF BackupInit
  <1>2. [BackupNext]_allVars => [Next]_vars
    BY DEF BackupNext, allVars, vars, SourceCreate, SourceUpdate, SourceChange,
           Next, CreateLead, UpdateLead, BeginBackup, ReadTable, CreateFile,
           FinishFile, BackupCrashes, copy_workspace, ReadBackup, BeginRestore,
           InsertTable, CommitRestore, RestoreFails, TargetWrites
  <1>3. QED
    BY <1>1, <1>2, PTL DEF BackupSpec, Spec
=============================================================================
