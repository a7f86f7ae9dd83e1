---------------------------- MODULE Prospecting ----------------------------
(***************************************************************************)
(* The workspace of one user: leads, the opposition list, campaigns with   *)
(* their three drafts per lead, the declared sends and the journal, as     *)
(* backend/app/prospecting.py keeps them (and, statement for statement,    *)
(* frontend/src/lib/workspace-service.ts).                                 *)
(*                                                                         *)
(* Every handler that writes runs in one transaction under the writer lock *)
(* of workspace_store.connect, so a handler is one action here; module     *)
(* WorkspaceStore is about that lock.  A request the code refuses (404,    *)
(* 409, 422, or a duplicate that is returned unchanged) writes nothing and *)
(* is a stuttering step.                                                   *)
(*                                                                         *)
(* Data.  A lead keeps the fields some rule reads: the address, the SIREN, *)
(* the pair lower(company_name), lower(city) as one "place", whether       *)
(* "source" is filled in, "qualified" and the status.  Timestamps are a    *)
(* clock.  The empty string and NULL are None.                             *)
(***************************************************************************)
EXTENDS Naturals, FiniteSets, Sequences

CONSTANTS
    LeadId, CampaignId,         \* the uuid4 values still to be drawn
    Email, Siren, Place,        \* non-empty keys of a lead
    None,                       \* '' or NULL
    Outcomes,                   \* the statuses "replied", "meeting", "won", "lost"
    Profile,                    \* sender profiles
    DefaultProfile,             \* Profile() before any PUT /profile
    CompleteProfile,            \* those with sender_name, sender_email, offer, target
    Text, Template,             \* texts of a draft; the one build_sequence writes
    LeadInputs,                 \* the lead forms the user submits
    MaxBatch,                   \* bound: rows of one import
    FollowUpDelay,              \* four days
    MaxTime                     \* bound: the clock stops there

Steps == 1..3

Status == {"new", "contacted", "do_not_contact"} \cup Outcomes

STOP_STATUSES == {"do_not_contact"} \cup Outcomes

LeadInput == [email : Email \cup {None}, siren : Siren \cup {None},
              place : Place, sourced : BOOLEAN, qualified : BOOLEAN]

LeadRow == [email : Email \cup {None}, siren : Siren \cup {None},
            place : Place, sourced : BOOLEAN, qualified : BOOLEAN,
            status : Status]

Sequence == [campaign : CampaignId, footer : Profile,
             text : [Steps -> Text], sentAt : [Steps -> Nat \cup {None}]]

\* "told" is the last event that tells of a status: a "status" event with the
\* status it carries, a "manual_send", which names none, or no such event yet.
JournalPage == [created : Nat, drafted : Nat, sends : Seq(Steps),
                told : Status \cup {"manual_send", None}]

ASSUME DataAssumption ==
    /\ Outcomes \subseteq {"replied", "meeting", "won", "lost"}
    /\ None \notin Email \cup Siren \cup CampaignId \cup Profile \cup Nat
    /\ None \notin Status \cup LeadRow \cup Sequence
    /\ DefaultProfile \in Profile \ CompleteProfile
    /\ CompleteProfile \subseteq Profile
    /\ Template \in Text
    /\ LeadInputs \subseteq LeadInput

ASSUME BoundAssumption ==
    /\ MaxBatch \in Nat
    /\ FollowUpDelay \in Nat
    /\ MaxTime \in Nat

VARIABLES
    leads,      \* table leads: [LeadId -> row, or None while the id is unused]
    suppressed, \* table suppressions: the opposed addresses
    profile,    \* table profile
    campaigns,  \* table campaigns: the profile snapshot of each, or None
    drafts,     \* table drafts: the sequence of each lead, or None
    journal,    \* table events, per lead, as far as the rules below read it
    reached,    \* history: the addresses each lead's sends were declared for
    clock       \* datetime.now(UTC)

vars == <<leads, suppressed, profile, campaigns, drafts, journal, reached, clock>>

Known == {l \in LeadId : leads[l] # None}

Drafted == {l \in LeadId : drafts[l] # None}

Sent(l, s) == drafts[l].sentAt[s] # None

-----------------------------------------------------------------------------
(* Rules the handlers share.                                               *)

\* Two rows a workspace may not hold both: prospecting.duplicate.
Clash(a, b) ==
    \/ a.email # None /\ a.email = b.email
    \/ a.siren # None /\ a.siren = b.siren
    \/ a.place = b.place /\ a.email = b.email

duplicate(input, exclude) ==
    \E m \in Known \ exclude : Clash(leads[m], input)

\* An empty email is never suppressed: None is not in the table.
is_suppressed(email) == email \in suppressed

\* prospecting.eligibility returns no reason.
eligibility(row) ==
    /\ row.status \notin STOP_STATUSES
    /\ row.email # None
    /\ row.sourced
    /\ row.qualified

NewRow(input) ==
    [email |-> input.email, siren |-> input.siren, place |-> input.place,
     sourced |-> input.sourced, qualified |-> input.qualified,
     status |-> IF is_suppressed(input.email) THEN "do_not_contact" ELSE "new"]

NewPage == [created |-> 1, drafted |-> 0, sends |-> <<>>, told |-> None]

BlankPage == [NewPage EXCEPT !.created = 0]

-----------------------------------------------------------------------------
(* Leads.                                                                  *)

create_lead(l, input) ==
    /\ leads[l] = None
    /\ ~duplicate(input, {})
    /\ leads' = [leads EXCEPT ![l] = NewRow(input)]
    /\ journal' = [journal EXCEPT ![l] = NewPage]
    /\ UNCHANGED <<suppressed, profile, campaigns, drafts, reached, clock>>

\* The rows of a batch add_leads keeps: no duplicate in the table as it was
\* read before the loop, and none among the rows kept before it.  A rejected
\* row is not in the set, so it reserves none of its keys.
Kept_NoBatchDuplicates(batch) ==
    {A \in SUBSET DOMAIN batch :
        \A i \in DOMAIN batch : i \in A <=> ~duplicate(batch[i], {})}

Kept(batch) ==
    {A \in SUBSET DOMAIN batch :
        \A i \in DOMAIN batch :
            i \in A <=> /\ ~duplicate(batch[i], {})
                        /\ \A j \in A : j < i => ~Clash(batch[j], batch[i])}

\* POST /leads/batch and POST /leads/import: id[i] is the uuid of row i.
add_leads(batch, A, id) ==
    /\ A \in Kept(batch)
    /\ \A i \in A : leads[id[i]] = None
    /\ \A i, j \in A : id[i] = id[j] => i = j
    /\ leads' = [l \in LeadId |->
                    IF \E i \in A : id[i] = l
                    THEN NewRow(batch[CHOOSE i \in A : id[i] = l])
                    ELSE leads[l]]
    /\ journal' = [l \in LeadId |->
                      IF \E i \in A : id[i] = l THEN NewPage ELSE journal[l]]
    /\ UNCHANGED <<suppressed, profile, campaigns, drafts, reached, clock>>

\* A sequence was written for one address: it may not change under it.
AddressMayChange_Always(l, input) == TRUE

AddressMayChange(l, input) ==
    leads[l].email # input.email => drafts[l] = None

\* "do_not_contact" is terminal, and an opposed address can only be given to
\* a lead that is opposed too.
OppositionKept_NotTerminal(l, input, status) ==
    is_suppressed(input.email) => status = "do_not_contact"

OppositionKept_AnyAddress(l, input, status) ==
    leads[l].status = "do_not_contact" => status = "do_not_contact"

OppositionKept(l, input, status) ==
    /\ leads[l].status = "do_not_contact" => status = "do_not_contact"
    /\ is_suppressed(input.email) => status = "do_not_contact"

\* {old["email"], data.email} - {""}
Opposed_WithEmpty(old, new) == {old, new}

Opposed_OldOnly(old, new) == {old} \ {None}

Opposed(old, new) == {old, new} \ {None}

ToldAfter_Unlogged(l, status) == journal[l].told

\* The "status" event of an edit, written only when the status changes.
ToldAfter(l, status) ==
    IF status # leads[l].status THEN status ELSE journal[l].told

update_lead(l, input, status) ==
    /\ l \in Known
    /\ ~duplicate(input, {l})
    /\ AddressMayChange(l, input)
    /\ OppositionKept(l, input, status)
    /\ leads' = [leads EXCEPT ![l] =
                    [email |-> input.email, siren |-> input.siren,
                     place |-> input.place, sourced |-> input.sourced,
                     qualified |-> input.qualified /\ input.email = leads[l].email,
                     status |-> status]]
    /\ suppressed' = IF status = "do_not_contact"
                     THEN suppressed \cup Opposed(leads[l].email, input.email)
                     ELSE suppressed
    /\ journal' = [journal EXCEPT ![l].told = ToldAfter(l, status)]
    /\ UNCHANGED <<profile, campaigns, drafts, reached, clock>>

-----------------------------------------------------------------------------
(* Profile, campaigns and drafts.                                          *)

save_profile(p) ==
    /\ profile' = p
    /\ UNCHANGED <<leads, suppressed, campaigns, drafts, journal, reached, clock>>

\* The leads of a campaign request that get a sequence; the others are
\* reported as skipped.
Selected_Redrafted(ids) ==
    {l \in ids : eligibility(leads[l]) /\ ~is_suppressed(leads[l].email)}

Selected(ids) ==
    {l \in ids : /\ eligibility(leads[l])
                 /\ ~is_suppressed(leads[l].email)
                 /\ drafts[l] = None}

build_sequence(c) ==
    [campaign |-> c, footer |-> profile,
     text |-> [s \in Steps |-> Template], sentAt |-> [s \in Steps |-> None]]

create_campaign(c, ids) ==
    /\ profile \in CompleteProfile
    /\ ids \subseteq Known
    /\ Selected(ids) # {}
    /\ campaigns[c] = None
    /\ campaigns' = [campaigns EXCEPT ![c] = profile]
    /\ drafts' = [l \in LeadId |->
                     IF l \in Selected(ids) THEN build_sequence(c) ELSE drafts[l]]
    /\ journal' = [l \in LeadId |->
                      IF l \in Selected(ids)
                      THEN [journal[l] EXCEPT !.drafted = @ + 1]
                      ELSE journal[l]]
    /\ UNCHANGED <<leads, suppressed, profile, reached, clock>>

MayEdit_Always(l, s) == drafts[l] # None

MayEdit(l, s) == drafts[l] # None /\ ~Sent(l, s)

update_draft(l, s, t) ==
    /\ MayEdit(l, s)
    /\ drafts' = [drafts EXCEPT ![l].text[s] = t]
    /\ UNCHANGED <<leads, suppressed, profile, campaigns, journal, reached, clock>>

\* The follow-up delay runs from the step just before, the greatest earlier
\* one (ORDER BY step DESC).
Elapsed_SinceFirst(l, s) ==
    s > 1 => clock >= drafts[l].sentAt[1] + FollowUpDelay

Elapsed(l, s) ==
    s > 1 => clock >= drafts[l].sentAt[s - 1] + FollowUpDelay

EarlierSent(l, s) == \A t \in Steps : t < s => Sent(l, t)

\* The conditions of prepare_draft and mark_sent.
actionable_draft(l, s) ==
    /\ drafts[l] # None
    /\ l \in Known
    /\ eligibility(leads[l])
    /\ ~is_suppressed(leads[l].email)
    /\ ~Sent(l, s)
    /\ EarlierSent(l, s)
    /\ Elapsed(l, s)

mark_sent(l, s) ==
    /\ actionable_draft(l, s)
    /\ drafts' = [drafts EXCEPT ![l].sentAt[s] = clock]
    /\ leads' = [leads EXCEPT ![l].status = "contacted"]
    /\ journal' = [journal EXCEPT ![l].sends = Append(@, s),
                                  ![l].told = "manual_send"]
    /\ reached' = [reached EXCEPT ![l] = @ \cup {leads[l].email}]
    /\ UNCHANGED <<suppressed, profile, campaigns, clock>>

Tick ==
    /\ clock < MaxTime
    /\ clock' = clock + 1
    /\ UNCHANGED <<leads, suppressed, profile, campaigns, drafts, journal, reached>>

LastSent_First(l) ==
    CHOOSE s \in Steps : Sent(l, s) /\ \A t \in Steps : Sent(l, t) => s <= t

\* The first of the drafts sent, in the reverse order of the steps.
LastSent(l) ==
    CHOOSE s \in Steps : Sent(l, s) /\ \A t \in Steps : Sent(l, t) => t <= s

\* serialize_lead's next_action_at: None when nothing is due ever, otherwise
\* the first time the next step may be sent.  A sequence not started yet is
\* due since the lead exists, which is in the past: 0.
NextActionAt(l) ==
    IF ~eligibility(leads[l]) \/ \A s \in Steps : Sent(l, s) THEN None
    ELSE IF \E s \in Steps : Sent(l, s)
         THEN drafts[l].sentAt[LastSent(l)] + FollowUpDelay
         ELSE 0

-----------------------------------------------------------------------------

Init ==
    /\ leads = [l \in LeadId |-> None]
    /\ suppressed = {}
    /\ profile = DefaultProfile
    /\ campaigns = [c \in CampaignId |-> None]
    /\ drafts = [l \in LeadId |-> None]
    /\ journal = [l \in LeadId |-> BlankPage]
    /\ reached = [l \in LeadId |-> {}]
    /\ clock = 0

CreateLead == \E l \in LeadId, input \in LeadInputs : create_lead(l, input)

AddLeads ==
    \E n \in 1..MaxBatch : \E batch \in [1..n -> LeadInputs] :
        \E A \in Kept(batch) : \E id \in [A -> LeadId] : add_leads(batch, A, id)

UpdateLead ==
    \E l \in LeadId, input \in LeadInputs, status \in Status :
        update_lead(l, input, status)

SaveProfile == \E p \in Profile : save_profile(p)

CreateCampaign ==
    \E c \in CampaignId, ids \in SUBSET LeadId : create_campaign(c, ids)

UpdateDraft == \E l \in LeadId, s \in Steps, t \in Text : update_draft(l, s, t)

MarkSent == \E l \in LeadId, s \in Steps : mark_sent(l, s)

Next ==
    \/ CreateLead
    \/ AddLeads
    \/ UpdateLead
    \/ SaveProfile
    \/ CreateCampaign
    \/ UpdateDraft
    \/ MarkSent
    \/ Tick

Spec == Init /\ [][Next]_vars

-----------------------------------------------------------------------------
(* Properties.                                                             *)

\* The tables hold what the schema of init_workspace says.
TypeOK ==
    /\ leads \in [LeadId -> LeadRow \cup {None}]
    /\ suppressed \subseteq Email
    /\ profile \in Profile
    /\ campaigns \in [CampaignId -> Profile \cup {None}]
    /\ drafts \in [LeadId -> Sequence \cup {None}]
    /\ journal \in [LeadId -> JournalPage]
    /\ reached \in [LeadId -> SUBSET Email]
    /\ clock \in 0..MaxTime

\* No two leads share an address, a SIREN, or a company, city and address,
\* whichever of single creation, import (also of two rows of one file) and
\* edit brought them in: what the handlers promise with duplicate(), and what
\* the two unique indexes would turn into a server error.
KeysUnique ==
    \A l, m \in Known : l # m =>
        /\ leads[l].email # None => leads[l].email # leads[m].email
        /\ leads[l].siren # None => leads[l].siren # leads[m].siren
        /\ <<leads[l].place, leads[l].email>> # <<leads[m].place, leads[m].email>>

\* The opposition list and the statuses never disagree: a lead with an address
\* is "do_not_contact" exactly when that address is opposed.  Sending checks
\* both; the summary of GET /workspace looks at the status alone.
OppositionAgrees ==
    \A l \in Known : leads[l].email # None =>
        (leads[l].status = "do_not_contact" <=> leads[l].email \in suppressed)

\* The declared sends of a sequence are a prefix of its steps, each at least
\* the follow-up delay after the one before, and none is in the future.
FollowUpsSpaced ==
    \A l \in Drafted : \A s \in Steps : Sent(l, s) =>
        /\ drafts[l].sentAt[s] <= clock
        /\ s > 1 => /\ Sent(l, s - 1)
                    /\ drafts[l].sentAt[s] >= drafts[l].sentAt[s - 1] + FollowUpDelay

\* What the list shows as due is what the server will accept: next_action_at,
\* computed from the status and the last send, has come exactly when some step
\* of the sequence passes actionable_draft, which reads other data.
NextActionIsHonest ==
    \A l \in Drafted :
        (NextActionAt(l) # None /\ NextActionAt(l) <= clock)
            <=> \E s \in Steps : actionable_draft(l, s)

\* Nobody is approached twice: the sends of a lead all went to one address,
\* and no other lead ever wrote to it, edits of both leads included.
OneSequencePerAddress ==
    /\ \A l \in LeadId : \A e, f \in reached[l] : e = f
    /\ \A l, m \in LeadId : l # m => reached[l] \cap reached[m] = {}

\* The journal accounts for the tables: one "created" per lead, one "drafted"
\* per sequence, one "manual_send" per sent step in order, and they explain the
\* present status although a send writes no "status" event and an edit writes one
\* only for a change: the last event that tells of a status names the present one,
\* or is a send and the lead is "contacted", or there is none and the lead has the
\* status it was created with.
JournalAccounts ==
    \A l \in LeadId :
        /\ journal[l].created = IF l \in Known THEN 1 ELSE 0
        /\ journal[l].drafted = IF l \in Drafted THEN 1 ELSE 0
        /\ l \in Drafted =>
             /\ \A i \in DOMAIN journal[l].sends : journal[l].sends[i] = i
             /\ \A s \in Steps : Sent(l, s) <=> s \in DOMAIN journal[l].sends
        /\ l \in Known =>
             \/ journal[l].told = leads[l].status
             \/ journal[l].told = "manual_send" /\ leads[l].status = "contacted"
             \/ journal[l].told = None /\ leads[l].status \in {"new", "do_not_contact"}

\* Every campaign stands for the sequences it created, and each sequence keeps
\* the sender its campaign recorded, whatever the profile became.
CampaignsAreWhole ==
    /\ \A c \in CampaignId :
         campaigns[c] # None => \E l \in Drafted : drafts[l].campaign = c
    /\ \A l \in Drafted : campaigns[drafts[l].campaign] = drafts[l].footer

\* Opposition is for good: no step takes an address off the list, brings an
\* opposed lead back, or declares a message of a sequence, the first or a
\* follow-up, sent while the lead's address is opposed.
OppositionIsFinal ==
    [][/\ suppressed \subseteq suppressed'
       /\ \A l \in Known :
            leads[l].status = "do_not_contact" => leads[l]'.status = "do_not_contact"
       /\ \A l \in Drafted, s \in Steps :
            ~Sent(l, s) /\ drafts[l]'.sentAt[s] # None =>
                leads[l].email \notin suppressed]_vars

\* Seen from the people written to, the workspace is Outreach: whatever becomes of
\* the leads, one person gets the three messages of one sequence, in order and
\* spaced, and none after opposing.
LettersTo(e) ==
    LET writers == {l \in LeadId : e \in reached[l]}
    IN  IF writers = {} THEN [s \in Steps |-> None]
        ELSE drafts[CHOOSE l \in writers : TRUE].sentAt

People == INSTANCE Outreach WITH
    opposed <- suppressed,
    letters <- [e \in Email |-> LettersTo(e)]

IsOutreach == People!Spec

\* What was declared sent is kept as it was: text, time, footer and campaign of
\* a sent step never change, and no sequence disappears.
SentIsFrozen ==
    [][\A l \in Drafted :
         /\ drafts[l]' # None
         /\ <<drafts[l].campaign, drafts[l].footer>>
              = <<drafts[l]'.campaign, drafts[l]'.footer>>
         /\ \A s \in Steps : Sent(l, s) =>
              <<drafts[l].text[s], drafts[l].sentAt[s]>>
                = <<drafts[l]'.text[s], drafts[l]'.sentAt[s]>>]_vars
=============================================================================
