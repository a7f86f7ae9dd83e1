--------------------------- MODULE BrowserClient ---------------------------
(***************************************************************************)
(* One browser tab on a lead (frontend/src/app/campaign/workspace.tsx,     *)
(* frontend/src/lib/api.ts), composed with the workspace of Prospecting    *)
(* that every other tab and client goes on changing.                       *)
(*                                                                         *)
(* The tab works on the copy of the lead its last GET .../detail returned. *)
(* "call" is the request "perform" awaits.  api() stops waiting after 25   *)
(* seconds, and the server may still execute what the tab gave up on: it   *)
(* stays in "late".  A refused request looks to the tab like one it gave   *)
(* up on: an error message and the old copy.                               *)
(*                                                                         *)
(* A read is answered from the state it is served in; that the answer      *)
(* travels makes the copy older, which it may become at any time anyway.   *)
(* The text of a draft, edited in this tab or in another, is UpdateDraft   *)
(* of the environment; no property below reads it.                         *)
(***************************************************************************)
EXTENDS Prospecting

CONSTANTS
    MaxLate,                    \* bound: requests given up on at one time
    ClockSkew                   \* bound: how far the browser's clock may be ahead

ASSUME LateAssumption == MaxLate \in Nat

ASSUME SkewAssumption == ClockSkew \in Nat

VARIABLES
    shown,      \* "detail" of CampaignWorkspace, or None while no lead is open
    prepared,   \* "prepared" of DraftEditor: the message ready to be mailed
    call,       \* the request in flight of this tab, or None ("busy")
    late,       \* requests given up on that the server may still execute
    mailed,     \* history: what was really sent from a mail client
    decided,    \* history: the last status somebody chose for each lead
    toldOpposed \* history: leads whose opposition this tab was told is saved

tabVars == <<shown, prepared, call, late, mailed, decided, toldOpposed>>

allVars == <<vars, tabVars>>

Copy == [lead : LeadId, row : LeadRow, seq : Sequence \cup {None},
         next : Nat \cup {None}]

Message == [lead : LeadId, step : Steps, to : Email]

SaveRequest == [op : {"save"}, lead : LeadId, input : LeadInputs,
                status : Status, chosen : BOOLEAN]

MarkSentRequest == [op : {"mark-sent"}, lead : LeadId, step : Steps]

CampaignRequest == [op : {"campaign"}, lead : LeadId]

WriteRequest == SaveRequest \cup MarkSentRequest \cup CampaignRequest

ReadRequest == [op : {"prepare"}, lead : LeadId, step : Steps]
                 \cup [op : {"detail"}, lead : LeadId]

ASSUME RequestAssumption == None \notin WriteRequest \cup ReadRequest

-----------------------------------------------------------------------------
(* What the tab shows.                                                     *)

\* GET /leads/{id}/detail.
lead_detail(l) ==
    [lead |-> l, row |-> leads[l], seq |-> drafts[l],
     next |-> IF drafts[l] = None THEN None ELSE NextActionAt(l)]

Detail(l) == [op |-> "detail", lead |-> l]

SentCount(seq) == Cardinality({s \in Steps : seq.sentAt[s] # None})

\* What new Date() of the browser may have said when the tab was last rendered:
\* its clock may be behind, or ahead by ClockSkew, and the rendering be old.
BrowserTime == 0..(clock + ClockSkew)

\* DraftEditor's "actionable" on the copy, rendered when the browser's clock said
\* "at": the button that prepares a message.
CanPrepare_AnyStep(s, at) ==
    /\ shown.seq # None
    /\ eligibility(shown.row)
    /\ shown.next # None
    /\ shown.next <= at
    /\ shown.seq.sentAt[s] = None

CanPrepare(s, at) ==
    /\ shown.seq # None
    /\ eligibility(shown.row)
    /\ shown.next # None
    /\ shown.next <= at
    /\ s = SentCount(shown.seq) + 1
    /\ shown.seq.sentAt[s] = None

\* A status changes because somebody chose it, or because a saved form carried
\* the one it was opened with.
Decide(deliberate) ==
    decided' = [l \in LeadId |->
        IF /\ deliberate
           /\ leads'[l] # None
           /\ leads[l] # None => leads[l].status # leads'[l].status
        THEN leads'[l].status ELSE decided[l]]

-----------------------------------------------------------------------------
(* The user.                                                               *)

OpenLead(l) ==
    /\ shown = None
    /\ call = None
    /\ l \in Known
    /\ call' = Detail(l)
    /\ UNCHANGED <<vars, shown, prepared, late, mailed, decided, toldOpposed>>

\* The dialog closes at any time, also while a request is in flight.
CloseLead ==
    /\ shown # None
    /\ shown' = None
    /\ prepared' = None
    /\ UNCHANGED <<vars, call, late, mailed, decided, toldOpposed>>

\* LeadForm sends the whole record: the fields and the status it was opened
\* with, or those the user changed.  The status of an opposed lead cannot be
\* changed here.  The form is on another view than the drafts, which forget
\* what they prepared when that view is left.
SaveLead_KeepsPrepared(input, status) ==
    /\ shown # None
    /\ call = None
    /\ shown.row.status = "do_not_contact" => status = "do_not_contact"
    /\ call' = [op |-> "save", lead |-> shown.lead, input |-> input,
                status |-> status, chosen |-> status # shown.row.status]
    /\ UNCHANGED <<vars, shown, prepared, late, mailed, decided, toldOpposed>>

SaveLead(input, status) ==
    /\ shown # None
    /\ call = None
    /\ shown.row.status = "do_not_contact" => status = "do_not_contact"
    /\ call' = [op |-> "save", lead |-> shown.lead, input |-> input,
                status |-> status, chosen |-> status # shown.row.status]
    /\ prepared' = None
    /\ UNCHANGED <<vars, shown, late, mailed, decided, toldOpposed>>

PrepareMessage(s) ==
    /\ shown # None
    /\ call = None
    /\ \E at \in BrowserTime : CanPrepare(s, at)
    /\ call' = [op |-> "prepare", lead |-> shown.lead, step |-> s]
    /\ UNCHANGED <<vars, shown, prepared, late, mailed, decided, toldOpposed>>

\* The mailto link, and the user's own mail client after it.
SendMail ==
    /\ prepared # None
    /\ mailed' = mailed \cup {prepared}
    /\ UNCHANGED <<vars, shown, prepared, call, late, decided, toldOpposed>>

\* "I sent this message": offered beside a prepared message only.
DeclareSent ==
    /\ prepared # None
    /\ call = None
    /\ prepared \in mailed
    /\ call' = [op |-> "mark-sent", lead |-> prepared.lead, step |-> prepared.step]
    /\ UNCHANGED <<vars, shown, prepared, late, mailed, decided, toldOpposed>>

\* From the empty list of messages of a lead that is ready.
RequestCampaign ==
    /\ shown # None
    /\ call = None
    /\ shown.seq = None
    /\ eligibility(shown.row)
    /\ call' = [op |-> "campaign", lead |-> shown.lead]
    /\ shown' = None
    /\ prepared' = None
    /\ UNCHANGED <<vars, late, mailed, decided, toldOpposed>>

-----------------------------------------------------------------------------
(* The server and the answers.                                             *)

Serve(r) ==
    \/ /\ r \in SaveRequest
       /\ update_lead(r.lead, r.input, r.status)
       /\ Decide(r.chosen)
    \/ /\ r \in MarkSentRequest
       /\ mark_sent(r.lead, r.step)
       /\ Decide(TRUE)
    \/ /\ r \in CampaignRequest
       /\ \E c \in CampaignId : create_campaign(c, {r.lead})
       /\ Decide(TRUE)

\* A write that is answered: the tab drops the prepared message after a
\* declared send, and reads the lead again after a save or a declared send.
Answered ==
    /\ call \in WriteRequest
    /\ Serve(call)
    /\ call' = IF call \in CampaignRequest THEN None ELSE Detail(call.lead)
    /\ prepared' = IF call \in MarkSentRequest THEN None ELSE prepared
    /\ toldOpposed' = IF call \in SaveRequest /\ call.status = "do_not_contact"
                    THEN toldOpposed \cup {call.lead} ELSE toldOpposed
    /\ UNCHANGED <<shown, late, mailed>>

\* POST /drafts/{id}/prepare writes nothing.
prepare_draft ==
    /\ call # None /\ call.op = "prepare"
    /\ actionable_draft(call.lead, call.step)
    /\ prepared' = [lead |-> call.lead, step |-> call.step,
                    to |-> leads[call.lead].email]
    /\ call' = Detail(call.lead)
    /\ UNCHANGED <<vars, shown, late, mailed, decided, toldOpposed>>

\* LeadDetail is keyed by updated_at: when the lead changed since it was last
\* read it is mounted anew, without the prepared message.  updated_at is not
\* modelled: a save that changed nothing may also have moved it.
ShowDetail ==
    /\ call # None /\ call.op = "detail"
    /\ shown' = lead_detail(call.lead)
    /\ call' = None
    /\ \/ prepared' = None
       \/ /\ shown # None /\ shown.lead = call.lead /\ shown.row = leads[call.lead]
          /\ UNCHANGED prepared
    /\ UNCHANGED <<vars, late, mailed, decided, toldOpposed>>

\* AbortSignal.timeout, a broken connection or a refusal.
GiveUp ==
    /\ call # None
    /\ call' = None
    /\ \/ UNCHANGED late
       \/ /\ call \in WriteRequest
          /\ Cardinality(late) < MaxLate
          /\ late' = late \cup {call}
    /\ UNCHANGED <<vars, shown, prepared, mailed, decided, toldOpposed>>

ServeLate ==
    /\ \E r \in late : Serve(r) /\ late' = late \ {r}
    /\ UNCHANGED <<shown, prepared, call, mailed, toldOpposed>>

\* Other tabs and clients, each with a view of its own that is up to date.
Others ==
    /\ \/ CreateLead \/ UpdateLead \/ SaveProfile \/ CreateCampaign \/ Tick
    /\ Decide(TRUE)
    /\ UNCHANGED <<shown, prepared, call, late, mailed, toldOpposed>>

OthersSend ==
    /\ \E l \in LeadId, s \in Steps :
         /\ mark_sent(l, s)
         /\ mailed' = mailed \cup {[lead |-> l, step |-> s, to |-> leads[l].email]}
    /\ Decide(TRUE)
    /\ UNCHANGED <<shown, prepared, call, late, toldOpposed>>

-----------------------------------------------------------------------------

TabInit ==
    /\ Init
    /\ shown = None
    /\ prepared = None
    /\ call = None
    /\ late = {}
    /\ mailed = {}
    /\ decided = [l \in LeadId |-> None]
    /\ toldOpposed = {}

TabNext ==
    \/ \E l \in LeadId : OpenLead(l)
    \/ CloseLead
    \/ \E input \in LeadInputs, status \in Status : SaveLead(input, status)
    \/ \E s \in Steps : PrepareMessage(s)
    \/ SendMail
    \/ DeclareSent
    \/ RequestCampaign
    \/ Answered
    \/ prepare_draft
    \/ ShowDetail
    \/ GiveUp
    \/ ServeLate
    \/ Others
    \/ OthersSend

TabSpec == TabInit /\ [][TabNext]_allVars

-----------------------------------------------------------------------------
(* Properties.                                                             *)

\* What is declared sent was sent: every step the tables call sent was mailed,
\* to the address the lead still has.  Between the mail and the declaration the
\* lead may be edited from anywhere, and declarations may arrive late.
DeclaredWasMailed ==
    \A l \in Drafted : \A s \in Steps : Sent(l, s) =>
        [lead |-> l, step |-> s, to |-> leads[l].email] \in mailed

\* On an up-to-date copy the tab and the server agree on the step to prepare but
\* for their clocks: the two rules are written apart, over different data.  A
\* browser whose clock is not behind offers every step the server accepts; one
\* whose clock is not ahead offers none the server refuses.
ButtonIsHonest ==
    shown # None /\ shown.row = leads[shown.lead] /\ shown.seq = drafts[shown.lead] =>
        \A s \in Steps, at \in BrowserTime :
            /\ actionable_draft(shown.lead, s) /\ at >= clock => CanPrepare(s, at)
            /\ CanPrepare(s, at) /\ at <= clock => actionable_draft(shown.lead, s)

\* Once this tab was told an opposition is saved, it never again has a message
\* to mail to that lead, whatever is late and whatever its copy still says.
ToldOppositionHolds ==
    \A l \in toldOpposed : prepared # None => prepared.lead # l

\* "A reply, a meeting or an opposition stops the follow-ups": while the last
\* status somebody chose is one of these, no step can be sent.
AnswersStopFollowUps ==
    \A l \in Drafted : decided[l] \in STOP_STATUSES =>
        \A s \in Steps : ~actionable_draft(l, s)
=============================================================================
