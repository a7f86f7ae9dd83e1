---------------------------- MODULE BrowserProofs ---------------------------
(***************************************************************************)
(* Machine-checked proofs about BrowserClient, for any number of leads and *)
(* of requests that are late.                                              *)
(*                                                                         *)
(*   DeclaredStaysMailed   DeclaredWasMailed                               *)
(*   OppositionIsHeard     ToldOppositionHolds                             *)
(*   ButtonStaysHonest     ButtonIsHonest                                  *)
(*   TabIsAWorkspace       TabSpec implements Prospecting's Spec, so every *)
(*                         theorem about Spec holds of the workspace here  *)
(*                                                                         *)
(* The first three rest on what never changes under the tab: the address   *)
(* of a lead that has a sequence, an opposition, and the way               *)
(* next_action_at follows from the row and the sequence that were copied   *)
(* with it.                                                                *)
(***************************************************************************)
EXTENDS BrowserClient, ProspectingProofs, FiniteSetTheorems

(***************************************************************************)
(* The workspace under the tab.                                            *)
(***************************************************************************)

\* What the proofs about Prospecting establish of the workspace.
WorkspaceInv ==
    /\ TypeOK
    /\ NoClash
    /\ OppositionAgrees
    /\ PagesAccount
    /\ FollowUpsSpaced

\* What the server executes for a request is a handler's step.
LEMMA ServedIsStep ==
    ASSUME NEW r, Serve(r)
    PROVE  Next
  <1>1. CASE r \in SaveRequest /\ update_lead(r.lead, r.input, r.status)
    BY <1>1 DEF SaveRequest, UpdateLead, Next
  <1>2. CASE r \in MarkSentRequest /\ mark_sent(r.lead, r.step)
    BY <1>2 DEF MarkSentRequest, MarkSent, Next
  <1>3. CASE r \in CampaignRequest /\ \E c \in CampaignId : create_campaign(c, {r.lead})
    <2>1. {r.lead} \in SUBSET LeadId
      BY <1>3 DEF CampaignRequest
    <2>2. QED
      BY <1>3, <2>1 DEF CreateCampaign, Next
  <1>4. QED
    BY <1>1, <1>2, <1>3 DEF Serve

\* Whatever the tab and the others do, the workspace takes a step of its own.
LEMMA TabTakesStep ==
    ASSUME [TabNext]_allVars
    PROVE  [Next]_vars
  <1>1. CASE Answered \/ ServeLate
    BY <1>1, ServedIsStep DEF Answered, ServeLate
  <1>2. CASE Others \/ OthersSend
    BY <1>2 DEF Others, OthersSend, MarkSent, Next
  <1>3. CASE ~(Answered \/ ServeLate \/ Others \/ OthersSend)
    BY <1>3 DEF TabNext, allVars, vars, OpenLead, CloseLead, SaveLead, PrepareMessage,
                SendMail, DeclareSent, RequestCampaign, prepare_draft, ShowDetail, GiveUp
  <1>4. QED
    BY <1>1, <1>2, <1>3

\* Under a tab, whatever it gives up on and whatever is served late, the
\* workspace behaves as one nobody watches.
THEOREM TabIsAWorkspace == TabSpec => Spec
  <1>1. TabInit => Init
    BY DEF TabInit
  <1>2. QED
    BY <1>1, TabTakesStep, PTL DEF TabSpec, Spec

\* The invariant of the workspace holds under the tab.
LEMMA WorkspaceStep ==
    ASSUME WorkspaceInv, [Next]_vars
    PROVE  WorkspaceInv'
  BY StepType, KeysStep, OppositionStep, PagesStep, SpacingStep DEF WorkspaceInv

\* The address of a lead that has a sequence does not change any more.
LEMMA AddressStays ==
    ASSUME WorkspaceInv, [Next]_vars, NEW x \in LeadId, drafts[x] # None
    PROVE  /\ drafts'[x] # None
           /\ leads'[x].email = leads[x].email
  <1>0. drafts'[x] # None /\ leads[x] # None /\ leads[x] \in LeadRow
    BY SequencesStay DEF WorkspaceInv, PagesAccount, Accounted, TypeOK
  <1>1. CASE CreateLead
    BY <1>0, <1>1 DEF CreateLead, create_lead
  <1>2. CASE AddLeads
    BY <1>0, <1>2, KnownStays
  <1>3. CASE UpdateLead
    <2>1. PICK l \in LeadId, input \in LeadInputs, status \in Status :
            update_lead(l, input, status)
      BY <1>3 DEF UpdateLead
    <2>2. CASE x = l
      <3>1. leads'[x].email = input.email
        BY <2>1, <2>2 DEF update_lead, WorkspaceInv, TypeOK
      <3>2. QED
        BY <1>0, <2>1, <2>2, <3>1 DEF update_lead, AddressMayChange
    <2>3. CASE x # l
      BY <1>0, <2>1, <2>3 DEF update_lead
    <2>4. QED
      BY <2>2, <2>3
  <1>4. CASE MarkSent
    <2>1. PICK l \in LeadId, s \in Steps : mark_sent(l, s)
      BY <1>4 DEF MarkSent
    <2>2. CASE x = l
      <3>1. leads'[x] = [leads[x] EXCEPT !.status = "contacted"]
        BY <2>1, <2>2 DEF mark_sent, WorkspaceInv, TypeOK
      <3>2. QED
        BY <1>0, <3>1 DEF LeadRow
    <2>3. CASE x # l
      BY <1>0, <2>1, <2>3 DEF mark_sent
    <2>4. QED
      BY <2>2, <2>3
  <1>5. CASE SaveProfile \/ CreateCampaign \/ UpdateDraft \/ Tick \/ UNCHANGED vars
    BY <1>0, <1>5 DEF SaveProfile, save_profile, CreateCampaign, create_campaign,
                      UpdateDraft, update_draft, Tick, vars
  <1>6. QED
    BY <1>1, <1>2, <1>3, <1>4, <1>5 DEF Next

\* A declared send is the only step that makes a step of a sequence sent.
LEMMA OneNewSend ==
    ASSUME TypeOK, NEW l \in LeadId, NEW s \in Steps, mark_sent(l, s),
           NEW x \in LeadId, NEW t \in Steps,
           drafts'[x] # None, drafts'[x].sentAt[t] # None
    PROVE  \/ x = l /\ t = s /\ drafts[x] # None
           \/ drafts[x] # None /\ drafts[x].sentAt[t] # None
  <1>1. CASE x = l
    <2>1. drafts[x] # None /\ drafts[x] \in Sequence
      BY <1>1 DEF mark_sent, actionable_draft, TypeOK
    <2>2. drafts'[x].sentAt = [drafts[x].sentAt EXCEPT ![s] = clock]
      BY <1>1, <2>1 DEF mark_sent, TypeOK, Sequence
    <2>3. QED
      BY <1>1, <2>1, <2>2 DEF Sequence
  <1>2. CASE x # l
    BY <1>2 DEF mark_sent
  <1>3. QED
    BY <1>1, <1>2

\* A new sequence has no sends.
LEMMA NoNewSend ==
    ASSUME TypeOK, CreateCampaign, NEW x \in LeadId, NEW t \in Steps,
           drafts'[x] # None, drafts'[x].sentAt[t] # None
    PROVE  drafts[x] # None /\ drafts[x].sentAt[t] # None
  <1>1. PICK c \in CampaignId, ids \in SUBSET LeadId : create_campaign(c, ids)
    BY DEF CreateCampaign
  <1>2. x \notin Selected(ids)
    BY <1>1 DEF create_campaign, build_sequence
  <1>3. QED
    BY <1>1, <1>2 DEF create_campaign

-----------------------------------------------------------------------------
(***************************************************************************)
(* Declared sends.                                                         *)
(***************************************************************************)

\* The tab's variables hold requests and messages of the application.
TabTypeOK ==
    /\ call # None => call \in WriteRequest \cup ReadRequest
    /\ late \subseteq WriteRequest
    /\ prepared # None => prepared \in Message
    /\ shown # None => shown.lead \in LeadId

\* The step was mailed to the address of the lead.
Mailed(l, s) ==
    /\ drafts[l] # None
    /\ [lead |-> l, step |-> s, to |-> leads[l].email] \in mailed

\* A prepared message names the address its lead has.
PreparedIsPresent ==
    prepared # None => /\ drafts[prepared.lead] # None
                       /\ prepared.to = leads[prepared.lead].email

\* Whoever declares a send, now or late, has mailed it.
DeclarationsAreTrue ==
    \A r \in MarkSentRequest :
        (call # None /\ r = call) \/ r \in late => Mailed(r.lead, r.step)

\* No step forgets or changes a mailed message.
LEMMA MailedStays ==
    ASSUME WorkspaceInv, [TabNext]_allVars, NEW l \in LeadId, NEW s \in Steps,
           Mailed(l, s)
    PROVE  Mailed(l, s)'
  <1>1. mailed \subseteq mailed'
    BY DEF TabNext, allVars, tabVars, OpenLead, CloseLead, SaveLead, PrepareMessage,
           SendMail, DeclareSent, RequestCampaign, Answered, prepare_draft,
           ShowDetail, GiveUp, ServeLate, Others, OthersSend
  <1>2. drafts'[l] # None /\ leads'[l].email = leads[l].email
    BY TabTakesStep, AddressStays DEF Mailed
  <1>3. QED
    BY <1>1, <1>2 DEF Mailed

\* The kinds of requests are told apart by their paths.
LEMMA RequestsDiffer ==
    /\ \A r \in MarkSentRequest : r.op = "mark-sent" /\ r.lead \in LeadId /\ r.step \in Steps
    /\ \A r \in SaveRequest : r.op = "save" /\ r.lead \in LeadId
    /\ \A r \in CampaignRequest : r.op = "campaign" /\ r.lead \in LeadId
    /\ \A r \in ReadRequest : r.op \in {"prepare", "detail"} /\ r.lead \in LeadId
    /\ \A r \in ReadRequest : r.op = "prepare" => r.step \in Steps
  BY DEF MarkSentRequest, SaveRequest, CampaignRequest, ReadRequest

\* A write the tab awaits or gave up on is a request.
LEMMA TabTypeStep ==
    ASSUME WorkspaceInv, TabTypeOK, [TabNext]_allVars
    PROVE  TabTypeOK'
  <1> USE DEF TabTypeOK
  <1>0. \A l \in LeadId : Detail(l) \in ReadRequest
    BY DEF Detail, ReadRequest
  <1>1. ASSUME NEW l \in LeadId, OpenLead(l)
        PROVE  TabTypeOK'
    BY <1>0, <1>1 DEF OpenLead
  <1>2. CASE CloseLead
    BY <1>2 DEF CloseLead
  <1>3. ASSUME NEW input \in LeadInputs, NEW status \in Status, SaveLead(input, status)
        PROVE  TabTypeOK'
    <2>1. call' \in SaveRequest
      BY <1>3 DEF SaveLead, SaveRequest
    <2>2. QED
      BY <1>3, <2>1 DEF SaveLead, WriteRequest
  <1>4. ASSUME NEW s \in Steps, PrepareMessage(s)
        PROVE  TabTypeOK'
    <2>1. call' \in ReadRequest
      BY <1>4 DEF PrepareMessage, ReadRequest
    <2>2. QED
      BY <1>4, <2>1 DEF PrepareMessage
  <1>5. CASE SendMail
    BY <1>5 DEF SendMail
  <1>6. CASE DeclareSent
    <2>1. call' \in MarkSentRequest
      BY <1>6 DEF DeclareSent, MarkSentRequest, Message
    <2>2. QED
      BY <1>6, <2>1 DEF DeclareSent, WriteRequest
  <1>7. CASE RequestCampaign
    <2>1. call' \in CampaignRequest
      BY <1>7 DEF RequestCampaign, CampaignRequest
    <2>2. QED
      BY <1>7, <2>1 DEF RequestCampaign, WriteRequest
  <1>8. CASE Answered
    <2>1. call.lead \in LeadId
      BY <1>8, RequestsDiffer DEF Answered, WriteRequest
    <2>2. call' = None \/ call' \in ReadRequest
      BY <1>0, <1>8, <2>1 DEF Answered
    <2>3. QED
      BY <1>8, <2>2 DEF Answered
  <1>9. CASE prepare_draft
    <2>1. call.lead \in LeadId /\ call.step \in Steps
      BY <1>9, RequestsDiffer DEF prepare_draft, WriteRequest
    <2>2. leads[call.lead].email \in Email
      BY <1>9, <2>1 DEF prepare_draft, actionable_draft, eligibility, Known,
                        WorkspaceInv, TypeOK, LeadRow
    <2>3. prepared' \in Message
      BY <1>9, <2>1, <2>2 DEF prepare_draft, Message
    <2>4. QED
      BY <1>0, <1>9, <2>1, <2>3 DEF prepare_draft
  <1>10. CASE ShowDetail
    <2>1. call.lead \in LeadId
      BY <1>10, RequestsDiffer DEF ShowDetail, WriteRequest
    <2>2. shown'.lead \in LeadId
      BY <1>10, <2>1 DEF ShowDetail, lead_detail
    <2>3. QED
      BY <1>10, <2>2 DEF ShowDetail
  <1>11. CASE GiveUp
    BY <1>11 DEF GiveUp
  <1>12. CASE ServeLate
    BY <1>12 DEF ServeLate
  <1>13. CASE Others \/ OthersSend \/ UNCHANGED allVars
    BY <1>13 DEF Others, OthersSend, allVars, tabVars
  <1>14. QED
    BY <1>1, <1>2, <1>3, <1>4, <1>5, <1>6, <1>7, <1>8, <1>9, <1>10, <1>11, <1>12,
       <1>13 DEF TabNext

\* Every step leaves a prepared message with the address of its lead.
LEMMA PreparedStep ==
    ASSUME WorkspaceInv, TabTypeOK, PreparedIsPresent, [TabNext]_allVars
    PROVE  PreparedIsPresent'
  <1>1. CASE prepare_draft
    <2>1. call.lead \in LeadId
      BY <1>1, RequestsDiffer DEF prepare_draft, TabTypeOK, WriteRequest
    <2>2. /\ prepared'.lead = call.lead
          /\ prepared'.to = leads[call.lead].email
          /\ drafts[call.lead] # None
          /\ leads' = leads /\ drafts' = drafts
      BY <1>1 DEF prepare_draft, actionable_draft, vars
    <2>3. QED
      BY <2>1, <2>2 DEF PreparedIsPresent
  <1>2. CASE ~prepare_draft
    <2>1. prepared' = None \/ prepared' = prepared
      BY <1>2 DEF TabNext, allVars, tabVars, OpenLead, CloseLead, SaveLead,
                  PrepareMessage, SendMail, DeclareSent, RequestCampaign, Answered,
                  ShowDetail, GiveUp, ServeLate, Others, OthersSend
    <2>2. CASE prepared' = prepared /\ prepared # None
      <3>1. prepared.lead \in LeadId
        BY <2>2 DEF TabTypeOK, Message
      <3>2. QED
        BY <2>2, <3>1, TabTakesStep, AddressStays DEF PreparedIsPresent
    <2>3. QED
      BY <2>1, <2>2 DEF PreparedIsPresent
  <1>3. QED
    BY <1>1, <1>2

\* A declaration is only sent for a message that was mailed.
LEMMA DeclarationsStep ==
    ASSUME WorkspaceInv, TabTypeOK, PreparedIsPresent, DeclarationsAreTrue,
           [TabNext]_allVars
    PROVE  DeclarationsAreTrue'
  <1> SUFFICES ASSUME NEW r \in MarkSentRequest,
                      (call' # None /\ r = call') \/ r \in late'
               PROVE  Mailed(r.lead, r.step)'
    BY DEF DeclarationsAreTrue
  <1>0. r.lead \in LeadId /\ r.step \in Steps /\ r.op = "mark-sent"
    BY RequestsDiffer
  <1>1. CASE (call # None /\ r = call) \/ r \in late
    BY <1>0, <1>1, MailedStays DEF DeclarationsAreTrue
  <1>2. CASE DeclareSent /\ r = call'
    <2>1. prepared \in Message /\ prepared \in mailed
      BY <1>2 DEF DeclareSent, TabTypeOK
    <2>2. r.lead = prepared.lead /\ r.step = prepared.step
      BY <1>2 DEF DeclareSent
    <2>3. prepared = [lead |-> prepared.lead, step |-> prepared.step, to |-> prepared.to]
      BY <2>1 DEF Message
    <2>4. Mailed(prepared.lead, prepared.step)
      BY <1>2, <2>1, <2>3 DEF Mailed, PreparedIsPresent, DeclareSent
    <2>5. QED
      BY <1>0, <2>2, <2>4, MailedStays
  <1>3. CASE /\ ~((call # None /\ r = call) \/ r \in late)
             /\ ~(DeclareSent /\ r = call')
    <2>1. r \notin late'
      BY <1>3 DEF TabNext, allVars, tabVars, OpenLead, CloseLead, SaveLead,
                  PrepareMessage, SendMail, DeclareSent, RequestCampaign, Answered,
                  prepare_draft, ShowDetail, GiveUp, ServeLate, Others, OthersSend
    <2>2. call' # None /\ r = call'
      BY <2>1
    <2>3. call' # call
      BY <1>3, <2>2
    <2>4. \A l \in LeadId : r # Detail(l)
      BY <1>0 DEF Detail
    <2>5. ~Answered
      <3>1. ASSUME Answered
            PROVE  call.lead \in LeadId /\ (call' = None \/ call' = Detail(call.lead))
        BY <3>1, RequestsDiffer DEF Answered, WriteRequest
      <3>2. QED
        BY <2>2, <2>4, <3>1
    <2>6. ~prepare_draft
      <3>1. ASSUME prepare_draft
            PROVE  call.lead \in LeadId /\ call' = Detail(call.lead)
        BY <3>1, RequestsDiffer DEF prepare_draft, TabTypeOK, WriteRequest
      <3>2. QED
        BY <2>2, <2>4, <3>1
    <2>7. \A l \in LeadId : ~OpenLead(l)
      BY <2>2, <2>4 DEF OpenLead
    <2>8. \A input \in LeadInputs, status \in Status : ~SaveLead(input, status)
      BY <1>0, <2>2 DEF SaveLead
    <2>9. \A s \in Steps : ~PrepareMessage(s)
      BY <1>0, <2>2 DEF PrepareMessage
    <2>10. ~RequestCampaign
      BY <1>0, <2>2 DEF RequestCampaign
    <2>11. ~(CloseLead \/ SendMail \/ ShowDetail \/ GiveUp \/ ServeLate \/ Others
               \/ OthersSend \/ UNCHANGED allVars)
      BY <2>2, <2>3 DEF CloseLead, SendMail, ShowDetail, GiveUp, ServeLate, Others,
                        OthersSend, allVars, tabVars
    <2>12. QED
      BY <1>3, <2>2, <2>5, <2>6, <2>7, <2>8, <2>9, <2>10, <2>11 DEF TabNext
  <1>4. QED
    BY <1>1, <1>2, <1>3

\* What the server executes for a request, or the others declare, was mailed.
LEMMA DeclaredStep ==
    ASSUME WorkspaceInv, TabTypeOK, DeclarationsAreTrue, DeclaredWasMailed,
           [TabNext]_allVars
    PROVE  DeclaredWasMailed'
  <1> SUFFICES ASSUME NEW x \in LeadId, NEW t \in Steps,
                      drafts'[x] # None, drafts'[x].sentAt[t] # None
               PROVE  Mailed(x, t)'
    BY DEF DeclaredWasMailed, Drafted, Sent, Mailed
  <1>0. TypeOK
    BY DEF WorkspaceInv
  <1>1. CASE drafts[x] # None /\ drafts[x].sentAt[t] # None
    <2>1. Mailed(x, t)
      BY <1>1 DEF DeclaredWasMailed, Drafted, Sent, Mailed
    <2>2. QED
      BY <2>1, MailedStays
  <1>2. CASE ~(drafts[x] # None /\ drafts[x].sentAt[t] # None)
    <2>1. ASSUME NEW r, (call # None /\ r = call) \/ r \in late, Serve(r)
          PROVE  Mailed(x, t)'
      <3>1. CASE r \in MarkSentRequest /\ mark_sent(r.lead, r.step)
        <4>1. r.lead \in LeadId /\ r.step \in Steps
          BY <3>1, RequestsDiffer
        <4>2. x = r.lead /\ t = r.step
          BY <1>0, <1>2, <3>1, <4>1, OneNewSend
        <4>3. Mailed(x, t)
          BY <2>1, <3>1, <4>2 DEF DeclarationsAreTrue
        <4>4. QED
          BY <4>3, MailedStays
      <3>2. CASE r \in CampaignRequest /\ \E c \in CampaignId : create_campaign(c, {r.lead})
        <4>1. {r.lead} \in SUBSET LeadId
          BY <3>2, RequestsDiffer
        <4>2. CreateCampaign
          BY <3>2, <4>1 DEF CreateCampaign
        <4>3. QED
          BY <1>0, <1>2, <4>2, NoNewSend
      <3>3. CASE r \in SaveRequest /\ update_lead(r.lead, r.input, r.status)
        BY <1>2, <3>3 DEF update_lead
      <3>4. QED
        BY <2>1, <3>1, <3>2, <3>3 DEF Serve
    <2>2. CASE Answered
      <3>1. call # None /\ Serve(call)
        BY <2>2, RequestAssumption DEF Answered
      <3>2. QED
        BY <2>1, <3>1
    <2>3. CASE ServeLate
      BY <2>1, <2>3 DEF ServeLate
    <2>4. CASE OthersSend
      <3>1. PICK l \in LeadId, s \in Steps :
              /\ mark_sent(l, s)
              /\ mailed' = mailed \cup {[lead |-> l, step |-> s, to |-> leads[l].email]}
        BY <2>4 DEF OthersSend
      <3>2. x = l /\ t = s /\ drafts[x] # None
        BY <1>0, <1>2, <3>1, OneNewSend
      <3>3. leads'[x].email = leads[x].email
        BY <3>2, TabTakesStep, AddressStays
      <3>4. QED
        BY <3>1, <3>2, <3>3 DEF Mailed
    <2>5. CASE Others
      <3>1. CASE CreateCampaign
        BY <1>0, <1>2, <3>1, NoNewSend
      <3>2. CASE CreateLead \/ UpdateLead \/ SaveProfile \/ Tick
        BY <1>2, <3>2 DEF CreateLead, create_lead, UpdateLead, update_lead,
                          SaveProfile, save_profile, Tick
      <3>3. QED
        BY <2>5, <3>1, <3>2 DEF Others
    <2>6. CASE ~(Answered \/ ServeLate \/ Others \/ OthersSend)
      <3>1. drafts' = drafts
        BY <2>6 DEF TabNext, allVars, vars, OpenLead, CloseLead, SaveLead,
                    PrepareMessage, SendMail, DeclareSent, RequestCampaign,
                    prepare_draft, ShowDetail, GiveUp
      <3>2. QED
        BY <1>2, <3>1
    <2>7. QED
      BY <2>2, <2>3, <2>4, <2>5, <2>6
  <1>3. QED
    BY <1>1, <1>2

\* The workspace and the tab start empty.
LEMMA TabStart ==
    ASSUME TabInit
    PROVE  /\ WorkspaceInv
           /\ TabTypeOK
           /\ PreparedIsPresent
           /\ DeclarationsAreTrue
           /\ DeclaredWasMailed
  <1>1. PagesAccount
    BY DEF TabInit, Init, PagesAccount, Accounted, BlankPage, NewPage, Steps
  <1>2. WorkspaceInv
    BY <1>1, InitType DEF TabInit, Init, WorkspaceInv, NoClash, OppositionAgrees,
                          FollowUpsSpaced, Known, Drafted
  <1>3. QED
    BY <1>2 DEF TabInit, Init, TabTypeOK, PreparedIsPresent, DeclarationsAreTrue,
                DeclaredWasMailed, Drafted

\* Every step the tables call sent was mailed, to the address its lead has.
THEOREM DeclaredStaysMailed == TabSpec => []DeclaredWasMailed
  <1> DEFINE Inv == /\ WorkspaceInv
                    /\ TabTypeOK
                    /\ PreparedIsPresent
                    /\ DeclarationsAreTrue
                    /\ DeclaredWasMailed
  <1>1. TabInit => Inv
    BY TabStart
  <1>2. Inv /\ [TabNext]_allVars => Inv'
    BY TabTakesStep, WorkspaceStep, TabTypeStep, PreparedStep, DeclarationsStep,
       DeclaredStep
  <1>3. Inv => DeclaredWasMailed
    OBVIOUS
  <1>4. QED
    BY <1>1, <1>2, <1>3, PTL DEF TabSpec

-----------------------------------------------------------------------------
(***************************************************************************)
(* Oppositions.                                                            *)
(***************************************************************************)

\* No handler deletes a lead.
LEMMA LeadsStay ==
    ASSUME TypeOK, [Next]_vars, NEW x \in LeadId, leads[x] # None
    PROVE  leads'[x] # None
  <1>1. CASE CreateLead
    BY <1>1 DEF CreateLead, create_lead
  <1>2. CASE AddLeads
    BY <1>2, KnownStays
  <1>3. CASE UpdateLead
    <2>1. PICK l \in LeadId, input \in LeadInputs, status \in Status :
            update_lead(l, input, status)
      BY <1>3 DEF UpdateLead
    <2>2. leads'[l] \in LeadRow
      <3>1. input \in LeadInput /\ leads[l] \in LeadRow
        BY <2>1, DataAssumption DEF update_lead, Known, TypeOK
      <3>2. QED
        BY <2>1, <3>1 DEF update_lead, TypeOK, LeadInput, LeadRow
    <2>3. QED
      BY <2>1, <2>2, DataAssumption DEF update_lead
  <1>4. CASE MarkSent
    <2>1. PICK l \in LeadId, s \in Steps : mark_sent(l, s)
      BY <1>4 DEF MarkSent
    <2>2. leads[l] \in LeadRow
      BY <2>1 DEF mark_sent, actionable_draft, Known, TypeOK
    <2>3. leads'[l] \in LeadRow
      BY <2>1, <2>2 DEF mark_sent, TypeOK, LeadRow, Status
    <2>4. QED
      BY <2>1, <2>3, DataAssumption DEF mark_sent
  <1>5. CASE SaveProfile \/ CreateCampaign \/ UpdateDraft \/ Tick \/ UNCHANGED vars
    BY <1>5 DEF SaveProfile, save_profile, CreateCampaign, create_campaign,
                UpdateDraft, update_draft, Tick, vars
  <1>6. QED
    BY <1>1, <1>2, <1>3, <1>4, <1>5 DEF Next

\* While a form is being saved, no message is open.
SaveClears == call # None /\ call.op = "save" => prepared = None

\* What the tab was told is opposed is opposed.
ToldIsOpposed ==
    \A l \in toldOpposed : /\ l \in LeadId
                           /\ leads[l] # None
                           /\ leads[l].status = "do_not_contact"

\* Only the form of the lead sends a save, and it closes the message.
LEMMA SaveClearsStep ==
    ASSUME TabTypeOK, SaveClears, [TabNext]_allVars
    PROVE  SaveClears'
  <1>1. CASE Answered \/ prepare_draft
    <2>1. call' = None \/ call' = Detail(call.lead)
      BY <1>1 DEF Answered, prepare_draft
    <2>2. QED
      BY <2>1 DEF SaveClears, Detail
  <1>2. ASSUME NEW l \in LeadId, OpenLead(l)
        PROVE  SaveClears'
    BY <1>2 DEF OpenLead, SaveClears, Detail
  <1>3. ASSUME NEW s \in Steps, PrepareMessage(s)
        PROVE  SaveClears'
    BY <1>3 DEF PrepareMessage, SaveClears
  <1>4. ASSUME NEW input \in LeadInputs, NEW status \in Status, SaveLead(input, status)
        PROVE  SaveClears'
    BY <1>4 DEF SaveLead, SaveClears
  <1>5. CASE DeclareSent \/ RequestCampaign
    BY <1>5 DEF DeclareSent, RequestCampaign, SaveClears
  <1>6. CASE CloseLead \/ SendMail \/ ShowDetail \/ GiveUp
    BY <1>6 DEF CloseLead, SendMail, ShowDetail, GiveUp, SaveClears
  <1>7. CASE ServeLate \/ Others \/ OthersSend \/ UNCHANGED allVars
    BY <1>7 DEF ServeLate, Others, OthersSend, allVars, tabVars, SaveClears
  <1>8. QED
    BY <1>1, <1>2, <1>3, <1>4, <1>5, <1>6, <1>7 DEF TabNext

\* An opposition the tab is told of was just saved, and no step undoes it.
LEMMA ToldStep ==
    ASSUME TypeOK, TabTypeOK, ToldIsOpposed, [TabNext]_allVars
    PROVE  ToldIsOpposed'
  <1>1. ASSUME NEW l \in toldOpposed
        PROVE  l \in LeadId /\ leads'[l] # None /\ leads'[l].status = "do_not_contact"
    <2>1. l \in LeadId /\ leads[l] # None /\ leads[l].status = "do_not_contact"
      BY DEF ToldIsOpposed
    <2>2. QED
      BY <2>1, TabTakesStep, LeadsStay, OppositionKeptByStep DEF Known
  <1>2. ASSUME Answered, call \in SaveRequest, call.status = "do_not_contact"
        PROVE  /\ call.lead \in LeadId
               /\ leads'[call.lead] # None
               /\ leads'[call.lead].status = "do_not_contact"
    <2>1. call.lead \in LeadId /\ call.op = "save"
      BY <1>2, RequestsDiffer
    <2>2. update_lead(call.lead, call.input, call.status)
      BY <1>2, <2>1, RequestsDiffer DEF Answered, Serve
    <2>3. leads[call.lead] # None
      BY <2>2 DEF update_lead, Known
    <2>4. leads'[call.lead] # None
      BY <2>1, <2>3, TabTakesStep, LeadsStay
    <2>5. leads'[call.lead].status = call.status
      BY <2>1, <2>2 DEF update_lead, TypeOK
    <2>6. QED
      BY <1>2, <2>1, <2>4, <2>5
  <1>3. ASSUME NEW l \in toldOpposed', l \notin toldOpposed
        PROVE  Answered /\ call \in SaveRequest /\ call.status = "do_not_contact"
                 /\ l = call.lead
    BY <1>3 DEF TabNext, allVars, tabVars, OpenLead, CloseLead, SaveLead,
                PrepareMessage, SendMail, DeclareSent, RequestCampaign, Answered,
                prepare_draft, ShowDetail, GiveUp, ServeLate, Others, OthersSend
  <1>4. QED
    BY <1>1, <1>2, <1>3 DEF ToldIsOpposed

\* The only step that opens a message is refused for an opposed lead.
LEMMA ToldHoldsStep ==
    ASSUME TabTypeOK, SaveClears, ToldIsOpposed, ToldOppositionHolds,
           [TabNext]_allVars
    PROVE  ToldOppositionHolds'
  <1> SUFFICES ASSUME NEW l \in toldOpposed', prepared' # None, prepared'.lead = l
               PROVE  FALSE
    BY DEF ToldOppositionHolds
  <1>1. CASE prepare_draft
    <2>1. l \in toldOpposed /\ l = call.lead
      BY <1>1 DEF prepare_draft
    <2>2. leads[l].status # "do_not_contact"
      BY <1>1, <2>1 DEF prepare_draft, actionable_draft, eligibility, STOP_STATUSES
    <2>3. QED
      BY <2>1, <2>2 DEF ToldIsOpposed
  <1>2. CASE Answered
    <2>1. prepared' = prepared
      BY <1>2 DEF Answered
    <2>2. l \notin toldOpposed
      BY <2>1 DEF ToldOppositionHolds
    <2>3. call \in SaveRequest
      BY <1>2, <2>2 DEF Answered
    <2>4. call # None /\ call.op = "save"
      BY <1>2, <2>3, RequestsDiffer, RequestAssumption DEF Answered
    <2>5. QED
      BY <2>1, <2>4 DEF SaveClears
  <1>3. CASE ~prepare_draft /\ ~Answered
    <2>1. toldOpposed' = toldOpposed
      BY <1>3 DEF TabNext, allVars, tabVars, OpenLead, CloseLead, SaveLead,
                  PrepareMessage, SendMail, DeclareSent, RequestCampaign,
                  ShowDetail, GiveUp, ServeLate, Others, OthersSend
    <2>2. prepared' = None \/ prepared' = prepared
      BY <1>3 DEF TabNext, allVars, tabVars, OpenLead, CloseLead, SaveLead,
                  PrepareMessage, SendMail, DeclareSent, RequestCampaign,
                  ShowDetail, GiveUp, ServeLate, Others, OthersSend
    <2>3. QED
      BY <2>1, <2>2 DEF ToldOppositionHolds
  <1>4. QED
    BY <1>1, <1>2, <1>3

\* Once the tab was told an opposition is saved, it has no message to mail to
\* that lead, in any order of late answers and of what the others do.
THEOREM OppositionIsHeard == TabSpec => []ToldOppositionHolds
  <1> DEFINE Inv == /\ WorkspaceInv
                    /\ TabTypeOK
                    /\ SaveClears
                    /\ ToldIsOpposed
                    /\ ToldOppositionHolds
  <1>1. TabInit => Inv
    BY TabStart DEF TabInit, SaveClears, ToldIsOpposed, ToldOppositionHolds
  <1>2. Inv /\ [TabNext]_allVars => Inv'
    <2>1. WorkspaceInv => TypeOK
      BY DEF WorkspaceInv
    <2>2. QED
      BY <2>1, TabTakesStep, WorkspaceStep, TabTypeStep, SaveClearsStep, ToldStep,
         ToldHoldsStep
  <1>3. Inv => ToldOppositionHolds
    OBVIOUS
  <1>4. QED
    BY <1>1, <1>2, <1>3, PTL DEF TabSpec

-----------------------------------------------------------------------------
(***************************************************************************)
(* The button.                                                             *)
(***************************************************************************)

\* serialize_lead's next_action_at, of a row and a sequence wherever they are.
NextOf(row, seq) ==
    IF ~eligibility(row) \/ \A s \in Steps : seq.sentAt[s] # None THEN None
    ELSE IF \E s \in Steps : seq.sentAt[s] # None
         THEN seq.sentAt[CHOOSE s \in Steps :
                           /\ seq.sentAt[s] # None
                           /\ \A t \in Steps : seq.sentAt[t] # None => t <= s]
                + FollowUpDelay
         ELSE 0

\* The copy's next_action_at belongs to the row and the sequence beside it.
CopyAgrees ==
    shown # None /\ shown.seq # None => shown.next = NextOf(shown.row, shown.seq)

\* The server computes next_action_at from the row and the sequence.
LEMMA NextActionOf ==
    ASSUME NEW l \in LeadId
    PROVE  NextActionAt(l) = NextOf(leads[l], drafts[l])
  BY DEF NextActionAt, NextOf, LastSent, Sent

\* A read brings the three parts of the copy together.
LEMMA CopyStep ==
    ASSUME TabTypeOK, CopyAgrees, [TabNext]_allVars
    PROVE  CopyAgrees'
  <1>1. CASE ShowDetail
    <2>1. call.lead \in LeadId
      BY <1>1, RequestsDiffer DEF ShowDetail, TabTypeOK, WriteRequest
    <2>2. shown' = lead_detail(call.lead)
      BY <1>1 DEF ShowDetail
    <2>3. QED
      BY <2>1, <2>2, NextActionOf DEF CopyAgrees, lead_detail
  <1>2. CASE ~ShowDetail
    <2>1. shown' = None \/ shown' = shown
      BY <1>2 DEF TabNext, allVars, tabVars, OpenLead, CloseLead, SaveLead,
                  PrepareMessage, SendMail, DeclareSent, RequestCampaign, Answered,
                  prepare_draft, GiveUp, ServeLate, Others, OthersSend
    <2>2. QED
      BY <2>1 DEF CopyAgrees
  <1>3. QED
    BY <1>1, <1>2

\* The step the server accepts comes right after the number of sends: they are
\* a prefix of the sequence.
LEMMA AcceptedIsNext ==
    ASSUME FollowUpsSpaced, NEW l \in Drafted, NEW s \in Steps, actionable_draft(l, s)
    PROVE  SentCount(drafts[l]) + 1 = s
  <1>1. ~Sent(l, s) /\ \A t \in Steps : t < s => Sent(l, t)
    BY DEF actionable_draft, EarlierSent
  <1>2. \A t \in Steps : t > 1 /\ Sent(l, t) => Sent(l, t - 1)
    BY DEF FollowUpsSpaced
  <1>3. \A t \in Steps : Sent(l, t) <=> t < s
    BY <1>1, <1>2 DEF Steps
  <1>4. {t \in Steps : drafts[l].sentAt[t] # None} = 1..(s - 1)
    BY <1>3 DEF Sent, Steps
  <1>5. Cardinality(1..(s - 1)) = s - 1
    <2>1. s \in Int /\ s >= 1
      BY DEF Steps
    <2>2. Cardinality(1..(s - 1)) = IF 1 > s - 1 THEN 0 ELSE (s - 1) - 1 + 1
      BY <2>1, FS_Interval
    <2>3. QED
      BY <2>1, <2>2
  <1>6. SentCount(drafts[l]) = s - 1
    BY <1>4, <1>5, Zenon DEF SentCount
  <1>7. QED
    BY <1>6 DEF Steps

\* next_action_at is a time when there is one.
LEMMA NextActionIsTime ==
    ASSUME NEW l \in LeadId, drafts[l] \in Sequence, NextActionAt(l) # None
    PROVE  NextActionAt(l) \in Nat
  <1>1. CASE \E s \in Steps : Sent(l, s)
    <2>1. \E s \in Steps : Sent(l, s) /\ \A t \in Steps : Sent(l, t) => t <= s
      BY <1>1 DEF Steps
    <2>2. LastSent(l) \in Steps /\ Sent(l, LastSent(l))
      BY <2>1 DEF LastSent
    <2>3. drafts[l].sentAt[LastSent(l)] \in Nat
      BY <2>2 DEF Sequence, Sent
    <2>4. NextActionAt(l) = drafts[l].sentAt[LastSent(l)] + FollowUpDelay
      BY <1>1 DEF NextActionAt
    <2>5. QED
      BY <2>3, <2>4, BoundAssumption
  <1>2. CASE ~\E s \in Steps : Sent(l, s)
    BY <1>2 DEF NextActionAt
  <1>3. QED
    BY <1>1, <1>2

\* On an up-to-date copy the button follows what the server accepts.
LEMMA ButtonFollows ==
    ASSUME WorkspaceInv, TabTypeOK, CopyAgrees
    PROVE  ButtonIsHonest
  <1> SUFFICES ASSUME shown # None, shown.row = leads[shown.lead],
                      shown.seq = drafts[shown.lead], NEW s \in Steps,
                      NEW at \in BrowserTime
               PROVE  /\ actionable_draft(shown.lead, s) /\ at >= clock
                           => CanPrepare(s, at)
                      /\ CanPrepare(s, at) /\ at <= clock
                           => actionable_draft(shown.lead, s)
    BY DEF ButtonIsHonest
  <1> DEFINE l == shown.lead
  <1>1. CASE drafts[l] = None
    BY <1>1 DEF CanPrepare, actionable_draft
  <1>2. CASE drafts[l] # None
    <2>1. l \in LeadId /\ l \in Drafted
      BY <1>2 DEF TabTypeOK, Drafted
    <2>2. shown.next = NextActionAt(l)
      BY <1>2, <2>1, NextActionOf DEF CopyAgrees
    <2>3. (shown.next # None /\ shown.next <= clock)
            <=> \E t \in Steps : actionable_draft(l, t)
      BY <2>1, <2>2, NextActionFollows DEF WorkspaceInv
    <2>4. \A t \in Steps : actionable_draft(l, t) => SentCount(drafts[l]) + 1 = t
      BY <2>1, AcceptedIsNext DEF WorkspaceInv
    <2>0. /\ at \in Nat /\ clock \in Nat
          /\ shown.next # None => shown.next \in Nat
      <3>1. clock \in Nat /\ at \in Nat
        BY BoundAssumption, SkewAssumption DEF WorkspaceInv, TypeOK, BrowserTime
      <3>2. drafts[l] \in Sequence
        BY <1>2, <2>1 DEF WorkspaceInv, TypeOK
      <3>3. NextActionAt(l) # None => NextActionAt(l) \in Nat
        BY <2>1, <3>2, NextActionIsTime
      <3>4. QED
        BY <2>2, <3>1, <3>3
    <2>5. ASSUME actionable_draft(l, s), at >= clock
          PROVE  CanPrepare(s, at)
      <3>1. eligibility(leads[l]) /\ drafts[l].sentAt[s] = None
        BY <2>5 DEF actionable_draft, Sent
      <3>2. shown.next # None /\ shown.next <= clock
        BY <2>3, <2>5
      <3>3. shown.next <= at
        BY <2>0, <2>5, <3>2
      <3>4. QED
        BY <1>2, <2>4, <2>5, <3>1, <3>2, <3>3 DEF CanPrepare
    <2>6. ASSUME CanPrepare(s, at), at <= clock
          PROVE  actionable_draft(l, s)
      <3>0. shown.next # None /\ shown.next <= clock
        BY <2>0, <2>6 DEF CanPrepare
      <3>1. PICK t \in Steps : actionable_draft(l, t)
        BY <2>3, <3>0
      <3>2. s = t
        BY <2>4, <2>6, <3>1 DEF CanPrepare
      <3>3. QED
        BY <3>1, <3>2
    <2>7. QED
      BY <2>5, <2>6
  <1>3. QED
    BY <1>1, <1>2

\* In every reachable state with an up-to-date copy, and at every reading of the
\* browser's clock, the button offers no step the server refuses unless that clock
\* is ahead, and every step it accepts unless that clock is behind.
THEOREM ButtonStaysHonest == TabSpec => []ButtonIsHonest
  <1> DEFINE Inv == WorkspaceInv /\ TabTypeOK /\ CopyAgrees
  <1>1. TabInit => Inv
    BY TabStart DEF TabInit, CopyAgrees
  <1>2. Inv /\ [TabNext]_allVars => Inv'
    BY TabTakesStep, WorkspaceStep, TabTypeStep, CopyStep
  <1>3. Inv => ButtonIsHonest
    BY ButtonFollows
  <1>4. QED
    BY <1>1, <1>2, <1>3, PTL DEF TabSpec
=============================================================================
