------------------------- MODULE ProspectingProofs -------------------------
(***************************************************************************)
(* Machine-checked proofs about Prospecting, for every value of its        *)
(* constants that satisfies DataAssumption and BoundAssumption.            *)
(*                                                                         *)
(*   TypeCorrect             the tables keep their types                   *)
(*   KeysStayUnique          KeysUnique, inductive together with TypeOK    *)
(*   OppositionIsConsistent  OppositionAgrees, from the uniqueness of keys:*)
(*                           opposing one lead leaves no other behind that *)
(*                           has the address                               *)
(*   NobodyIsApproachedTwice OneSequencePerAddress, strengthened by        *)
(*                           ReachedIsPresent                              *)
(*   FollowUpsStaySpaced     FollowUpsSpaced                               *)
(*   OppositionStaysFinal    OppositionIsFinal, a property of steps        *)
(*   SentStaysFrozen         SentIsFrozen, a property of steps             *)
(*   CampaignsStayWhole      CampaignsAreWhole                             *)
(*   JournalKeepsAccount     JournalAccounts, strengthened by              *)
(*                           PagesAccount: what has no sequence has sent   *)
(*                           nothing, and what is no lead has no sequence  *)
(*   NextActionStaysHonest   NextActionIsHonest, from the spacing of the   *)
(*                           sends and the agreement on oppositions        *)
(*   WorkspaceIsOutreach     Prospecting implements Outreach: what people  *)
(*                           written to may expect, strengthened by        *)
(*                           SentIsReached                                 *)
(*   ImportIsDetermined      what an import keeps, for every batch and     *)
(*   ImportIsRowByRow        table, and that it is what creating its leads *)
(*                           one after another keeps                       *)
(***************************************************************************)
EXTENDS Prospecting, TLAPS, WellFoundedInduction

(***************************************************************************)
(* Types.                                                                  *)
(***************************************************************************)

\* A form becomes a row: the row add_lead inserts has the columns' types.
LEMMA NewRowIsRow ==
    ASSUME NEW input \in LeadInput
    PROVE  /\ NewRow(input) \in LeadRow
           /\ NewRow(input) # None
           /\ NewRow(input).email = input.email
           /\ NewRow(input).siren = input.siren
           /\ NewRow(input).place = input.place
           /\ NewRow(input).status =
                IF input.email \in suppressed THEN "do_not_contact" ELSE "new"
  <1>1. NewRow(input) \in LeadRow
    BY DEF NewRow, LeadRow, LeadInput, Status
  <1>2. QED
    BY <1>1, DataAssumption DEF NewRow, is_suppressed

\* The journal entries create_campaign and mark_sent write keep a page a page.
LEMMA PageDrafted ==
    ASSUME NEW page \in JournalPage
    PROVE  [page EXCEPT !.drafted = @ + 1] \in JournalPage
  BY DEF JournalPage

\* A page to which mark_sent adds a send is a page.
LEMMA PageSent ==
    ASSUME NEW page \in JournalPage, NEW s \in Steps
    PROVE  [page EXCEPT !.sends = Append(@, s), !.told = "manual_send"] \in JournalPage
  <1> DEFINE longer == Append(page.sends, s)
  <1>1. longer \in Seq(Steps)
    BY DEF JournalPage
  <1> HIDE DEF longer
  <1>2. [page EXCEPT !.sends = longer, !.told = "manual_send"] \in JournalPage
    BY <1>1 DEF JournalPage
  <1>3. QED
    BY <1>2 DEF longer

\* The initial workspace is empty and well typed.
LEMMA InitType == Init => TypeOK
  <1>1. NewPage \in JournalPage
    BY DEF NewPage, JournalPage
  <1>2. BlankPage \in JournalPage
    BY <1>1 DEF BlankPage, JournalPage
  <1>3. QED
    BY <1>2, DataAssumption, BoundAssumption DEF Init, TypeOK

\* Each handler keeps the types of the tables.
LEMMA StepType ==
    ASSUME TypeOK, [Next]_vars
    PROVE  TypeOK'
  <1> USE DEF TypeOK
  <1>0. NewPage \in JournalPage
    BY DEF NewPage, JournalPage
  <1>1. CASE CreateLead
    <2>1. PICK l \in LeadId, input \in LeadInputs : create_lead(l, input)
      BY <1>1 DEF CreateLead
    <2>2. NewRow(input) \in LeadRow
      BY NewRowIsRow, DataAssumption
    <2>3. QED
      BY <1>0, <2>1, <2>2 DEF create_lead
  <1>2. CASE AddLeads
    <2>0. PICK n \in 1..MaxBatch : \E batch \in [1..n -> LeadInputs] :
            \E A \in Kept(batch) : \E id \in [A -> LeadId] : add_leads(batch, A, id)
      BY <1>2 DEF AddLeads
    <2>1. PICK batch \in [1..n -> LeadInputs] :
            \E A \in Kept(batch) : \E id \in [A -> LeadId] : add_leads(batch, A, id)
      BY <2>0
    <2>a. PICK A \in Kept(batch) : \E id \in [A -> LeadId] : add_leads(batch, A, id)
      BY <2>1
    <2>2. PICK id \in [A -> LeadId] : add_leads(batch, A, id)
      BY <2>a
    <2>3. A \subseteq 1..n
      BY <2>1 DEF Kept
    <2>4. \A i \in A : NewRow(batch[i]) \in LeadRow
      BY <2>1, <2>3, NewRowIsRow, DataAssumption
    <2>5. leads' \in [LeadId -> LeadRow \cup {None}]
      BY <2>2, <2>4 DEF add_leads
    <2>6. journal' \in [LeadId -> JournalPage]
      BY <1>0, <2>2 DEF add_leads
    <2>7. QED
      BY <2>2, <2>5, <2>6 DEF add_leads
  <1>3. CASE UpdateLead
    <2>1. PICK l \in LeadId, input \in LeadInputs, status \in Status :
            update_lead(l, input, status)
      BY <1>3 DEF UpdateLead
    <2>2. leads[l] \in LeadRow /\ input \in LeadInput
      BY <2>1, DataAssumption DEF update_lead, Known
    <2>3. leads' \in [LeadId -> LeadRow \cup {None}]
      BY <2>1, <2>2 DEF update_lead, LeadRow, LeadInput
    <2>4. suppressed' \subseteq Email
      BY <2>1, <2>2 DEF update_lead, Opposed, LeadRow, LeadInput
    <2>5. ToldAfter(l, status) \in Status \cup {"manual_send", None}
      BY <2>1 DEF ToldAfter, JournalPage
    <2>6. journal' \in [LeadId -> JournalPage]
      BY <2>1, <2>5 DEF update_lead, JournalPage
    <2>7. QED
      BY <2>1, <2>3, <2>4, <2>6 DEF update_lead
  <1>4. CASE SaveProfile
    BY <1>4 DEF SaveProfile, save_profile
  <1>5. CASE CreateCampaign
    <2>1. PICK c \in CampaignId, ids \in SUBSET LeadId : create_campaign(c, ids)
      BY <1>5 DEF CreateCampaign
    <2>2. build_sequence(c) \in Sequence
      BY <2>1, DataAssumption DEF build_sequence, Sequence
    <2>3. drafts' \in [LeadId -> Sequence \cup {None}]
      BY <2>1, <2>2 DEF create_campaign
    <2>4. journal' \in [LeadId -> JournalPage]
      BY <2>1, PageDrafted DEF create_campaign
    <2>5. QED
      BY <2>1, <2>3, <2>4 DEF create_campaign
  <1>6. CASE UpdateDraft
    <2>1. PICK l \in LeadId, s \in Steps, t \in Text : update_draft(l, s, t)
      BY <1>6 DEF UpdateDraft
    <2>2. drafts[l] \in Sequence
      BY <2>1 DEF update_draft, MayEdit
    <2>3. [drafts[l] EXCEPT !.text[s] = t] \in Sequence
      BY <2>1, <2>2 DEF Sequence
    <2>4. QED
      BY <2>1, <2>3 DEF update_draft
  <1>7. CASE MarkSent
    <2>1. PICK l \in LeadId, s \in Steps : mark_sent(l, s)
      BY <1>7 DEF MarkSent
    <2>2. drafts[l] \in Sequence
      BY <2>1 DEF mark_sent, actionable_draft
    <2>3. leads[l] \in LeadRow /\ leads[l].email \in Email
      BY <2>1 DEF mark_sent, actionable_draft, Known, eligibility, LeadRow
    <2>4. drafts' \in [LeadId -> Sequence \cup {None}]
      <3>1. clock \in Nat
        BY BoundAssumption
      <3>2. [drafts[l] EXCEPT !.sentAt[s] = clock] \in Sequence
        BY <2>2, <3>1 DEF Sequence
      <3>3. QED
        BY <2>1, <3>2 DEF mark_sent
    <2>5. leads' \in [LeadId -> LeadRow \cup {None}]
      BY <2>1, <2>3 DEF mark_sent, LeadRow, Status
    <2>6. journal' \in [LeadId -> JournalPage]
      <3>1. [journal[l] EXCEPT !.sends = Append(@, s), !.told = "manual_send"]
              \in JournalPage
        BY PageSent
      <3>2. journal' = [journal EXCEPT ![l] =
              [journal[l] EXCEPT !.sends = Append(@, s), !.told = "manual_send"]]
        BY <2>1 DEF mark_sent
      <3>3. QED
        BY <3>1, <3>2
    <2>7. QED
      BY <2>1, <2>3, <2>4, <2>5, <2>6 DEF mark_sent
  <1>8. CASE Tick
    BY <1>8, BoundAssumption DEF Tick
  <1>9. CASE UNCHANGED vars
    BY <1>9 DEF vars
  <1>10. QED
    BY <1>1, <1>2, <1>3, <1>4, <1>5, <1>6, <1>7, <1>8, <1>9 DEF Next

\* The tables keep the types of the schema in every reachable state.
THEOREM TypeCorrect == Spec => []TypeOK
  <1>1. Init => TypeOK
    BY InitType
  <1>2. TypeOK /\ [Next]_vars => TypeOK'
    BY StepType
  <1>3. QED
    BY <1>1, <1>2, PTL DEF Spec

-----------------------------------------------------------------------------
(***************************************************************************)
(* Keys.                                                                   *)
(***************************************************************************)

\* What duplicate() compares are the keys KeysUnique separates.
NoClash == \A l, m \in Known : l # m => ~Clash(leads[l], leads[m])

\* Unique keys, said with the comparison that add_lead makes.
LEMMA KeysAsClash == KeysUnique <=> NoClash
  BY DEF KeysUnique, NoClash, Clash

\* Which of two rows is the duplicate does not matter.
LEMMA ClashSymmetric ==
    ASSUME NEW a, NEW b, Clash(a, b)
    PROVE  Clash(b, a)
  BY DEF Clash

\* A row clashes with what its form clashes with.
LEMMA NewRowClash ==
    ASSUME NEW input \in LeadInput, NEW a
    PROVE  /\ Clash(NewRow(input), a) <=> Clash(input, a)
           /\ Clash(a, NewRow(input)) <=> Clash(a, input)
  BY NewRowIsRow DEF Clash

\* No handler brings two leads with a common key.
LEMMA KeysStep ==
    ASSUME TypeOK, NoClash, [Next]_vars
    PROVE  NoClash'
  <1> SUFFICES ASSUME NEW a \in LeadId, NEW b \in LeadId, a # b,
                      leads'[a] # None, leads'[b] # None
               PROVE  ~Clash(leads'[a], leads'[b])
    BY DEF NoClash, Known
  <1>0. leads[a] # None /\ leads[b] # None => ~Clash(leads[a], leads[b])
    BY DEF NoClash, Known
  <1>1. CASE CreateLead
    <2>1. PICK l \in LeadId, input \in LeadInputs : create_lead(l, input)
      BY <1>1 DEF CreateLead
    <2>2. \A x \in LeadId : leads'[x] = IF x = l THEN NewRow(input) ELSE leads[x]
      BY <2>1 DEF create_lead, TypeOK
    <2>3. \A x \in LeadId : leads[x] # None => ~Clash(leads[x], NewRow(input))
      BY <2>1, NewRowClash, DataAssumption DEF create_lead, duplicate, Known
    <2>4. QED
      BY <1>0, <2>2, <2>3, ClashSymmetric
  <1>2. CASE AddLeads
    <2>1. PICK n \in 1..MaxBatch : \E batch \in [1..n -> LeadInputs] :
            \E A \in Kept(batch) : \E id \in [A -> LeadId] : add_leads(batch, A, id)
      BY <1>2 DEF AddLeads
    <2>2. PICK batch \in [1..n -> LeadInputs] :
            \E A \in Kept(batch) : \E id \in [A -> LeadId] : add_leads(batch, A, id)
      BY <2>1
    <2>3. PICK A \in Kept(batch) : \E id \in [A -> LeadId] : add_leads(batch, A, id)
      BY <2>2
    <2>4. PICK id \in [A -> LeadId] : add_leads(batch, A, id)
      BY <2>3
    <2>5. A \subseteq 1..n
      BY <2>2, <2>3 DEF Kept
    <2>6. \A i \in A : batch[i] \in LeadInput
      BY <2>2, <2>5, DataAssumption
    <2>7. \A x \in LeadId :
            \/ leads'[x] = leads[x]
            \/ \E i \in A : id[i] = x /\ leads'[x] = NewRow(batch[i])
      BY <2>4 DEF add_leads
    <2>8. \A x \in LeadId, i \in A : leads[x] # None => ~Clash(leads[x], batch[i])
      BY <2>3, <2>5, <2>2 DEF Kept, duplicate, Known
    <2>9. \A i, j \in A : i # j => ~Clash(batch[i], batch[j])
      <3>1. \A i, j \in A : i < j => ~Clash(batch[i], batch[j])
        BY <2>2, <2>3, <2>5 DEF Kept
      <3>2. \A i, j \in A : i # j => i < j \/ j < i
        BY <2>5
      <3>3. QED
        BY <3>1, <3>2, ClashSymmetric
    <2>10. \A i \in A : ~Clash(leads[a], NewRow(batch[i])) \/ leads[a] = None
      BY <2>6, <2>8, NewRowClash
    <2>11. \A i \in A : ~Clash(NewRow(batch[i]), leads[b]) \/ leads[b] = None
      BY <2>6, <2>8, NewRowClash, ClashSymmetric
    <2>12. \A i, j \in A : i # j => ~Clash(NewRow(batch[i]), NewRow(batch[j]))
      BY <2>6, <2>9, NewRowClash
    <2>13. QED
      BY <1>0, <2>7, <2>10, <2>11, <2>12
  <1>3. CASE UpdateLead
    <2>1. PICK l \in LeadId, input \in LeadInputs, status \in Status :
            update_lead(l, input, status)
      BY <1>3 DEF UpdateLead
    <2>2. \A x \in LeadId : x # l => leads'[x] = leads[x]
      BY <2>1 DEF update_lead, TypeOK
    <2>3. /\ leads'[l].email = input.email
          /\ leads'[l].siren = input.siren
          /\ leads'[l].place = input.place
      BY <2>1 DEF update_lead, TypeOK
    <2>4. \A x \in LeadId : x # l /\ leads[x] # None => ~Clash(leads[x], input)
      BY <2>1 DEF update_lead, duplicate, Known
    <2>5. \A x \in LeadId : x # l /\ leads[x] # None => ~Clash(leads[x], leads'[l])
      BY <2>3, <2>4 DEF Clash
    <2>6. QED
      BY <1>0, <2>2, <2>5, ClashSymmetric
  <1>4. CASE MarkSent
    <2>1. PICK l \in LeadId, s \in Steps : mark_sent(l, s)
      BY <1>4 DEF MarkSent
    <2>2. leads[l] \in LeadRow
      BY <2>1 DEF mark_sent, actionable_draft, Known, TypeOK
    <2>3. \A x \in LeadId :
            /\ leads'[x].email = leads[x].email
            /\ leads'[x].siren = leads[x].siren
            /\ leads'[x].place = leads[x].place
      BY <2>1, <2>2 DEF mark_sent, TypeOK, LeadRow
    <2>4. \A x \in LeadId : leads'[x] # None => leads[x] # None
      BY <2>1, <2>2, DataAssumption DEF mark_sent, TypeOK
    <2>5. QED
      BY <1>0, <2>3, <2>4 DEF Clash
  <1>5. CASE SaveProfile \/ CreateCampaign \/ UpdateDraft \/ Tick \/ UNCHANGED vars
    <2>1. leads' = leads
      BY <1>5 DEF SaveProfile, save_profile, CreateCampaign, create_campaign,
                  UpdateDraft, update_draft, Tick, vars
    <2>2. QED
      BY <1>0, <2>1
  <1>6. QED
    BY <1>1, <1>2, <1>3, <1>4, <1>5 DEF Next

\* No reachable workspace holds two leads with a common address, SIREN or
\* company, city and address: the checks in the handlers suffice, the unique
\* indexes of the schema never fire.
THEOREM KeysStayUnique == Spec => []KeysUnique
  <1>1. Init => NoClash
    BY DEF Init, NoClash, Known
  <1>2. TypeOK /\ NoClash /\ [Next]_vars => NoClash'
    BY KeysStep
  <1>3. NoClash => KeysUnique
    BY KeysAsClash
  <1>4. QED
    BY <1>1, <1>2, <1>3, TypeCorrect, PTL DEF Spec

-----------------------------------------------------------------------------
(***************************************************************************)
(* Opposition.                                                             *)
(***************************************************************************)

\* What add_leads does to the table, without the uuids: a lead is untouched,
\* or it is the row of a form that clashes with no lead.
LEMMA AddLeadsRows ==
    ASSUME AddLeads, NEW x \in LeadId, leads'[x] # leads[x]
    PROVE  \E input \in LeadInput : leads[x] = None /\ leads'[x] = NewRow(input)
  <1>1. PICK n \in 1..MaxBatch : \E batch \in [1..n -> LeadInputs] :
          \E A \in Kept(batch) : \E id \in [A -> LeadId] : add_leads(batch, A, id)
    BY DEF AddLeads
  <1>2. PICK batch \in [1..n -> LeadInputs] :
          \E A \in Kept(batch) : \E id \in [A -> LeadId] : add_leads(batch, A, id)
    BY <1>1
  <1>3. PICK A \in Kept(batch) : \E id \in [A -> LeadId] : add_leads(batch, A, id)
    BY <1>2
  <1>4. PICK id \in [A -> LeadId] : add_leads(batch, A, id)
    BY <1>3
  <1>5. PICK i \in A : id[i] = x /\ leads'[x] = NewRow(batch[i])
    BY <1>4 DEF add_leads
  <1>6. batch[i] \in LeadInput
    BY <1>2, <1>3, DataAssumption DEF Kept
  <1>7. QED
    BY <1>4, <1>5, <1>6 DEF add_leads

\* No handler parts the opposition list from the statuses.
LEMMA OppositionStep ==
    ASSUME TypeOK, NoClash, OppositionAgrees, [Next]_vars
    PROVE  OppositionAgrees'
  <1> SUFFICES ASSUME NEW x \in LeadId, leads'[x] # None, leads'[x].email # None
               PROVE  leads'[x].status = "do_not_contact"
                        <=> leads'[x].email \in suppressed'
    BY DEF OppositionAgrees, Known
  <1>0. leads[x] # None /\ leads[x].email # None =>
          (leads[x].status = "do_not_contact" <=> leads[x].email \in suppressed)
    BY DEF OppositionAgrees, Known
  <1>1. CASE CreateLead
    <2>1. PICK l \in LeadId, input \in LeadInputs : create_lead(l, input)
      BY <1>1 DEF CreateLead
    <2>2. CASE x = l
      BY <2>1, <2>2, NewRowIsRow, DataAssumption DEF create_lead, TypeOK
    <2>3. CASE x # l
      BY <1>0, <2>1, <2>3 DEF create_lead, TypeOK
    <2>4. QED
      BY <2>2, <2>3
  <1>2. CASE AddLeads
    <2>1. suppressed' = suppressed
      BY <1>2 DEF AddLeads, add_leads
    <2>2. CASE leads'[x] = leads[x]
      BY <1>0, <2>1, <2>2
    <2>3. CASE leads'[x] # leads[x]
      BY <1>2, <2>1, <2>3, AddLeadsRows, NewRowIsRow
    <2>4. QED
      BY <2>2, <2>3
  <1>3. CASE UpdateLead
    <2>1. PICK l \in LeadId, input \in LeadInputs, status \in Status :
            update_lead(l, input, status)
      BY <1>3 DEF UpdateLead
    <2>2. CASE x = l
      <3>1. leads'[x].status = status /\ leads'[x].email = input.email
        BY <2>1, <2>2 DEF update_lead, TypeOK
      <3>2. CASE status = "do_not_contact"
        BY <2>1, <3>1, <3>2 DEF update_lead, Opposed
      <3>3. CASE status # "do_not_contact"
        BY <2>1, <3>1, <3>3 DEF update_lead, OppositionKept, is_suppressed
      <3>4. QED
        BY <3>2, <3>3
    <2>3. CASE x # l
      <3>1. leads'[x] = leads[x] /\ leads[x] # None
        BY <2>1, <2>3 DEF update_lead, TypeOK
      <3>2. leads[x].email # leads[l].email
        BY <2>1, <2>3, <3>1 DEF NoClash, Clash, update_lead, Known
      <3>3. leads[x].email # input.email
        BY <2>1, <2>3, <3>1 DEF duplicate, Clash, update_lead, Known
      <3>4. leads[x].email \in suppressed' <=> leads[x].email \in suppressed
        BY <2>1, <3>2, <3>3 DEF update_lead, Opposed
      <3>5. QED
        BY <1>0, <3>1, <3>4
    <2>4. QED
      BY <2>2, <2>3
  <1>4. CASE MarkSent
    <2>1. PICK l \in LeadId, s \in Steps : mark_sent(l, s)
      BY <1>4 DEF MarkSent
    <2>2. leads[l] \in LeadRow /\ suppressed' = suppressed
      BY <2>1 DEF mark_sent, actionable_draft, Known, TypeOK
    <2>3. CASE x = l
      <3>1. leads'[x].email = leads[x].email /\ leads'[x].status = "contacted"
        BY <2>1, <2>2, <2>3 DEF mark_sent, TypeOK, LeadRow
      <3>2. leads[x].email \notin suppressed
        BY <2>1, <2>3 DEF mark_sent, actionable_draft, is_suppressed
      <3>3. QED
        BY <2>2, <3>1, <3>2
    <2>4. CASE x # l
      BY <1>0, <2>1, <2>2, <2>4 DEF mark_sent, TypeOK
    <2>5. QED
      BY <2>3, <2>4
  <1>5. CASE SaveProfile \/ CreateCampaign \/ UpdateDraft \/ Tick \/ UNCHANGED vars
    <2>1. leads' = leads /\ suppressed' = suppressed
      BY <1>5 DEF SaveProfile, save_profile, CreateCampaign, create_campaign,
                  UpdateDraft, update_draft, Tick, vars
    <2>2. QED
      BY <1>0, <2>1
  <1>6. QED
    BY <1>1, <1>2, <1>3, <1>4, <1>5 DEF Next

\* The opposition list and the statuses agree in every reachable workspace.
THEOREM OppositionIsConsistent == Spec => []OppositionAgrees
  <1>1. Init => NoClash /\ OppositionAgrees
    BY DEF Init, NoClash, OppositionAgrees, Known
  <1>2. TypeOK /\ NoClash /\ OppositionAgrees /\ [Next]_vars => NoClash' /\ OppositionAgrees'
    BY KeysStep, OppositionStep
  <1>3. QED
    BY <1>1, <1>2, TypeCorrect, PTL DEF Spec

-----------------------------------------------------------------------------
(***************************************************************************)
(* Sends.                                                                  *)
(***************************************************************************)

\* The sends of a lead went to the address it has now: a lead that was written
\* to has a sequence, and its address may not change any more.
ReachedIsPresent ==
    \A l \in LeadId : reached[l] # {} =>
        /\ leads[l] # None
        /\ drafts[l] # None
        /\ leads[l].email # None
        /\ reached[l] = {leads[l].email}

\* Sequences never go back to None.
LEMMA SequencesStay ==
    ASSUME TypeOK, [Next]_vars, NEW x \in LeadId, drafts[x] # None
    PROVE  drafts'[x] # None
  <1>1. drafts' \in [LeadId -> Sequence \cup {None}] /\ drafts[x] \in Sequence
    BY StepType DEF TypeOK
  <1>2. CASE CreateCampaign
    <2>1. PICK c \in CampaignId, ids \in SUBSET LeadId : create_campaign(c, ids)
      BY <1>2 DEF CreateCampaign
    <2>2. drafts'[x] = drafts[x]
      BY <2>1 DEF create_campaign, Selected
    <2>3. QED
      BY <2>2
  <1>3. CASE UpdateDraft
    <2>1. PICK l \in LeadId, s \in Steps, t \in Text : update_draft(l, s, t)
      BY <1>3 DEF UpdateDraft
    <2>2. CASE x = l
      <3>1. [drafts[x] EXCEPT !.text[s] = t] \in Sequence
        BY <1>1, <2>1 DEF Sequence
      <3>2. QED
        BY <2>1, <2>2, <3>1, DataAssumption DEF update_draft, TypeOK
    <2>3. CASE x # l
      BY <2>1, <2>3 DEF update_draft, TypeOK
    <2>4. QED
      BY <2>2, <2>3
  <1>4. CASE MarkSent
    <2>1. PICK l \in LeadId, s \in Steps : mark_sent(l, s)
      BY <1>4 DEF MarkSent
    <2>2. CASE x = l
      <3>1. [drafts[x] EXCEPT !.sentAt[s] = clock] \in Sequence
        BY <1>1, <2>1, BoundAssumption DEF Sequence, TypeOK
      <3>2. QED
        BY <2>1, <2>2, <3>1, DataAssumption DEF mark_sent, TypeOK
    <2>3. CASE x # l
      BY <2>1, <2>3 DEF mark_sent, TypeOK
    <2>4. QED
      BY <2>2, <2>3
  <1>5. CASE CreateLead \/ AddLeads \/ UpdateLead \/ SaveProfile \/ Tick
               \/ UNCHANGED vars
    BY <1>5 DEF CreateLead, create_lead, AddLeads, add_leads, UpdateLead,
                update_lead, SaveProfile, save_profile, Tick, vars
  <1>6. QED
    BY <1>2, <1>3, <1>4, <1>5 DEF Next

\* Every step keeps what a lead reached at its present address.
LEMMA ReachedStep ==
    ASSUME TypeOK, ReachedIsPresent, [Next]_vars
    PROVE  ReachedIsPresent'
  <1> SUFFICES ASSUME NEW x \in LeadId, reached'[x] # {}
               PROVE  /\ leads'[x] # None
                      /\ drafts'[x] # None
                      /\ leads'[x].email # None
                      /\ reached'[x] = {leads'[x].email}
    BY DEF ReachedIsPresent
  <1>0. reached[x] # {} => /\ leads[x] # None
                           /\ drafts[x] # None
                           /\ leads[x].email # None
                           /\ reached[x] = {leads[x].email}
                           /\ drafts'[x] # None
    BY SequencesStay DEF ReachedIsPresent
  <1>1. CASE CreateLead
    <2>1. PICK l \in LeadId, input \in LeadInputs : create_lead(l, input)
      BY <1>1 DEF CreateLead
    <2>2. QED
      BY <1>0, <2>1 DEF create_lead, TypeOK
  <1>2. CASE AddLeads
    <2>1. reached' = reached
      BY <1>2 DEF AddLeads, add_leads
    <2>2. leads'[x] = leads[x]
      BY <1>0, <1>2, <2>1, AddLeadsRows
    <2>3. QED
      BY <1>0, <2>1, <2>2
  <1>3. CASE UpdateLead
    <2>1. PICK l \in LeadId, input \in LeadInputs, status \in Status :
            update_lead(l, input, status)
      BY <1>3 DEF UpdateLead
    <2>2. reached[x] # {} /\ reached'[x] = reached[x]
      BY <2>1 DEF update_lead
    <2>3. CASE x = l
      <3>1. leads[x].email = input.email
        BY <1>0, <2>1, <2>2, <2>3 DEF update_lead, AddressMayChange
      <3>2. leads'[x] \in LeadRow /\ leads'[x].email = input.email
        <4>1. leads[x] \in LeadRow /\ input \in LeadInput
          BY <1>0, <2>2, DataAssumption DEF TypeOK
        <4>2. leads'[x] =
                [email |-> input.email, siren |-> input.siren,
                 place |-> input.place, sourced |-> input.sourced,
                 qualified |-> input.qualified /\ input.email = leads[x].email,
                 status |-> status]
          BY <2>1, <2>3 DEF update_lead, TypeOK
        <4>3. QED
          BY <4>1, <4>2 DEF LeadRow, LeadInput
      <3>3. QED
        BY <1>0, <2>2, <3>1, <3>2, DataAssumption
    <2>4. CASE x # l
      BY <1>0, <2>1, <2>2, <2>4 DEF update_lead, TypeOK
    <2>5. QED
      BY <2>3, <2>4
  <1>4. CASE MarkSent
    <2>1. PICK l \in LeadId, s \in Steps : mark_sent(l, s)
      BY <1>4 DEF MarkSent
    <2>2. CASE x = l
      <3>1. leads[x] \in LeadRow /\ leads[x].email # None /\ drafts[x] # None
        BY <2>1, <2>2 DEF mark_sent, actionable_draft, eligibility, Known, TypeOK
      <3>2. leads'[x] \in LeadRow /\ leads'[x].email = leads[x].email
        BY <2>1, <2>2, <3>1 DEF mark_sent, TypeOK, LeadRow, Status
      <3>3. reached'[x] = reached[x] \cup {leads[x].email}
        BY <2>1, <2>2 DEF mark_sent, TypeOK
      <3>4. reached'[x] = {leads'[x].email}
        BY <1>0, <3>2, <3>3
      <3>5. QED
        BY <3>1, <3>2, <3>4, SequencesStay, DataAssumption
    <2>3. CASE x # l
      BY <1>0, <2>1, <2>3 DEF mark_sent, TypeOK
    <2>4. QED
      BY <2>2, <2>3
  <1>5. CASE SaveProfile \/ CreateCampaign \/ UpdateDraft \/ Tick \/ UNCHANGED vars
    <2>1. leads' = leads /\ reached' = reached
      BY <1>5 DEF SaveProfile, save_profile, CreateCampaign, create_campaign,
                  UpdateDraft, update_draft, Tick, vars
    <2>2. QED
      BY <1>0, <2>1
  <1>6. QED
    BY <1>1, <1>2, <1>3, <1>4, <1>5 DEF Next

\* In every reachable workspace, a lead was written to at its present address only.
LEMMA ReachedStaysPresent == Spec => []ReachedIsPresent
  <1>1. Init => ReachedIsPresent
    BY DEF Init, ReachedIsPresent
  <1>2. TypeOK /\ ReachedIsPresent /\ [Next]_vars => ReachedIsPresent'
    BY ReachedStep
  <1>3. QED
    BY <1>1, <1>2, TypeCorrect, PTL DEF Spec

\* In no reachable workspace was an address written to for two leads, nor a
\* lead at two addresses.
THEOREM NobodyIsApproachedTwice == Spec => []OneSequencePerAddress
  <1>1. KeysUnique /\ ReachedIsPresent => OneSequencePerAddress
    BY DEF KeysUnique, ReachedIsPresent, OneSequencePerAddress, Known
  <1>2. QED
    BY <1>1, ReachedStaysPresent, KeysStayUnique, PTL

\* No handler breaks the order or the spacing of the declared sends.
LEMMA SpacingStep ==
    ASSUME TypeOK, FollowUpsSpaced, [Next]_vars
    PROVE  FollowUpsSpaced'
  <1> SUFFICES ASSUME NEW x \in LeadId, drafts'[x] # None,
                      NEW t \in Steps, drafts'[x].sentAt[t] # None
               PROVE  /\ drafts'[x].sentAt[t] <= clock'
                      /\ t > 1 => /\ drafts'[x].sentAt[t - 1] # None
                                  /\ drafts'[x].sentAt[t]
                                       >= drafts'[x].sentAt[t - 1] + FollowUpDelay
    BY DEF FollowUpsSpaced, Drafted, Sent
  <1>0. drafts[x] # None => \A u \in Steps : drafts[x].sentAt[u] # None =>
          /\ drafts[x].sentAt[u] <= clock
          /\ u > 1 => /\ drafts[x].sentAt[u - 1] # None
                      /\ drafts[x].sentAt[u] >= drafts[x].sentAt[u - 1] + FollowUpDelay
    BY DEF FollowUpsSpaced, Drafted, Sent
  <1>a. clock \in Nat /\ FollowUpDelay \in Nat
    BY BoundAssumption DEF TypeOK
  <1>1. CASE CreateCampaign
    <2>1. PICK c \in CampaignId, ids \in SUBSET LeadId : create_campaign(c, ids)
      BY <1>1 DEF CreateCampaign
    <2>2. CASE x \in Selected(ids)
      <3>1. drafts'[x] = build_sequence(c)
        BY <2>1, <2>2 DEF create_campaign
      <3>2. QED
        BY <3>1 DEF build_sequence
    <2>3. CASE x \notin Selected(ids)
      BY <1>0, <2>1, <2>3 DEF create_campaign
    <2>4. QED
      BY <2>2, <2>3
  <1>2. CASE UpdateDraft
    <2>1. PICK l \in LeadId, s \in Steps, u \in Text : update_draft(l, s, u)
      BY <1>2 DEF UpdateDraft
    <2>2. CASE x = l
      <3>1. drafts[x] \in Sequence /\ drafts[x] # None
        BY <2>1, <2>2 DEF update_draft, MayEdit, TypeOK
      <3>2. drafts'[x].sentAt = drafts[x].sentAt
        BY <2>1, <2>2, <3>1 DEF update_draft, TypeOK, Sequence
      <3>3. QED
        BY <1>0, <2>1, <3>1, <3>2 DEF update_draft
    <2>3. CASE x # l
      BY <1>0, <2>1, <2>3 DEF update_draft, TypeOK
    <2>4. QED
      BY <2>2, <2>3
  <1>3. CASE MarkSent
    <2>1. PICK l \in LeadId, s \in Steps : mark_sent(l, s)
      BY <1>3 DEF MarkSent
    <2>2. CASE x = l
      <3>1. drafts[x] \in Sequence /\ drafts[x] # None
        BY <2>1, <2>2 DEF mark_sent, actionable_draft, TypeOK
      <3>2. /\ drafts[x].sentAt \in [Steps -> Nat \cup {None}]
            /\ drafts'[x].sentAt = [drafts[x].sentAt EXCEPT ![s] = clock]
        BY <2>1, <2>2, <3>1 DEF mark_sent, TypeOK, Sequence
      <3>3. /\ drafts[x].sentAt[s] = None
            /\ \A u \in Steps : u < s => drafts[x].sentAt[u] # None
            /\ s > 1 => clock >= drafts[x].sentAt[s - 1] + FollowUpDelay
        BY <2>1, <2>2 DEF mark_sent, actionable_draft, EarlierSent, Elapsed, Sent
      <3>4. clock' = clock
        BY <2>1 DEF mark_sent
      <3>5. CASE t = s
        <4>1. drafts'[x].sentAt[t] = clock
          BY <3>2, <3>5
        <4>2. t > 1 => t - 1 \in Steps /\ t - 1 < s /\ t - 1 # s
          BY <3>5 DEF Steps
        <4>3. t > 1 => drafts'[x].sentAt[t - 1] = drafts[x].sentAt[t - 1]
          BY <3>2, <4>2
        <4>4. QED
          BY <1>a, <3>3, <3>4, <3>5, <4>1, <4>2, <4>3
      <3>6. CASE t # s
        <4>1. drafts'[x].sentAt[t] = drafts[x].sentAt[t]
          BY <3>2, <3>6
        <4>2. t > 1 => t - 1 # s /\ t - 1 \in Steps
          BY <1>0, <3>1, <3>3, <4>1 DEF Steps
        <4>3. t > 1 => drafts'[x].sentAt[t - 1] = drafts[x].sentAt[t - 1]
          BY <3>2, <4>2
        <4>4. QED
          BY <1>0, <3>1, <3>4, <4>1, <4>3
      <3>7. QED
        BY <3>5, <3>6
    <2>3. CASE x # l
      BY <1>0, <2>1, <2>3 DEF mark_sent, TypeOK
    <2>4. QED
      BY <2>2, <2>3
  <1>4. CASE Tick
    <2>1. drafts' = drafts /\ clock' = clock + 1
      BY <1>4 DEF Tick
    <2>2. drafts[x].sentAt[t] \in Nat
      BY <2>1 DEF TypeOK, Sequence
    <2>3. QED
      BY <1>0, <1>a, <2>1, <2>2
  <1>5. CASE CreateLead \/ AddLeads \/ UpdateLead \/ SaveProfile \/ UNCHANGED vars
    <2>1. drafts' = drafts /\ clock' = clock
      BY <1>5 DEF CreateLead, create_lead, AddLeads, add_leads, UpdateLead,
                  update_lead, SaveProfile, save_profile, vars
    <2>2. QED
      BY <1>0, <2>1
  <1>6. QED
    BY <1>1, <1>2, <1>3, <1>4, <1>5 DEF Next

\* In every reachable workspace the declared sends of a sequence are a prefix
\* of its steps, at least FollowUpDelay apart.
THEOREM FollowUpsStaySpaced == Spec => []FollowUpsSpaced
  <1>1. Init => FollowUpsSpaced
    BY DEF Init, FollowUpsSpaced, Drafted
  <1>2. TypeOK /\ FollowUpsSpaced /\ [Next]_vars => FollowUpsSpaced'
    BY SpacingStep
  <1>3. QED
    BY <1>1, <1>2, TypeCorrect, PTL DEF Spec

(***************************************************************************)
(* What a step may never do.                                               *)
(***************************************************************************)

\* A lead that exists keeps its row when a batch is added.
LEMMA KnownStays ==
    ASSUME AddLeads, NEW x \in LeadId, leads[x] # None
    PROVE  leads'[x] = leads[x]
  BY AddLeadsRows

\* No handler undoes an opposition.
LEMMA OppositionKeptByStep ==
    ASSUME TypeOK, [Next]_vars
    PROVE  /\ suppressed \subseteq suppressed'
           /\ \A x \in Known :
                leads[x].status = "do_not_contact"
                  => leads'[x].status = "do_not_contact"
  <1>1. CASE CreateLead
    <2>1. PICK l \in LeadId, input \in LeadInputs : create_lead(l, input)
      BY <1>1 DEF CreateLead
    <2>2. \A x \in Known : leads'[x] = leads[x]
      BY <2>1 DEF create_lead, Known
    <2>3. QED
      BY <2>1, <2>2 DEF create_lead
  <1>2. CASE AddLeads
    <2>1. suppressed' = suppressed /\ reached' = reached
      BY <1>2 DEF AddLeads, add_leads
    <2>2. \A x \in Known : leads'[x] = leads[x]
      BY <1>2, KnownStays DEF Known
    <2>3. QED
      BY <2>1, <2>2
  <1>3. CASE UpdateLead
    <2>1. PICK l \in LeadId, input \in LeadInputs, status \in Status :
            update_lead(l, input, status)
      BY <1>3 DEF UpdateLead
    <2>2. suppressed \subseteq suppressed' /\ reached' = reached
      BY <2>1 DEF update_lead
    <2>3. ASSUME NEW x \in Known, leads[x].status = "do_not_contact"
          PROVE  leads'[x].status = "do_not_contact"
      <3>1. CASE x = l
        <4>1. leads'[x].status = status
          BY <2>1, <3>1 DEF update_lead, TypeOK
        <4>2. QED
          BY <2>1, <2>3, <3>1, <4>1 DEF update_lead, OppositionKept
      <3>2. CASE x # l
        BY <2>1, <2>3, <3>2 DEF update_lead, Known
      <3>3. QED
        BY <3>1, <3>2
    <2>4. QED
      BY <2>2, <2>3
  <1>4. CASE MarkSent
    <2>1. PICK l \in LeadId, s \in Steps : mark_sent(l, s)
      BY <1>4 DEF MarkSent
    <2>2. /\ leads[l].status # "do_not_contact"
          /\ leads[l].email \notin suppressed
      BY <2>1 DEF mark_sent, actionable_draft, eligibility, STOP_STATUSES, is_suppressed
    <2>3. \A x \in LeadId : x # l => leads'[x] = leads[x] /\ reached'[x] = reached[x]
      BY <2>1 DEF mark_sent, TypeOK
    <2>4. suppressed' = suppressed
      BY <2>1 DEF mark_sent
    <2>5. QED
      BY <2>2, <2>3, <2>4 DEF Known
  <1>5. CASE SaveProfile \/ CreateCampaign \/ UpdateDraft \/ Tick \/ UNCHANGED vars
    BY <1>5 DEF SaveProfile, save_profile, CreateCampaign, create_campaign,
                UpdateDraft, update_draft, Tick, vars
  <1>6. QED
    BY <1>1, <1>2, <1>3, <1>4, <1>5 DEF Next

\* A step of a sequence that a handler turns into a sent one is the send itself, and
\* the lead's address is not opposed at that moment.
LEMMA SendKeptFromOpposed ==
    ASSUME TypeOK, [Next]_vars, NEW x \in Drafted, NEW u \in Steps,
           ~Sent(x, u), drafts'[x].sentAt[u] # None
    PROVE  leads[x].email \notin suppressed
  <1>0. x \in LeadId /\ drafts[x] # None /\ drafts[x] \in Sequence
    BY DEF Drafted, TypeOK
  <1>1. CASE MarkSent
    <2>1. PICK l \in LeadId, s \in Steps : mark_sent(l, s)
      BY <1>1 DEF MarkSent
    <2>2. CASE x = l
      BY <2>1, <2>2 DEF mark_sent, actionable_draft, is_suppressed
    <2>3. CASE x # l
      BY <1>0, <2>1, <2>3 DEF mark_sent, Sent, TypeOK
    <2>4. QED
      BY <2>2, <2>3
  <1>2. CASE UpdateDraft
    <2>1. PICK l \in LeadId, s \in Steps, t \in Text : update_draft(l, s, t)
      BY <1>2 DEF UpdateDraft
    <2>2. CASE x = l
      <3>1. drafts'[x] = [drafts[x] EXCEPT !.text = [drafts[x].text EXCEPT ![s] = t]]
        BY <1>0, <2>1, <2>2 DEF update_draft, TypeOK
      <3>2. drafts'[x].sentAt = drafts[x].sentAt
        BY <1>0, <3>1 DEF Sequence
      <3>3. QED
        BY <3>2 DEF Sent
    <2>3. CASE x # l
      BY <1>0, <2>1, <2>3 DEF update_draft, Sent, TypeOK
    <2>4. QED
      BY <2>2, <2>3
  <1>3. CASE CreateCampaign
    <2>1. PICK c \in CampaignId, ids \in SUBSET LeadId : create_campaign(c, ids)
      BY <1>3 DEF CreateCampaign
    <2>2. drafts'[x] = drafts[x]
      BY <1>0, <2>1 DEF create_campaign, Selected
    <2>3. QED
      BY <2>2 DEF Sent
  <1>4. CASE CreateLead \/ AddLeads \/ UpdateLead \/ SaveProfile \/ Tick
               \/ UNCHANGED vars
    <2>1. drafts' = drafts
      BY <1>4 DEF CreateLead, create_lead, AddLeads, add_leads, UpdateLead,
                  update_lead, SaveProfile, save_profile, Tick, vars
    <2>2. QED
      BY <2>1 DEF Sent
  <1>5. QED
    BY <1>1, <1>2, <1>3, <1>4 DEF Next

\* In no behaviour is an opposition undone, or a send declared to an address
\* that is opposed.
THEOREM OppositionStaysFinal == Spec => OppositionIsFinal
  <1>1. TypeOK /\ [Next]_vars =>
          [/\ suppressed \subseteq suppressed'
           /\ \A l \in Known :
                leads[l].status = "do_not_contact" => leads[l]'.status = "do_not_contact"
           /\ \A l \in Drafted, s \in Steps :
                ~Sent(l, s) /\ drafts[l]'.sentAt[s] # None =>
                    leads[l].email \notin suppressed]_vars
    BY OppositionKeptByStep, SendKeptFromOpposed
  <1>2. QED
    BY <1>1, TypeCorrect, PTL DEF Spec, OppositionIsFinal

\* No handler touches what a sent step holds, or the campaign and the footer of
\* a sequence.
LEMMA FrozenByStep ==
    ASSUME TypeOK, [Next]_vars, NEW x \in Drafted
    PROVE  /\ drafts'[x] # None
           /\ drafts[x].campaign = drafts'[x].campaign
           /\ drafts[x].footer = drafts'[x].footer
           /\ \A t \in Steps : Sent(x, t) =>
                /\ drafts[x].text[t] = drafts'[x].text[t]
                /\ drafts[x].sentAt[t] = drafts'[x].sentAt[t]
  <1>0. x \in LeadId /\ drafts[x] # None /\ drafts[x] \in Sequence
    BY DEF Drafted, TypeOK
  <1>1. drafts'[x] # None
    BY <1>0, SequencesStay
  <1>2. CASE CreateCampaign
    <2>1. PICK c \in CampaignId, ids \in SUBSET LeadId : create_campaign(c, ids)
      BY <1>2 DEF CreateCampaign
    <2>2. drafts'[x] = drafts[x]
      BY <1>0, <2>1 DEF create_campaign, Selected
    <2>3. QED
      BY <1>1, <2>2
  <1>3. CASE UpdateDraft
    <2>1. PICK l \in LeadId, s \in Steps, u \in Text : update_draft(l, s, u)
      BY <1>3 DEF UpdateDraft
    <2>2. CASE x = l
      <3>1. ~Sent(x, s)
        BY <2>1, <2>2 DEF update_draft, MayEdit
      <3>2. drafts'[x] = [drafts[x] EXCEPT !.text = [drafts[x].text EXCEPT ![s] = u]]
        BY <1>0, <2>1, <2>2 DEF update_draft, TypeOK
      <3>3. drafts[x].text \in [Steps -> Text]
        BY <1>0 DEF Sequence
      <3>4. /\ drafts'[x].campaign = drafts[x].campaign
            /\ drafts'[x].footer = drafts[x].footer
            /\ drafts'[x].sentAt = drafts[x].sentAt
            /\ drafts'[x].text = [drafts[x].text EXCEPT ![s] = u]
        BY <1>0, <3>2 DEF Sequence
      <3>5. QED
        BY <1>1, <3>1, <3>3, <3>4
    <2>3. CASE x # l
      BY <1>0, <1>1, <2>1, <2>3 DEF update_draft
    <2>4. QED
      BY <2>2, <2>3
  <1>4. CASE MarkSent
    <2>1. PICK l \in LeadId, s \in Steps : mark_sent(l, s)
      BY <1>4 DEF MarkSent
    <2>2. CASE x = l
      <3>1. ~Sent(x, s)
        BY <2>1, <2>2 DEF mark_sent, actionable_draft
      <3>2. drafts'[x] = [drafts[x] EXCEPT !.sentAt = [drafts[x].sentAt EXCEPT ![s] = clock]]
        BY <1>0, <2>1, <2>2 DEF mark_sent, TypeOK
      <3>3. /\ drafts'[x].campaign = drafts[x].campaign
            /\ drafts'[x].footer = drafts[x].footer
            /\ drafts'[x].text = drafts[x].text
            /\ drafts'[x].sentAt = [drafts[x].sentAt EXCEPT ![s] = clock]
        BY <1>0, <3>2 DEF Sequence
      <3>4. QED
        BY <1>0, <1>1, <3>1, <3>3 DEF Sequence
    <2>3. CASE x # l
      BY <1>0, <1>1, <2>1, <2>3 DEF mark_sent
    <2>4. QED
      BY <2>2, <2>3
  <1>5. CASE CreateLead \/ AddLeads \/ UpdateLead \/ SaveProfile \/ Tick
               \/ UNCHANGED vars
    <2>1. drafts' = drafts
      BY <1>5 DEF CreateLead, create_lead, AddLeads, add_leads, UpdateLead,
                  update_lead, SaveProfile, save_profile, Tick, vars
    <2>2. QED
      BY <1>1, <2>1
  <1>6. QED
    BY <1>2, <1>3, <1>4, <1>5 DEF Next

\* In no behaviour does a message that was declared sent change, or a sequence
\* disappear or change hands.
THEOREM SentStaysFrozen == Spec => SentIsFrozen
  <1>1. TypeOK /\ [Next]_vars =>
          [\A l \in Drafted :
             /\ drafts[l]' # None
             /\ <<drafts[l].campaign, drafts[l].footer>>
                  = <<drafts[l]'.campaign, drafts[l]'.footer>>
             /\ \A s \in Steps : Sent(l, s) =>
                  <<drafts[l].text[s], drafts[l].sentAt[s]>>
                    = <<drafts[l]'.text[s], drafts[l]'.sentAt[s]>>]_vars
    BY FrozenByStep
  <1>2. QED
    BY <1>1, TypeCorrect, PTL DEF Spec, SentIsFrozen

-----------------------------------------------------------------------------
(***************************************************************************)
(* Campaigns.                                                              *)
(***************************************************************************)

\* Which sequences a step leaves, and what they keep of their campaign.
LEMMA DraftedStays ==
    ASSUME TypeOK, [Next]_vars
    PROVE  \A x \in Drafted : /\ x \in Drafted'
                              /\ drafts'[x].campaign = drafts[x].campaign
                              /\ drafts'[x].footer = drafts[x].footer
  <1> SUFFICES ASSUME NEW x \in Drafted
               PROVE  /\ drafts'[x] # None
                      /\ drafts'[x].campaign = drafts[x].campaign
                      /\ drafts'[x].footer = drafts[x].footer
    BY DEF Drafted
  <1>1. QED
    BY FrozenByStep

\* Only a campaign writes a sequence where there was none.
LEMMA DraftedByCampaign ==
    ASSUME TypeOK, [Next]_vars, ~CreateCampaign, NEW x \in LeadId, drafts[x] = None
    PROVE  drafts'[x] = None
  <1>1. CASE UpdateDraft
    <2>1. PICK l \in LeadId, s \in Steps, t \in Text : update_draft(l, s, t)
      BY <1>1 DEF UpdateDraft
    <2>2. x # l
      BY <2>1 DEF update_draft, MayEdit
    <2>3. QED
      BY <2>1, <2>2 DEF update_draft, TypeOK
  <1>2. CASE MarkSent
    <2>1. PICK l \in LeadId, s \in Steps : mark_sent(l, s)
      BY <1>2 DEF MarkSent
    <2>2. x # l
      BY <2>1 DEF mark_sent, actionable_draft
    <2>3. QED
      BY <2>1, <2>2 DEF mark_sent, TypeOK
  <1>3. CASE CreateLead \/ AddLeads \/ UpdateLead \/ SaveProfile \/ Tick
               \/ UNCHANGED vars
    BY <1>3 DEF CreateLead, create_lead, AddLeads, add_leads, UpdateLead,
                update_lead, SaveProfile, save_profile, Tick, vars
  <1>4. QED
    BY <1>1, <1>2, <1>3 DEF Next

\* No handler leaves a campaign without sequences, or a sequence with another
\* sender than its campaign's.
LEMMA CampaignsStep ==
    ASSUME TypeOK, CampaignsAreWhole, [Next]_vars
    PROVE  CampaignsAreWhole'
  <1>1. CASE CreateCampaign
    <2>1. PICK c \in CampaignId, ids \in SUBSET LeadId : create_campaign(c, ids)
      BY <1>1 DEF CreateCampaign
    <2>2. PICK first \in Selected(ids) : TRUE
      BY <2>1 DEF create_campaign
    <2>3. \A l \in LeadId :
            drafts'[l] = IF l \in Selected(ids) THEN build_sequence(c) ELSE drafts[l]
      BY <2>1 DEF create_campaign
    <2>4. /\ build_sequence(c).campaign = c
          /\ build_sequence(c).footer = profile
          /\ build_sequence(c) # None
      <3>1. build_sequence(c) \in Sequence
        BY DataAssumption DEF build_sequence, Sequence, TypeOK
      <3>2. QED
        BY <3>1, DataAssumption DEF build_sequence
    <2>5. \A b \in CampaignId :
            campaigns'[b] = IF b = c THEN profile ELSE campaigns[b]
      BY <2>1 DEF create_campaign, TypeOK
    <2>6. ASSUME NEW b \in CampaignId, campaigns'[b] # None
          PROVE  \E l \in Drafted' : drafts'[l].campaign = b
      <3>1. CASE b = c
        BY <2>2, <2>3, <2>4, <3>1 DEF Drafted, Selected
      <3>2. CASE b # c
        <4>1. PICK l \in Drafted : drafts[l].campaign = b
          BY <2>5, <2>6, <3>2 DEF CampaignsAreWhole
        <4>2. QED
          BY <4>1, DraftedStays
      <3>3. QED
        BY <3>1, <3>2
    <2>7. ASSUME NEW l \in Drafted'
          PROVE  campaigns'[drafts'[l].campaign] = drafts'[l].footer
      <3>1. CASE l \in Selected(ids)
        BY <2>3, <2>4, <2>5, <2>7, <3>1 DEF Drafted
      <3>2. CASE l \notin Selected(ids)
        <4>1. l \in Drafted /\ drafts'[l] = drafts[l] /\ drafts[l] \in Sequence
          BY <2>3, <2>7, <3>2 DEF Drafted, TypeOK
        <4>2. /\ campaigns[drafts[l].campaign] = drafts[l].footer
              /\ drafts[l].campaign \in CampaignId
              /\ drafts[l].footer \in Profile
          BY <4>1 DEF CampaignsAreWhole, Sequence
        <4>3. drafts[l].campaign # c
          BY <2>1, <4>2, DataAssumption DEF create_campaign
        <4>4. QED
          BY <2>5, <4>1, <4>2, <4>3
      <3>3. QED
        BY <3>1, <3>2
    <2>8. QED
      BY <2>6, <2>7 DEF CampaignsAreWhole
  <1>2. CASE ~CreateCampaign
    <2>1. campaigns' = campaigns
      BY <1>2 DEF Next, vars, CreateLead, create_lead, AddLeads, add_leads,
                  UpdateLead, update_lead, SaveProfile, save_profile, UpdateDraft,
                  update_draft, MarkSent, mark_sent, Tick
    <2>2. Drafted' = Drafted
      BY <1>2, DraftedByCampaign, DraftedStays DEF Drafted
    <2>3. QED
      BY <2>1, <2>2, DraftedStays DEF CampaignsAreWhole
  <1>3. QED
    BY <1>1, <1>2

\* In every reachable workspace a campaign has sequences, and each of them keeps
\* the sender that was recorded with the campaign.
THEOREM CampaignsStayWhole == Spec => []CampaignsAreWhole
  <1>1. Init => CampaignsAreWhole
    BY DEF Init, CampaignsAreWhole, Drafted
  <1>2. TypeOK /\ CampaignsAreWhole /\ [Next]_vars => CampaignsAreWhole'
    BY CampaignsStep
  <1>3. QED
    BY <1>1, <1>2, TypeCorrect, PTL DEF Spec

-----------------------------------------------------------------------------
(***************************************************************************)
(* The journal.                                                            *)
(***************************************************************************)

\* What the page of a lead accounts for.  A lead without a sequence has sent
\* nothing, and only leads have sequences.
Accounted(l) ==
    /\ drafts[l] # None => leads[l] # None
    /\ journal[l].created = IF leads[l] # None THEN 1 ELSE 0
    /\ journal[l].drafted = IF drafts[l] # None THEN 1 ELSE 0
    /\ \A i \in DOMAIN journal[l].sends : journal[l].sends[i] = i
    /\ \A s \in Steps :
         drafts[l] # None /\ drafts[l].sentAt[s] # None <=> s \in DOMAIN journal[l].sends
    /\ leads[l] # None =>
         \/ journal[l].told = leads[l].status
         \/ journal[l].told = "manual_send" /\ leads[l].status = "contacted"
         \/ journal[l].told = None /\ leads[l].status \in {"new", "do_not_contact"}

PagesAccount == \A l \in LeadId : Accounted(l)

\* The page of a new lead, which has no sequence, accounts for it.
LEMMA NewPageAccounts ==
    ASSUME NEW x \in LeadId, NEW input \in LeadInput, drafts'[x] = None,
           leads'[x] = NewRow(input), journal'[x] = NewPage
    PROVE  Accounted(x)'
  <1>1. leads'[x] # None /\ leads'[x].status \in {"new", "do_not_contact"}
    BY NewRowIsRow
  <1>2. /\ journal'[x].created = 1 /\ journal'[x].drafted = 0
        /\ journal'[x].told = None /\ journal'[x].sends = <<>>
    BY DEF NewPage
  <1>3. QED
    BY <1>1, <1>2 DEF Accounted, Steps

\* What an edit does to the edited lead and its page.
LEMMA EditAccounts ==
    ASSUME TypeOK, NEW x \in LeadId, NEW input \in LeadInput, NEW status \in Status,
           Accounted(x), update_lead(x, input, status)
    PROVE  Accounted(x)'
  <1>1. leads[x] # None /\ leads[x] \in LeadRow /\ journal[x] \in JournalPage
    BY DEF update_lead, Known, TypeOK
  <1>2. leads'[x].status = status /\ leads'[x] # None /\ drafts'[x] = drafts[x]
    <2>1. leads'[x] =
            [email |-> input.email, siren |-> input.siren,
             place |-> input.place, sourced |-> input.sourced,
             qualified |-> input.qualified /\ input.email = leads[x].email,
             status |-> status]
      BY DEF update_lead, TypeOK
    <2>2. leads'[x] \in LeadRow
      BY <1>1, <2>1 DEF LeadRow, LeadInput
    <2>3. QED
      BY <2>1, <2>2, DataAssumption DEF update_lead
  <1>3. journal'[x] = [journal[x] EXCEPT !.told = ToldAfter(x, status)]
    BY DEF update_lead, TypeOK
  <1>4. /\ journal'[x].created = journal[x].created
        /\ journal'[x].drafted = journal[x].drafted
        /\ journal'[x].sends = journal[x].sends
        /\ journal'[x].told = ToldAfter(x, status)
    BY <1>1, <1>3 DEF JournalPage
  <1>5. QED
    BY <1>1, <1>2, <1>4 DEF Accounted, ToldAfter

\* What a declared send does to the lead, its sequence and its page: the earlier
\* steps are the page's sends, so the new one is the next.
LEMMA SendAccounts ==
    ASSUME TypeOK, NEW x \in LeadId, NEW s \in Steps, Accounted(x), mark_sent(x, s)
    PROVE  Accounted(x)'
  <1>1. /\ leads[x] # None /\ leads[x] \in LeadRow
        /\ drafts[x] # None /\ drafts[x] \in Sequence
        /\ journal[x] \in JournalPage
    BY DEF mark_sent, actionable_draft, Known, TypeOK
  <1>2. leads'[x].status = "contacted" /\ leads'[x] # None
    <2>1. leads'[x] = [leads[x] EXCEPT !.status = "contacted"]
      BY DEF mark_sent, TypeOK
    <2>2. leads'[x] \in LeadRow /\ leads'[x].status = "contacted"
      BY <1>1, <2>1 DEF LeadRow, Status
    <2>3. QED
      BY <2>2, DataAssumption
  <1>3. /\ drafts'[x] # None
        /\ drafts'[x].sentAt = [drafts[x].sentAt EXCEPT ![s] = clock]
        /\ drafts[x].sentAt \in [Steps -> Nat \cup {None}]
        /\ clock # None
    <2>1. drafts'[x] = [drafts[x] EXCEPT !.sentAt = [drafts[x].sentAt EXCEPT ![s] = clock]]
      BY <1>1 DEF mark_sent, TypeOK
    <2>2. clock \in Nat /\ drafts[x].sentAt \in [Steps -> Nat \cup {None}]
      BY <1>1, BoundAssumption DEF TypeOK, Sequence
    <2>3. drafts'[x] \in Sequence
      BY <1>1, <2>1, <2>2 DEF Sequence
    <2>4. drafts'[x].sentAt = [drafts[x].sentAt EXCEPT ![s] = clock]
      BY <1>1, <2>1 DEF Sequence
    <2>5. QED
      BY <2>2, <2>3, <2>4, DataAssumption
  <1>4. /\ journal'[x].created = journal[x].created
        /\ journal'[x].drafted = journal[x].drafted
        /\ journal'[x].told = "manual_send"
        /\ journal'[x].sends = Append(journal[x].sends, s)
        /\ journal[x].sends \in Seq(Steps)
    <2>1. journal'[x] = [journal[x] EXCEPT !.sends = Append(@, s), !.told = "manual_send"]
      BY DEF mark_sent, TypeOK
    <2>2. QED
      BY <1>1, <2>1 DEF JournalPage
  <1>5. Len(journal[x].sends) = s - 1
    <2>1. /\ drafts[x].sentAt[s] = None
          /\ \A u \in Steps : u < s => drafts[x].sentAt[u] # None
      BY DEF mark_sent, actionable_draft, EarlierSent, Sent
    <2>2. \A u \in Steps : drafts[x].sentAt[u] # None <=> u \in 1..Len(journal[x].sends)
      BY <1>1, <1>4 DEF Accounted
    <2>3. s \notin 1..Len(journal[x].sends)
      BY <2>1, <2>2
    <2>4. s > 1 => s - 1 \in 1..Len(journal[x].sends)
      BY <2>1, <2>2 DEF Steps
    <2>5. QED
      BY <1>4, <2>3, <2>4 DEF Steps
  <1>6. \A i \in DOMAIN journal'[x].sends : journal'[x].sends[i] = i
    <2>1. \A i \in 1..Len(journal[x].sends) : journal[x].sends[i] = i
      BY <1>4 DEF Accounted
    <2>2. QED
      BY <1>4, <1>5, <2>1 DEF Steps
  <1>7. \A u \in Steps : drafts'[x].sentAt[u] # None <=> u \in DOMAIN journal'[x].sends
    <2>1. \A u \in Steps : drafts[x].sentAt[u] # None <=> u \in 1..Len(journal[x].sends)
      BY <1>1, <1>4 DEF Accounted
    <2>2. DOMAIN journal'[x].sends = 1..s
      BY <1>4, <1>5 DEF Steps
    <2>3. \A u \in Steps : drafts'[x].sentAt[u] # None <=> u = s \/ drafts[x].sentAt[u] # None
      BY <1>3
    <2>4. \A u \in Steps : u \in 1..s <=> u = s \/ u \in 1..(s - 1)
      BY DEF Steps
    <2>5. QED
      BY <1>5, <2>1, <2>2, <2>3, <2>4
  <1>8. QED
    BY <1>1, <1>2, <1>3, <1>4, <1>6, <1>7 DEF Accounted

\* No handler leaves a page that does not account for the lead.
LEMMA PagesStep ==
    ASSUME TypeOK, PagesAccount, [Next]_vars
    PROVE  PagesAccount'
  <1> SUFFICES ASSUME NEW x \in LeadId
               PROVE  Accounted(x)'
    BY DEF PagesAccount
  <1>0. Accounted(x)
    BY DEF PagesAccount
  <1>1. CASE CreateLead
    <2>1. PICK l \in LeadId, input \in LeadInputs : create_lead(l, input)
      BY <1>1 DEF CreateLead
    <2>2. CASE x = l
      <3>1. /\ leads'[x] = NewRow(input) /\ journal'[x] = NewPage
            /\ leads[x] = None /\ drafts'[x] = drafts[x]
        BY <2>1, <2>2 DEF create_lead, TypeOK
      <3>2. QED
        BY <1>0, <3>1, NewPageAccounts, DataAssumption DEF Accounted
    <2>3. CASE x # l
      <3>1. leads'[x] = leads[x] /\ journal'[x] = journal[x] /\ drafts'[x] = drafts[x]
        BY <2>1, <2>3 DEF create_lead, TypeOK
      <3>2. QED
        BY <1>0, <3>1 DEF Accounted
    <2>4. QED
      BY <2>2, <2>3
  <1>2. CASE AddLeads
    <2>1. PICK n \in 1..MaxBatch : \E batch \in [1..n -> LeadInputs] :
            \E A \in Kept(batch) : \E id \in [A -> LeadId] : add_leads(batch, A, id)
      BY <1>2 DEF AddLeads
    <2>2. PICK batch \in [1..n -> LeadInputs] :
            \E A \in Kept(batch) : \E id \in [A -> LeadId] : add_leads(batch, A, id)
      BY <2>1
    <2>3. PICK A \in Kept(batch) : \E id \in [A -> LeadId] : add_leads(batch, A, id)
      BY <2>2
    <2>4. PICK id \in [A -> LeadId] : add_leads(batch, A, id)
      BY <2>3
    <2>5. CASE \E i \in A : id[i] = x
      <3>1. PICK i \in A : leads'[x] = NewRow(batch[i])
        BY <2>4, <2>5 DEF add_leads
      <3>2. journal'[x] = NewPage /\ leads[x] = None /\ drafts'[x] = drafts[x]
        BY <2>4, <2>5 DEF add_leads
      <3>3. batch[i] \in LeadInput
        BY <2>2, <2>3, DataAssumption DEF Kept
      <3>4. QED
        BY <1>0, <3>1, <3>2, <3>3, NewPageAccounts DEF Accounted
    <2>6. CASE ~\E i \in A : id[i] = x
      <3>1. leads'[x] = leads[x] /\ journal'[x] = journal[x] /\ drafts'[x] = drafts[x]
        BY <2>4, <2>6 DEF add_leads
      <3>2. QED
        BY <1>0, <3>1 DEF Accounted
    <2>7. QED
      BY <2>5, <2>6
  <1>3. CASE UpdateLead
    <2>1. PICK l \in LeadId, input \in LeadInputs, status \in Status :
            update_lead(l, input, status)
      BY <1>3 DEF UpdateLead
    <2>2. CASE x = l
      BY <1>0, <2>1, <2>2, EditAccounts, DataAssumption
    <2>3. CASE x # l
      <3>1. leads'[x] = leads[x] /\ journal'[x] = journal[x] /\ drafts'[x] = drafts[x]
        BY <2>1, <2>3 DEF update_lead, TypeOK
      <3>2. QED
        BY <1>0, <3>1 DEF Accounted
    <2>4. QED
      BY <2>2, <2>3
  <1>4. CASE CreateCampaign
    <2>1. PICK c \in CampaignId, ids \in SUBSET LeadId : create_campaign(c, ids)
      BY <1>4 DEF CreateCampaign
    <2>2. CASE x \in Selected(ids)
      <3>1. /\ leads[x] # None /\ drafts[x] = None /\ journal[x] \in JournalPage
            /\ leads' = leads /\ drafts'[x] = build_sequence(c)
            /\ journal'[x] = [journal[x] EXCEPT !.drafted = @ + 1]
        BY <2>1, <2>2 DEF create_campaign, Selected, Known, TypeOK
      <3>2. build_sequence(c) # None /\ \A s \in Steps : build_sequence(c).sentAt[s] = None
        <4>1. build_sequence(c) \in Sequence
          BY DataAssumption DEF build_sequence, Sequence, TypeOK
        <4>2. QED
          BY <4>1, DataAssumption DEF build_sequence
      <3>3. /\ journal'[x].created = journal[x].created
            /\ journal'[x].drafted = journal[x].drafted + 1
            /\ journal'[x].sends = journal[x].sends
            /\ journal'[x].told = journal[x].told
        BY <3>1 DEF JournalPage
      <3>4. QED
        BY <1>0, <3>1, <3>2, <3>3 DEF Accounted
    <2>3. CASE x \notin Selected(ids)
      <3>1. leads' = leads /\ journal'[x] = journal[x] /\ drafts'[x] = drafts[x]
        BY <2>1, <2>3 DEF create_campaign
      <3>2. QED
        BY <1>0, <3>1 DEF Accounted
    <2>4. QED
      BY <2>2, <2>3
  <1>5. CASE UpdateDraft
    <2>1. PICK l \in LeadId, s \in Steps, t \in Text : update_draft(l, s, t)
      BY <1>5 DEF UpdateDraft
    <2>2. leads' = leads /\ journal' = journal
      BY <2>1 DEF update_draft
    <2>3. CASE x = l
      <3>1. drafts[x] # None /\ drafts[x] \in Sequence
        BY <2>1, <2>3 DEF update_draft, MayEdit, TypeOK
      <3>2. drafts'[x].sentAt = drafts[x].sentAt
        BY <2>1, <2>3, <3>1 DEF update_draft, TypeOK, Sequence
      <3>3. drafts'[x] # None
        BY <3>1, SequencesStay
      <3>4. QED
        BY <1>0, <2>2, <3>1, <3>2, <3>3 DEF Accounted
    <2>4. CASE x # l
      <3>1. drafts'[x] = drafts[x]
        BY <2>1, <2>4 DEF update_draft, TypeOK
      <3>2. QED
        BY <1>0, <2>2, <3>1 DEF Accounted
    <2>5. QED
      BY <2>3, <2>4
  <1>6. CASE MarkSent
    <2>1. PICK l \in LeadId, s \in Steps : mark_sent(l, s)
      BY <1>6 DEF MarkSent
    <2>2. CASE x = l
      BY <1>0, <2>1, <2>2, SendAccounts
    <2>3. CASE x # l
      <3>1. leads'[x] = leads[x] /\ journal'[x] = journal[x] /\ drafts'[x] = drafts[x]
        BY <2>1, <2>3 DEF mark_sent, TypeOK
      <3>2. QED
        BY <1>0, <3>1 DEF Accounted
    <2>4. QED
      BY <2>2, <2>3
  <1>7. CASE SaveProfile \/ Tick \/ UNCHANGED vars
    <2>1. leads' = leads /\ journal' = journal /\ drafts' = drafts
      BY <1>7 DEF SaveProfile, save_profile, Tick, vars
    <2>2. QED
      BY <1>0, <2>1 DEF Accounted
  <1>8. QED
    BY <1>1, <1>2, <1>3, <1>4, <1>5, <1>6, <1>7 DEF Next

\* Every reachable page accounts for its lead.
LEMMA PagesStayAccounted == Spec => []PagesAccount
  <1>1. Init => PagesAccount
    BY DEF Init, PagesAccount, Accounted, BlankPage, NewPage, Steps
  <1>2. TypeOK /\ PagesAccount /\ [Next]_vars => PagesAccount'
    BY PagesStep
  <1>3. QED
    BY <1>1, <1>2, TypeCorrect, PTL DEF Spec

\* In every reachable workspace the journal accounts for the tables.
THEOREM JournalKeepsAccount == Spec => []JournalAccounts
  <1>1. PagesAccount => JournalAccounts
    BY DEF PagesAccount, Accounted, JournalAccounts, Known, Drafted, Sent
  <1>2. QED
    BY <1>1, PagesStayAccounted, PTL

-----------------------------------------------------------------------------
(***************************************************************************)
(* What the list shows as due.                                             *)
(***************************************************************************)

\* With spaced sends and an opposition list that agrees with the statuses, the
\* two computations of what may be sent now come to the same, whichever step is
\* the next.
LEMMA NextActionFollows ==
    ASSUME TypeOK, FollowUpsSpaced, OppositionAgrees, PagesAccount, NEW l \in Drafted
    PROVE  (NextActionAt(l) # None /\ NextActionAt(l) <= clock)
             <=> \E s \in Steps : actionable_draft(l, s)
  <1>1. /\ l \in LeadId /\ l \in Known
        /\ drafts[l] # None /\ drafts[l] \in Sequence
    BY DEF Drafted, PagesAccount, Accounted, Known, TypeOK
  <1>2. /\ clock \in Nat /\ FollowUpDelay \in Nat /\ None \notin Nat
        /\ \A s \in Steps : Sent(l, s) => drafts[l].sentAt[s] \in Nat
    BY <1>1, BoundAssumption, DataAssumption DEF TypeOK, Sequence, Sent
  <1>3. (Sent(l, 2) => Sent(l, 1)) /\ (Sent(l, 3) => Sent(l, 2))
    <2>1. \A s \in Steps : s > 1 /\ Sent(l, s) => Sent(l, s - 1)
      BY DEF FollowUpsSpaced
    <2>2. QED
      BY <2>1 DEF Steps
  <1>4. eligibility(leads[l]) => ~is_suppressed(leads[l].email)
    BY <1>1 DEF eligibility, is_suppressed, OppositionAgrees, STOP_STATUSES
  <1>5. \A s \in Steps :
          actionable_draft(l, s) <=>
            /\ eligibility(leads[l])
            /\ ~Sent(l, s)
            /\ EarlierSent(l, s)
            /\ Elapsed(l, s)
    BY <1>1, <1>4 DEF actionable_draft
  <1>6. CASE ~eligibility(leads[l])
    BY <1>5, <1>6 DEF NextActionAt
  <1>7. CASE eligibility(leads[l]) /\ ~Sent(l, 1)
    <2>1. \A s \in Steps : ~Sent(l, s)
      BY <1>3, <1>7 DEF Steps
    <2>2. NextActionAt(l) = 0
      BY <1>7, <2>1 DEF NextActionAt, Steps
    <2>3. actionable_draft(l, 1)
      BY <1>5, <1>7 DEF EarlierSent, Elapsed, Steps
    <2>4. QED
      BY <1>2, <2>2, <2>3 DEF Steps
  <1>8. ASSUME eligibility(leads[l]), NEW last \in {1, 2},
               Sent(l, last), ~Sent(l, last + 1)
        PROVE  (NextActionAt(l) # None /\ NextActionAt(l) <= clock)
                 <=> \E s \in Steps : actionable_draft(l, s)
    <2>1. /\ last \in Steps /\ last + 1 \in Steps
          /\ \A s \in Steps : Sent(l, s) <=> s <= last
      BY <1>3, <1>8 DEF Steps
    <2>2. LastSent(l) = last
      <3>1. \A s \in Steps : (Sent(l, s) /\ \A t \in Steps : Sent(l, t) => t <= s)
                               <=> s = last
        BY <2>1 DEF Steps
      <3>2. QED
        BY <2>1, <3>1 DEF LastSent
    <2>3. NextActionAt(l) = drafts[l].sentAt[last] + FollowUpDelay
      BY <1>8, <2>1, <2>2 DEF NextActionAt
    <2>4. actionable_draft(l, last + 1) <=> Elapsed(l, last + 1)
      BY <1>5, <1>8, <2>1 DEF EarlierSent, Steps
    <2>5. Elapsed(l, last + 1) <=> clock >= drafts[l].sentAt[last] + FollowUpDelay
      BY DEF Elapsed
    <2>6. \A s \in Steps : s # last + 1 => ~actionable_draft(l, s)
      <3>1. ASSUME NEW s \in Steps, s # last + 1
            PROVE  Sent(l, s) \/ ~EarlierSent(l, s)
        BY <2>1, <3>1 DEF EarlierSent, Steps
      <3>2. QED
        BY <1>5, <3>1
    <2>7. QED
      BY <1>2, <1>8, <2>1, <2>3, <2>4, <2>5, <2>6
  <1>9. CASE Sent(l, 3)
    <2>1. \A s \in Steps : Sent(l, s)
      BY <1>3, <1>9 DEF Steps
    <2>2. QED
      BY <1>5, <2>1 DEF NextActionAt
  <1>10. CASE eligibility(leads[l]) /\ Sent(l, 1) /\ ~Sent(l, 3)
    <2>1. CASE Sent(l, 2)
      BY <1>8, <1>10, <2>1
    <2>2. CASE ~Sent(l, 2)
      BY <1>8, <1>10, <2>2
    <2>3. QED
      BY <2>1, <2>2
  <1>11. QED
    BY <1>6, <1>7, <1>9, <1>10

\* In every reachable workspace the list calls a step due exactly when the server
\* would accept it.
THEOREM NextActionStaysHonest == Spec => []NextActionIsHonest
  <1>1. TypeOK /\ FollowUpsSpaced /\ OppositionAgrees /\ PagesAccount
          => NextActionIsHonest
    BY NextActionFollows DEF NextActionIsHonest
  <1>2. QED
    BY <1>1, TypeCorrect, FollowUpsStaySpaced, OppositionIsConsistent,
       PagesStayAccounted, PTL

-----------------------------------------------------------------------------
(***************************************************************************)
(* The people written to.                                                  *)
(***************************************************************************)

\* A message declared sent went to somebody.
SentIsReached == \A l \in Drafted, s \in Steps : Sent(l, s) => reached[l] # {}

\* Whose letters a lead's sequence holds.
LEMMA LettersOf ==
    ASSUME OneSequencePerAddress, NEW l \in LeadId, NEW e \in reached[l]
    PROVE  LettersTo(e) = drafts[l].sentAt
  <1>1. \A m \in LeadId : e \in reached[m] <=> m = l
    BY DEF OneSequencePerAddress
  <1>2. {m \in LeadId : e \in reached[m]} = {l}
    BY <1>1
  <1>3. (CHOOSE m \in {l} : TRUE) = l
    OBVIOUS
  <1>4. QED
    BY <1>2, <1>3 DEF LettersTo

\* Nobody's letters, if no lead wrote.
LEMMA NoLetters ==
    ASSUME NEW e, \A l \in LeadId : e \notin reached[l]
    PROVE  LettersTo(e) = [s \in Steps |-> None]
  BY DEF LettersTo

\* Letters stay as they are when no lead reaches anybody else and the sequences of
\* those that reached somebody keep their times.
LEMMA LettersStay ==
    ASSUME OneSequencePerAddress, OneSequencePerAddress', reached' = reached,
           \A l \in LeadId : reached[l] # {} => drafts'[l].sentAt = drafts[l].sentAt,
           NEW e \in Email
    PROVE  LettersTo(e)' = LettersTo(e)
  <1>1. CASE \E l \in LeadId : e \in reached[l]
    <2>1. PICK l \in LeadId : e \in reached[l]
      BY <1>1
    <2>2. LettersTo(e) = drafts[l].sentAt
      BY <2>1, LettersOf
    <2>3. {m \in LeadId : e \in reached'[m]} = {l}
      BY <2>1 DEF OneSequencePerAddress
    <2>4. LettersTo(e)' = drafts'[l].sentAt
      <3>1. (CHOOSE m \in {l} : TRUE) = l
        OBVIOUS
      <3>2. QED
        BY <2>3, <3>1 DEF LettersTo
    <2>5. QED
      BY <2>1, <2>2, <2>4
  <1>2. CASE \A l \in LeadId : e \notin reached[l]
    BY <1>2 DEF LettersTo
  <1>3. QED
    BY <1>1, <1>2

\* What mark_sent does to the sequence of its lead and to the others.
LEMMA SendWrites ==
    ASSUME TypeOK, NEW l \in LeadId, NEW s \in Steps, mark_sent(l, s)
    PROVE  /\ drafts[l] \in Sequence
           /\ leads[l].email \in Email
           /\ drafts'[l].sentAt = [drafts[l].sentAt EXCEPT ![s] = clock]
           /\ reached'[l] = reached[l] \cup {leads[l].email}
           /\ \A m \in LeadId \ {l} : drafts'[m] = drafts[m] /\ reached'[m] = reached[m]
  <1>1. drafts[l] \in Sequence
    BY DEF mark_sent, actionable_draft, TypeOK
  <1>2. leads[l] \in LeadRow /\ leads[l].email # None
    BY DEF mark_sent, actionable_draft, eligibility, Known, TypeOK
  <1>3. leads[l].email \in Email
    BY <1>2 DEF LeadRow
  <1>4. drafts'[l] = [drafts[l] EXCEPT !.sentAt[s] = clock]
    BY DEF mark_sent, TypeOK
  <1>5. drafts'[l].sentAt = [drafts[l].sentAt EXCEPT ![s] = clock]
    BY <1>1, <1>4 DEF Sequence
  <1>6. \A m \in LeadId \ {l} : drafts'[m] = drafts[m]
    BY DEF mark_sent, TypeOK
  <1>7. /\ reached'[l] = reached[l] \cup {leads[l].email}
        /\ \A m \in LeadId \ {l} : reached'[m] = reached[m]
    BY DEF mark_sent, TypeOK
  <1>8. QED
    BY <1>1, <1>3, <1>5, <1>6, <1>7

\* The times that a step other than mark_sent leaves in a lead's sequence.
LEMMA TimesStay ==
    ASSUME TypeOK, [Next]_vars, ~MarkSent, NEW l \in LeadId, drafts[l] # None
    PROVE  drafts'[l] # None /\ drafts'[l].sentAt = drafts[l].sentAt
  <1>0. drafts[l] \in Sequence /\ drafts'[l] # None
    BY SequencesStay DEF TypeOK
  <1>1. CASE CreateCampaign
    BY <1>0, <1>1 DEF CreateCampaign, create_campaign, Selected
  <1>2. CASE UpdateDraft
    <2>1. PICK m \in LeadId, s \in Steps, t \in Text : update_draft(m, s, t)
      BY <1>2 DEF UpdateDraft
    <2>2. drafts'[l] = IF l = m THEN [drafts[l] EXCEPT !.text[s] = t] ELSE drafts[l]
      BY <2>1 DEF update_draft, TypeOK
    <2>3. [drafts[l] EXCEPT !.text[s] = t].sentAt = drafts[l].sentAt
      BY <1>0 DEF Sequence
    <2>4. QED
      BY <1>0, <2>2, <2>3
  <1>3. CASE CreateLead \/ AddLeads \/ UpdateLead \/ SaveProfile \/ Tick \/ UNCHANGED vars
    BY <1>0, <1>3 DEF CreateLead, create_lead, AddLeads, add_leads, UpdateLead, update_lead,
       SaveProfile, save_profile, Tick, vars
  <1>4. QED
    BY <1>1, <1>2, <1>3 DEF Next

\* A new sequence has sent nothing.
LEMMA NewSequenceUnsent ==
    ASSUME TypeOK, [Next]_vars, NEW l \in LeadId, drafts[l] = None, drafts'[l] # None
    PROVE  \A s \in Steps : drafts'[l].sentAt[s] = None
  <1>1. CASE CreateCampaign
    BY <1>1 DEF CreateCampaign, create_campaign, build_sequence
  <1>2. CASE UpdateDraft \/ MarkSent
    BY <1>2 DEF UpdateDraft, update_draft, MayEdit, MarkSent, mark_sent, actionable_draft, TypeOK
  <1>3. CASE CreateLead \/ AddLeads \/ UpdateLead \/ SaveProfile \/ Tick \/ UNCHANGED vars
    BY <1>3 DEF CreateLead, create_lead, AddLeads, add_leads, UpdateLead, update_lead,
       SaveProfile, save_profile, Tick, vars
  <1>4. QED
    BY <1>1, <1>2, <1>3 DEF Next

\* Every step keeps that what is sent went to somebody.
LEMMA SentIsReachedStep ==
    ASSUME TypeOK, SentIsReached, [Next]_vars
    PROVE  SentIsReached'
  <1> SUFFICES ASSUME NEW l \in LeadId, drafts'[l] # None, NEW s \in Steps,
                      drafts'[l].sentAt[s] # None
               PROVE  reached'[l] # {}
    BY DEF SentIsReached, Drafted, Sent
  <1>1. CASE MarkSent
    <2>1. PICK m \in LeadId, t \in Steps : mark_sent(m, t)
      BY <1>1 DEF MarkSent
    <2>2. CASE l = m
      BY <2>1, <2>2, SendWrites
    <2>3. CASE l # m
      <3>1. drafts'[l] = drafts[l] /\ reached'[l] = reached[l]
        BY <2>1, <2>3, SendWrites
      <3>2. QED
        BY <3>1 DEF SentIsReached, Drafted, Sent
    <2>4. QED
      BY <2>2, <2>3
  <1>2. CASE ~MarkSent
    <2>1. reached' = reached
      BY <1>2 DEF Next, CreateLead, create_lead, AddLeads, add_leads, UpdateLead, update_lead,
         SaveProfile, save_profile, CreateCampaign, create_campaign, UpdateDraft, update_draft,
         Tick, vars
    <2>2. drafts[l] # None
      BY NewSequenceUnsent
    <2>3. drafts'[l].sentAt = drafts[l].sentAt
      BY <1>2, <2>2, TimesStay
    <2>4. QED
      BY <2>1, <2>2, <2>3 DEF SentIsReached, Drafted, Sent
  <1>3. QED
    BY <1>1, <1>2

\* A declared send is a letter to one person, who has not opposed, in its turn.
LEMMA SendIsWrite ==
    ASSUME TypeOK, OneSequencePerAddress, OneSequencePerAddress', ReachedIsPresent,
           SentIsReached, NEW l \in LeadId, NEW s \in Steps, mark_sent(l, s)
    PROVE  People!Next
  <1>0. PICK e \in Email : e = leads[l].email
    BY SendWrites
  <1>1. /\ drafts[l] \in Sequence
        /\ drafts'[l].sentAt = [drafts[l].sentAt EXCEPT ![s] = clock]
        /\ reached'[l] = reached[l] \cup {e}
        /\ \A m \in LeadId \ {l} : drafts'[m] = drafts[m] /\ reached'[m] = reached[m]
    BY <1>0, SendWrites
  <1>2. /\ drafts[l].sentAt \in [Steps -> Nat \cup {None}]
        /\ drafts[l] # None
    BY <1>1, DataAssumption DEF Sequence
  <1>3. /\ e \notin suppressed /\ drafts[l].sentAt[s] = None
        /\ \A t \in Steps : t < s => drafts[l].sentAt[t] # None
        /\ s > 1 => clock >= drafts[l].sentAt[s - 1] + FollowUpDelay
        /\ UNCHANGED <<suppressed, clock>>
    BY <1>0 DEF mark_sent, actionable_draft, is_suppressed, Sent, EarlierSent, Elapsed
  <1>4. LettersTo(e) = drafts[l].sentAt
    <2>1. CASE reached[l] # {}
      <3>1. e \in reached[l]
        BY <1>0, <2>1 DEF ReachedIsPresent
      <3>2. QED
        BY <3>1, LettersOf
    <2>2. CASE reached[l] = {}
      <3>1. \A m \in LeadId : e \notin reached[m]
        <4>1. \A m \in LeadId \ {l} : reached'[l] \cap reached'[m] = {}
          BY DEF OneSequencePerAddress
        <4>2. QED
          BY <1>1, <2>2, <4>1
      <3>2. \A t \in Steps : drafts[l].sentAt[t] = None
        BY <1>2, <2>2 DEF SentIsReached, Drafted, Sent
      <3>3. drafts[l].sentAt = [t \in Steps |-> None]
        BY <1>2, <3>2
      <3>4. QED
        BY <3>1, <3>3, NoLetters
    <2>3. QED
      BY <2>1, <2>2
  <1>5. LettersTo(e)' = [LettersTo(e) EXCEPT ![s] = clock]
    <2>1. {m \in LeadId : e \in reached'[m]} = {l}
      BY <1>1 DEF OneSequencePerAddress
    <2>2. (CHOOSE m \in {l} : TRUE) = l
      OBVIOUS
    <2>3. LettersTo(e)' = drafts'[l].sentAt
      BY <2>1, <2>2 DEF LettersTo
    <2>4. QED
      BY <1>1, <1>4, <2>3
  <1>6. \A f \in Email \ {e} : LettersTo(f)' = LettersTo(f)
    <2> SUFFICES ASSUME NEW f \in Email, f # e
                 PROVE  LettersTo(f)' = LettersTo(f)
      OBVIOUS
    <2>1. f \notin reached[l] /\ f \notin reached'[l]
      BY <1>0, <1>1 DEF ReachedIsPresent
    <2>2. \A m \in LeadId : f \in reached'[m] <=> f \in reached[m]
      BY <1>1, <2>1
    <2>3. CASE \E m \in LeadId : f \in reached[m]
      <3>1. PICK m \in LeadId : f \in reached[m]
        BY <2>3
      <3>2. LettersTo(f) = drafts[m].sentAt
        BY <3>1, LettersOf
      <3>3. {n \in LeadId : f \in reached'[n]} = {m}
        BY <2>2, <3>1 DEF OneSequencePerAddress
      <3>4. LettersTo(f)' = drafts'[m].sentAt
        <4>1. (CHOOSE n \in {m} : TRUE) = m
          OBVIOUS
        <4>2. QED
          BY <3>3, <4>1 DEF LettersTo
      <3>5. m # l
        BY <2>1, <3>1
      <3>6. QED
        BY <1>1, <3>2, <3>4, <3>5
    <2>4. CASE \A m \in LeadId : f \notin reached[m]
      BY <2>2, <2>4 DEF LettersTo
    <2>5. QED
      BY <2>3, <2>4
  <1>7. [f \in Email |-> LettersTo(f)]'
          = [[f \in Email |-> LettersTo(f)] EXCEPT ![e][s] = clock]
    BY <1>5, <1>6
  <1>8. [f \in Email |-> LettersTo(f)][e] = drafts[l].sentAt
    BY <1>4
  <1>9. People!Write(e, s)
    BY <1>0, <1>3, <1>7, <1>8 DEF People!Write, People!Steps, Steps
  <1>10. QED
    BY <1>9 DEF People!Next, People!Steps, Steps

\* Every step of the workspace is a step of Outreach, or changes nothing anybody sees.
LEMMA StepIsOutreach ==
    ASSUME TypeOK, OneSequencePerAddress, OneSequencePerAddress', ReachedIsPresent,
           SentIsReached, [Next]_vars
    PROVE  People!Next \/ UNCHANGED People!outreachVars
  <1>1. CASE MarkSent
    <2>1. PICK l \in LeadId, s \in Steps : mark_sent(l, s)
      BY <1>1 DEF MarkSent
    <2>2. QED
      BY <2>1, SendIsWrite
  <1>2. CASE ~MarkSent
    <2>1. reached' = reached
      BY <1>2 DEF Next, CreateLead, create_lead, AddLeads, add_leads, UpdateLead, update_lead,
         SaveProfile, save_profile, CreateCampaign, create_campaign, UpdateDraft, update_draft,
         Tick, vars
    <2>2. \A l \in LeadId : reached[l] # {} => drafts'[l].sentAt = drafts[l].sentAt
      BY <1>2, TimesStay DEF ReachedIsPresent
    <2>3. \A e \in Email : LettersTo(e)' = LettersTo(e)
      BY <2>1, <2>2, LettersStay
    <2>4. [e \in Email |-> LettersTo(e)]' = [e \in Email |-> LettersTo(e)]
      BY <2>3
    <2>5. CASE UpdateLead
      <3>1. PICK l \in LeadId, input \in LeadInputs, status \in Status :
               update_lead(l, input, status)
        BY <2>5 DEF UpdateLead
      <3>2. leads[l] \in LeadRow /\ input \in LeadInput
        BY <3>1, DataAssumption DEF update_lead, Known, TypeOK
      <3>3. Opposed(leads[l].email, input.email) \in SUBSET Email
        BY <3>2 DEF Opposed, LeadRow, LeadInput
      <3>4. clock' = clock
        BY <3>1 DEF update_lead
      <3>5. CASE status = "do_not_contact"
        <4>1. suppressed' = suppressed \cup Opposed(leads[l].email, input.email)
          BY <3>1, <3>5 DEF update_lead
        <4>2. QED
          BY <2>4, <3>3, <3>4, <4>1 DEF People!Next, People!Oppose
      <3>6. CASE status # "do_not_contact"
        <4>1. suppressed' = suppressed
          BY <3>1, <3>6 DEF update_lead
        <4>2. QED
          BY <2>4, <3>4, <4>1 DEF People!outreachVars
      <3>7. QED
        BY <3>5, <3>6
    <2>6. CASE Tick
      <3>1. clock' = clock + 1 /\ suppressed' = suppressed
        BY <2>6 DEF Tick
      <3>2. QED
        BY <2>4, <3>1 DEF People!Next, People!Tick
    <2>7. CASE CreateLead \/ AddLeads \/ SaveProfile \/ CreateCampaign \/ UpdateDraft
                 \/ UNCHANGED vars
      <3>1. UNCHANGED <<clock, suppressed>>
        BY <2>7 DEF CreateLead, create_lead, AddLeads, add_leads, SaveProfile, save_profile,
           CreateCampaign, create_campaign, UpdateDraft, update_draft, vars
      <3>2. QED
        BY <2>4, <3>1 DEF People!outreachVars
    <2>8. QED
      BY <1>2, <2>5, <2>6, <2>7 DEF Next
  <1>3. QED
    BY <1>1, <1>2

\* The workspace implements Outreach: whatever leads, imports, edits and campaigns
\* do, one person gets at most three messages, in order and spaced, and none after
\* opposing.
THEOREM WorkspaceIsOutreach == Spec => IsOutreach
  <1>1. Init => People!Init
    <2> SUFFICES ASSUME Init PROVE People!Init
      OBVIOUS
    <2>1. \A e \in Email : LettersTo(e) = [s \in Steps |-> None]
      BY NoLetters DEF Init
    <2>2. QED
      BY <2>1 DEF Init, People!Init, People!Steps, Steps
  <1>2. Init => SentIsReached
    BY DEF Init, SentIsReached, Drafted
  <1>3. TypeOK /\ SentIsReached /\ [Next]_vars => SentIsReached'
    BY SentIsReachedStep
  <1>4. TypeOK /\ OneSequencePerAddress /\ OneSequencePerAddress' /\ ReachedIsPresent
          /\ SentIsReached /\ [Next]_vars
          => [People!Next]_(People!outreachVars)
    BY StepIsOutreach
  <1>5. QED
    BY <1>1, <1>2, <1>3, <1>4, TypeCorrect, NobodyIsApproachedTwice, ReachedStaysPresent, PTL
       DEF Spec, IsOutreach, People!Spec

(***************************************************************************)
(* The import, for every batch.  What a batch keeps is said as a condition *)
(* on a set, where the loop of add_leads goes row by row; that it is the   *)
(* same is induction on the rows, told with a least row.                   *)
(***************************************************************************)

\* A set of natural numbers has a least one.
LEMMA LeastNatural ==
    ASSUME NEW T \in SUBSET Nat, T # {}
    PROVE  \E m \in T : \A k \in T : m <= k
  <1>1. PICK m \in T : \A k \in T : <<k, m>> \notin OpToRel(<, Nat)
    BY WFMin, NatLessThanWellFounded, Zenon
  <1>2. \A k \in T : <<k, m>> \in Nat \X Nat /\ <<k, m>>[1] = k /\ <<k, m>>[2] = m
    OBVIOUS
  <1>3. \A k \in T : ~(k < m)
    BY <1>1, <1>2 DEF OpToRel
  <1>4. QED
    BY <1>3

\* What a loop over n rows keeps: the rows in F that conflict, in C, with no
\* row kept before them.
LoopKeeps(n, F, C, A) ==
    \A i \in 1..n :
        i \in A <=> i \in F /\ \A j \in A : j < i => <<j, i>> \notin C

\* A loop over n rows that keeps a row in F unless it conflicts with a row
\* kept before it: some set is what it keeps.
LEMMA LoopEnds ==
    ASSUME NEW n \in Nat, NEW F, NEW C
    PROVE  \E A \in SUBSET (1..n) : LoopKeeps(n, F, C, A)
  <1> DEFINE T == {m \in 0..n : \A A \in SUBSET (1..m) : ~LoopKeeps(m, F, C, A)}
  <1> SUFFICES ASSUME n \in T
               PROVE  FALSE
    OBVIOUS
  <1>1. PICK m \in T : \A k \in T : m <= k
    <2>1. T \in SUBSET Nat /\ T # {}
      OBVIOUS
    <2> HIDE DEF T
    <2>2. QED
      BY <2>1, LeastNatural
  <1>2. m # 0
    <2>1. LoopKeeps(0, F, C, {}) /\ {} \in SUBSET (1..0)
      BY DEF LoopKeeps
    <2>2. 0 \notin T
      BY <2>1
    <2>3. QED
      BY <1>1, <2>2
  <1>3. m \in 1..n /\ m - 1 \in 0..n /\ m - 1 \notin T
    <2>1. m \in 0..n
      OBVIOUS
    <2>2. m - 1 \notin T
      <3> HIDE DEF T
      <3>1. QED
        BY <1>1, <2>1
    <2>3. QED
      BY <1>2, <2>1, <2>2
  <1>4. PICK A \in SUBSET (1..(m - 1)) : LoopKeeps(m - 1, F, C, A)
    BY <1>3
  <1> DEFINE B == IF m \in F /\ \A j \in A : <<j, m>> \notin C
                  THEN A \cup {m} ELSE A
  <1>5. B \in SUBSET (1..m)
    BY <1>3
  <1>6. \A i \in 1..m : \A j : j < i /\ j \in B <=> j < i /\ j \in A
    BY <1>3
  <1>7. LoopKeeps(m, F, C, B)
    <2> SUFFICES ASSUME NEW i \in 1..m
                 PROVE  i \in B <=> i \in F /\ \A j \in B : j < i => <<j, i>> \notin C
      BY DEF LoopKeeps
    <2>1. CASE i = m
      <3>1. \A j \in A : j < m
        BY <1>3
      <3>2. m \in B <=> m \in F /\ \A j \in A : <<j, m>> \notin C
        BY <1>3
      <3> HIDE DEF B
      <3>3. QED
        BY <1>6, <2>1, <3>1, <3>2
    <2>2. CASE i # m
      <3>1. i \in 1..(m - 1)
        BY <1>3, <2>2
      <3>2. i \in B <=> i \in A
        BY <2>2
      <3>3. i \in A <=> i \in F /\ \A j \in A : j < i => <<j, i>> \notin C
        BY <1>4, <3>1 DEF LoopKeeps
      <3> HIDE DEF B
      <3>4. QED
        BY <1>6, <3>2, <3>3
    <2>3. QED
      BY <2>1, <2>2
  <1>8. QED
    BY <1>1, <1>5, <1>7

\* And only one: the first row on which two such sets differ would have the
\* same rows kept before it in both.
LEMMA LoopEndsOneWay ==
    ASSUME NEW n \in Nat, NEW F, NEW C,
           NEW A \in SUBSET (1..n), NEW B \in SUBSET (1..n),
           LoopKeeps(n, F, C, A), LoopKeeps(n, F, C, B)
    PROVE  A = B
  <1> DEFINE T == {i \in 1..n : ~(i \in A <=> i \in B)}
  <1>1. ASSUME T # {}
        PROVE  FALSE
    <2>1. T \in SUBSET Nat
      OBVIOUS
    <2>2. PICK m \in T : \A k \in T : m <= k
      <3> HIDE DEF T
      <3>1. QED
        BY <1>1, <2>1, LeastNatural
    <2>3. \A j \in 1..n : j < m => (j \in A <=> j \in B)
      BY <2>2
    <2>4. m \in A <=> m \in B
      BY <2>2, <2>3 DEF LoopKeeps
    <2>5. QED
      BY <2>2, <2>4
  <1>2. QED
    BY <1>1

\* add_leads keeps one set of rows of a batch, whatever the batch and the
\* table are: an import never hangs on a choice, and always has an outcome.
THEOREM ImportIsDetermined ==
    ASSUME NEW n \in Nat, NEW batch \in [1..n -> LeadInputs]
    PROVE  \E A : Kept(batch) = {A}
  <1>1. PICK F, C :
            /\ F = {i \in 1..n : ~duplicate(batch[i], {})}
            /\ C = {p \in (1..n) \X (1..n) : Clash(batch[p[1]], batch[p[2]])}
    OBVIOUS
  <1>2. ASSUME NEW A \in SUBSET (1..n)
        PROVE  A \in Kept(batch) <=> LoopKeeps(n, F, C, A)
    <2>1. \A i \in 1..n : i \in F <=> ~duplicate(batch[i], {})
      BY <1>1
    <2>2. \A i, j \in 1..n : <<j, i>> \in C <=> Clash(batch[j], batch[i])
      BY <1>1
    <2>3. QED
      BY <2>1, <2>2 DEF Kept, LoopKeeps
  <1>3. PICK A \in SUBSET (1..n) : LoopKeeps(n, F, C, A)
    BY LoopEnds
  <1>4. ASSUME NEW B \in Kept(batch)
        PROVE  B = A
    <2>1. B \in SUBSET (1..n)
      BY DEF Kept
    <2>2. LoopKeeps(n, F, C, B)
      BY <1>2, <2>1
    <2>3. QED
      BY <1>3, <2>1, <2>2, LoopEndsOneWay
  <1>5. A \in Kept(batch)
    BY <1>2, <1>3
  <1>6. QED
    BY <1>4, <1>5

\* An import is what creating its leads one after another would be: of a batch
\* with one more row, it keeps the same of the rows before, and the last row
\* exactly when create_lead would take it in the table they leave behind.
THEOREM ImportIsRowByRow ==
    ASSUME NEW n \in Nat, NEW batch \in [1..(n + 1) -> LeadInputs],
           NEW first \in [1..n -> LeadInputs],
           \A i \in 1..n : first[i] = batch[i],
           NEW A \in SUBSET (1..n), NEW id \in [A -> LeadId],
           TypeOK, add_leads(first, A, id),
           NEW B \in SUBSET (1..(n + 1)), B \in Kept(batch)
    PROVE  /\ B \cap (1..n) = A
           /\ n + 1 \in B <=> ~duplicate(batch[n + 1], {})'
  <1>1. B \cap (1..n) = A
    <2>1. A \in Kept(first)
      BY DEF add_leads
    <2>2. \A i \in 1..n :
            i \in B <=> /\ ~duplicate(first[i], {})
                        /\ \A j \in B : j < i => ~Clash(first[j], first[i])
      <3>1. \A i \in 1..n : i \in 1..(n + 1) /\ \A j \in B : j < i => j \in 1..n
        OBVIOUS
      <3>2. \A i \in 1..(n + 1) :
              i \in B <=> /\ ~duplicate(batch[i], {})
                          /\ \A j \in B : j < i => ~Clash(batch[j], batch[i])
        BY DEF Kept
      <3>3. QED
        BY <3>1, <3>2
    <2>3. B \cap (1..n) \in Kept(first)
      <3>1. \A i \in 1..n : \A j \in B : j < i => j \in B \cap (1..n)
        OBVIOUS
      <3>2. \A i \in 1..n :
              i \in B \cap (1..n) <=>
                /\ ~duplicate(first[i], {})
                /\ \A j \in B \cap (1..n) : j < i => ~Clash(first[j], first[i])
        BY <2>2, <3>1
      <3>3. QED
        BY <3>2 DEF Kept
    <2>4. QED
      BY <2>1, <2>3, ImportIsDetermined
  <1>2. n + 1 \in B <=> /\ ~duplicate(batch[n + 1], {})
                        /\ \A j \in A : ~Clash(batch[j], batch[n + 1])
    <2>1. n + 1 \in 1..(n + 1)
      OBVIOUS
    <2>2. n + 1 \in B <=> /\ ~duplicate(batch[n + 1], {})
                          /\ \A j \in B : j < n + 1 => ~Clash(batch[j], batch[n + 1])
      BY <2>1 DEF Kept
    <2>3. \A j : j \in A <=> j \in B /\ j < n + 1
      <3>1. \A j \in 1..(n + 1) : j \in 1..n <=> j < n + 1
        OBVIOUS
      <3>2. QED
        BY <1>1, <3>1
    <2>4. QED
      BY <2>2, <2>3
  <1>3. /\ \A l \in LeadId :
             leads'[l] = IF \E i \in A : id[i] = l
                         THEN NewRow(batch[CHOOSE i \in A : id[i] = l])
                         ELSE leads[l]
        /\ \A i \in A : leads[id[i]] = None
        /\ \A i, j \in A : id[i] = id[j] => i = j
    BY DEF add_leads
  <1>4. \A i \in A : id[i] \in LeadId /\ leads'[id[i]] = NewRow(batch[i])
    <2> SUFFICES ASSUME NEW i \in A
                 PROVE  id[i] \in LeadId /\ leads'[id[i]] = NewRow(batch[i])
      OBVIOUS
    <2>1. (CHOOSE k \in A : id[k] = id[i]) = i
      BY <1>3
    <2>2. id[i] \in LeadId
      OBVIOUS
    <2>3. QED
      BY <1>3, <2>1, <2>2
  <1>5. \A i \in A : batch[i] \in LeadInput
    BY DataAssumption
  <1>6. \A i \in A : /\ leads'[id[i]] # None
                     /\ \A a : Clash(leads'[id[i]], a) <=> Clash(batch[i], a)
    BY <1>4, <1>5, NewRowIsRow, NewRowClash
  <1>7. duplicate(batch[n + 1], {})' <=>
          \/ duplicate(batch[n + 1], {})
          \/ \E j \in A : Clash(batch[j], batch[n + 1])
    <2>1. \A l \in LeadId : leads[l] # None => leads'[l] = leads[l]
      BY <1>3
    <2>2. \A l \in LeadId : leads[l] = None /\ leads'[l] # None =>
                              \E i \in A : id[i] = l
      BY <1>3
    <2>3. duplicate(batch[n + 1], {}) <=>
            \E l \in LeadId : leads[l] # None /\ Clash(leads[l], batch[n + 1])
      BY DEF duplicate, Known
    <2>4. duplicate(batch[n + 1], {})' <=>
            \E l \in LeadId : leads'[l] # None /\ Clash(leads'[l], batch[n + 1])
      BY DEF duplicate, Known, Clash
    <2>5. ASSUME NEW l \in LeadId, leads'[l] # None, Clash(leads'[l], batch[n + 1])
          PROVE  \/ duplicate(batch[n + 1], {})
                 \/ \E j \in A : Clash(batch[j], batch[n + 1])
      <3>1. CASE leads[l] # None
        BY <2>1, <2>3, <2>5, <3>1
      <3>2. CASE leads[l] = None
        <4>1. PICK i \in A : id[i] = l
          BY <2>2, <2>5, <3>2
        <4>2. QED
          BY <1>6, <2>5, <4>1
      <3>3. QED
        BY <3>1, <3>2
    <2>6. ASSUME NEW j \in A, Clash(batch[j], batch[n + 1])
          PROVE  duplicate(batch[n + 1], {})'
      BY <1>4, <1>6, <2>4, <2>6
    <2>7. QED
      BY <2>1, <2>3, <2>4, <2>5, <2>6
  <1>8. QED
    BY <1>1, <1>2, <1>7
=============================================================================
