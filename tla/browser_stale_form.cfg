SPECIFICATION TabSpec
CONSTANTS
    LeadId = {l1}
    CampaignId = {c1}
    Email = {e1, e2}
    Siren = {}
    Place = {x1}
    None = None
    Outcomes = {"replied"}
    Profile = {blank, p1}
    DefaultProfile = blank
    CompleteProfile = {p1}
    Text = {t1}
    Template = t1
    LeadInputs <- MCForms
    MaxBatch = 0
    FollowUpDelay = 1
    MaxTime = 1
    MaxLate = 1
    ClockSkew = 1
INVARIANTS
    AnswersStopFollowUps
