SPECIFICATION BackupSpec
CONSTANTS
    LeadId = {l1}
    CampaignId = {c1}
    Email = {e1}
    Siren = {}
    Place = {x1}
    None = None
    Outcomes = {}
    Profile = {blank, p1}
    DefaultProfile = blank
    CompleteProfile = {p1}
    Text = {t1}
    Template = t1
    LeadInputs <- MCForms
    MaxBatch = 0
    FollowUpDelay = 1
    MaxTime = 0
    Restorer = {r1, r2}
    MaxWebsite = 1000
    Websites = {992}
SYMMETRY MCSymmetry
INVARIANTS
    BackupTypeOK
    FileIsOneMoment
    TargetIsConsistent
PROPERTIES
    NeverOverwritten
