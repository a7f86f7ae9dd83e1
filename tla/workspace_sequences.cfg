SPECIFICATION Spec
CONSTANTS
    LeadId = {l1, l2}
    CampaignId = {c1, c2}
    Email = {e1, e2}
    Siren = {}
    Place = {x1}
    None = None
    Outcomes = {"replied"}
    Profile = {blank, p1}
    DefaultProfile = blank
    CompleteProfile = {p1}
    Text = {t1}
    Template = t1
    LeadInputs <- MCForms
    MaxBatch = 1
    FollowUpDelay = 2
    MaxTime = 4
SYMMETRY MCSymmetry
INVARIANTS
    FollowUpsSpaced
    NextActionIsHonest
    OneSequencePerAddress
    JournalAccounts
    CampaignsAreWhole
PROPERTIES
    OppositionIsFinal
    IsOutreach
