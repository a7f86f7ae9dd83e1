SPECIFICATION Spec
CONSTANTS
    LeadId = {l1, l2, l3}
    CampaignId = {c1}
    Email = {e1, e2}
    Siren = {s1}
    Place = {x1, x2}
    None = None
    Outcomes = {"replied"}
    Profile = {blank}
    DefaultProfile = blank
    CompleteProfile = {}
    Text = {t1}
    Template = t1
    LeadInputs <- MCKeys
    MaxBatch = 2
    FollowUpDelay = 1
    MaxTime = 0
SYMMETRY MCSymmetry
INVARIANTS
    TypeOK
    KeysUnique
    OppositionAgrees
