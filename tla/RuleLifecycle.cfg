SPECIFICATION Spec
CONSTANTS
    d1 = d1
    d2 = d2
    ann = ann
    bob = bob
    Drafts = {d1, d2}
    Users = {ann, bob}
    NoUser = NoUser
    RolesOf <- TwoUsers
    RuleIds <- Ids
    Fold <- Lower
    Rules <- ThreeRules
    Loadable <- GoodRules
    RulepackIds = {}
    NewIds = {"x"}
    NoFile = NoFile
    Tampered <- Replacements
    None = None
    HistoryLimit = 2
    MaxVersion <- Bounds
    MaxActivation = 2
    MaxDamage = 1
INVARIANTS RuleInv RunsReviewedRules OneDraftPerId HistoryRuns RetryIsPossible
PROPERTIES CommitsWhatWasSeen
CHECK_DEADLOCK FALSE
