SPECIFICATION FairSpec
CONSTANTS
    None = None
    Saved <- MCSaved
    Edits <- MCEdits
    EarlyEdits = TRUE
    PromptFlush = FALSE
    KeystoreMayFail = TRUE
    MaxEdits = 2
    MaxStops = 1
    MaxCreates = 2
    MaxKills = 1
INVARIANTS SettingsArrive 
PROPERTY EditsPersist
CHECK_DEADLOCK FALSE
