SPECIFICATION Live
CONSTANTS
    Configs <- MCConfigs
    Slots <- MCSlots
    StartTab <- MCStartTab
    Targets <- MCTargets
    InlineTargets <- MCInline
    OtherTab <- MCOther
    Stages <- MCStages
INVARIANT CheckedAtTheStart
PROPERTIES StampsAreTrue SummaryCountsFailures EveryJobEveryCycle
