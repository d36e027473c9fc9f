SPECIFICATION FairSpec
CONSTANTS
    Strings <- MCStrings
    ProviderConfigs <- MCProviderConfigs
INVARIANTS
    WiredTogether
    SettledServes
PROPERTIES
    ControllerNeverChanges
    RolloutConverges
