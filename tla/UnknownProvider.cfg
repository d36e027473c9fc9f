SPECIFICATION Spec
CONSTANTS
    Strings <- MCStrings
    ProviderConfigs <- MCProviderConfigs
INVARIANTS
    DeploysValidProvider
