SPECIFICATION Spec
CONSTANTS
    Catalogue <- MCCatalogue
    MaxOptions = 3
CHECK_DEADLOCK FALSE
INVARIANTS
    TypeOK
    SettingsInForce
    CommandsInForce
    TypesOnScheme
    PartsAttached
