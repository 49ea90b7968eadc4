CONSTANTS
    Drafts <- MCDrafts
    OutValues <- MCOutValues
    SafeIds <- MCSafeIds
    SecretNames <- MCSecretNames
    Inventory <- MCInventory
    Profiles <- MCProfiles
SPECIFICATION Spec
CHECK_DEADLOCK FALSE
INVARIANTS
    AcceptedSpecsRoute
    RefsResolved
