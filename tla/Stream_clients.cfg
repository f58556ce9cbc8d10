SPECIFICATION Spec
CONSTANTS
    MaxText = 2
    MaxCalls = 2
    MaxTries = 2
INVARIANTS
    StreamTypeOK
    HonestEnding
    ItemsNested
    StreamAddsUp
    IdentityKept
