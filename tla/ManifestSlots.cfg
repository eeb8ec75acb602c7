SPECIFICATION Spec
CONSTANTS
    Body = {m1, m2}
    NoManifest = NoManifest
    TornManifest = TornManifest
    MaxEpoch = 8
INVARIANTS RamIsRecoverable CacheIsWinner
PROPERTIES ImplementsCell
