SPECIFICATION Spec
CONSTANTS
    SchemaVersion = 19
    OldVersions <- MCOldVersions
    MaxEvents = 2
    MaxFaults = 2
CHECK_DEADLOCK FALSE
INVARIANTS
    UpgradeIsAtomic
    ContentsAreConverted
PROPERTIES
    VersionNeverDecreases
    UpgradeEnds
