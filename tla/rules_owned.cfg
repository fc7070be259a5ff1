SPECIFICATION Spec
CONSTANTS
    Bodies <- OwnedBodies
    Reposted <- Posted
    MaxObjs = 4
    MaxEntries = 8
INVARIANTS EnabledRuleArmed EntriesOwned
CHECK_DEADLOCK FALSE
