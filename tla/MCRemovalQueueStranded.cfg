SPECIFICATION FairSpec
CONSTANTS
    Tags = {"a"}
    Groups = {"g"}
    Replacers = {"g"}
    KindsOf <- OneKindEach
    MaxEnqueues = 3
    MaxSpawned = 2
CHECK_DEADLOCK FALSE
PROPERTIES
    QueueDrains
