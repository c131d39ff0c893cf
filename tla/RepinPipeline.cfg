SPECIFICATION FairSpec
CONSTANTS
    MaxTag = 2
    MaxByHand = 1
INVARIANTS
    TypeOK
    PublishedConsistent
    LeftoverExplained
PROPERTIES
    HumanWorkKept
    EachReleaseHandled
