SPECIFICATION FairSpec
CONSTANTS
    JobCount = 2
    Workers = {w1, w2}
    Kind <- TwoKinds
    Variants <- TwoVariants
    PlaceCount <- TwoPlaces
    MaxAttempts = 2
    Contents = {media}
    Length <- ThreeBlocks
    Sniff = 2
    Faults = {"cancel", "staging", "put"}
INVARIANTS TypeOK ImagesAreWhole FallbackJustified NoJobSkipped FinalCountReported
PROPERTIES ImplementsContract Returns InterruptReturns
