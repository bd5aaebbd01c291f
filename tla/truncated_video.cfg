SPECIFICATION Spec
CONSTANTS
    JobCount = 1
    Workers = {w1}
    Kind <- OneVideo
    Variants <- OneUsable
    PlaceCount <- OnePlace
    MaxAttempts = 2
    Contents = {media}
    Length <- ThreeBlocks
    Sniff = 2
    Faults = {}
INVARIANTS StoredMediaIsWhole
