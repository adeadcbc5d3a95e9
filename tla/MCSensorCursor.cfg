SPECIFICATION Spec
CONSTANTS
    RebootDropThreshold = 1
    BootIds = {b1, b2, b3}
    MaxSequence = 2
INVARIANTS CursorComplete
PROPERTIES NoVersionedReplay EpochsOnlyAdvance
CHECK_DEADLOCK FALSE
