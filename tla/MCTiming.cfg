SPECIFICATION MCSpec
CONSTANTS
    Resolution <- RingQuantum
    MaxFrames = 6
INVARIANTS RingRecovers ClientsFlushInTime InRecoversSoon
CHECK_DEADLOCK FALSE
