CONSTANTS
    A = a
    B = b
    SeqMod = 16
    Window = 2
    MaxRetries = 1
    Traffic = {"data", "unreliable"}
    MaxSeq <- Lopsided
    MaxFlight = 2
    MaxFaults = 1
SPECIFICATION Spec
CHECK_DEADLOCK FALSE
INVARIANTS TypeOK WindowIsTruthful HonestHeaders AckedWasAccepted
PROPERTIES RepeatsOnlyAtWindowEdge OnceUnderFlowControl ChannelSpec
