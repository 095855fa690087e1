CONSTANTS
    Clients = {c1, c2}
    NoSocket = NoSocket
    FrameKinds <- MCFrameKindsAll
    MaxFrames = 2
    MaxStatus = 1
SPECIFICATION Spec
INVARIANT StatusToRequester
