CONSTANTS
    Clients = {c1, c2}
    NoSocket = NoSocket
    FrameKinds <- MCFrameKinds
    MaxFrames = 2
    MaxStatus = 1
SPECIFICATION Spec
INVARIANT TypeOK RepliesInSendOrder RequestAcknowledged
 
