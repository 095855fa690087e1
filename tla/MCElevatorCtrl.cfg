CONSTANTS
    FloorBits = 2
    RequestFloors <- MCRequestFloorsBelowTop
    MaxRequests = 3
SPECIFICATION Spec
INVARIANT TypeOK
INVARIANT RequestConservation
INVARIANT PositionUpdatesInRange
PROPERTY CurrentQueueServed
PROPERTY ImplementsDispatcher
