CONSTANTS
    FloorBits = 2
    RequestFloors <- MCRequestFloorsAll
    MaxRequests = 3
SPECIFICATION Spec
INVARIANT PositionUpdatesInRange
