CONSTANTS
    FloorBits = 2
    RequestFloors <- MCRequestFloorsBelowTop
    MaxRequests = 3
SPECIFICATION Spec
PROPERTY GoInheritsCurrentDirection
