CONSTANT Faults = {}
SPECIFICATION Spec
INVARIANT SubsystemsReleased
