CONSTANT Faults = {"hang"}
SPECIFICATION Spec
PROPERTY ListenerObservesStop
