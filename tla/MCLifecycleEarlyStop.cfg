CONSTANT Faults = {}
SPECIFICATION Spec
PROPERTY StopTerminatesRun
