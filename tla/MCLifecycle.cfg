CONSTANT Faults = {"hang", "setupThrows"}
SPECIFICATION Spec
INVARIANT NoDoubleSetValue
PROPERTY ShutdownCompletes
