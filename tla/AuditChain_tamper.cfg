\* Chains of up to four events with one tampering step.
SPECIFICATION Spec
CONSTANTS
    MaxEvents = 4
    MaxTampers = 1
INVARIANT TamperDetected
CHECK_DEADLOCK FALSE
