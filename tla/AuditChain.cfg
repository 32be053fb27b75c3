\* Chains of up to four events, drained and rebuilt, with one tampering
\* step of the environment.
SPECIFICATION Spec
CONSTANTS
    MaxEvents = 4
    MaxTampers = 1
INVARIANT TypeOK IntactVerifies FieldTamperPinpointed
CHECK_DEADLOCK FALSE
