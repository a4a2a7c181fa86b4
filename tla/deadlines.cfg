SPECIFICATION Spec
CONSTANTS
    Tasks = {t1, t2}
    MaxSleep = 2
    MaxDeadline = 2
    MaxReg = 2
INVARIANTS WakeAtIsBound ReactorIsInTime
CHECK_DEADLOCK FALSE
