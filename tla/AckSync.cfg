\* One alarm, three requests at once: every order of the answers to two lists
\* and an ack, or to a list and two acks of one alarm. Fair event loops.
SPECIFICATION Spec
CONSTANTS
    MaxAlarms = 1
    MaxInFlight = 3
    MaxFaults = 1
INVARIANT AckInv
INVARIANT NoAckVanishes
INVARIANT NoAlarmIsMissed
PROPERTY QueueForgetsOnlyRecorded
PROPERTY QueuedAcksAreRecorded
PROPERTY ScreenSettles
