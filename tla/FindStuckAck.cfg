\* An ack of an alarm another client has acknowledged is answered with 404.
SPECIFICATION Spec
CONSTANTS
    MaxAlarms = 1
    MaxInFlight = 2
    MaxFaults = 0
PROPERTY QueueIsFlushed
