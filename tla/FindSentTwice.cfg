\* A reading that came by MQTT comes again from the poll.
SPECIFICATION Spec
CONSTANTS
    Clients = {c1}
    NoCursor = NoCursor
    MaxReadings = 1
    MaxAlarms = 1
    MaxFaults = 0
INVARIANT DeliveredOnce
