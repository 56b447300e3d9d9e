\* One of the properties below at a time. The first is broken by a push that was read
\* before an ack and arrives after it, the second by a cache that could not be opened.
SPECIFICATION Spec
CONSTANTS
    MaxAlarms = 1
    MaxInFlight = 2
    MaxFaults = 0
INVARIANT BadgePulsesWhileUnacked
\* INVARIANT QueuedRowIsQueued
