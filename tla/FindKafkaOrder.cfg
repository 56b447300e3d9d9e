\* Two workers and two readings of one device.
SPECIFICATION Spec
CONSTANTS
    Workers = {w1, w2}
    NoTask = NoTask
    MaxTasks = 2
    Devices = {pump}
    BatchSize = 3
    MaxFaults = 0
    MaxOutages = 0
INVARIANT KafkaKeepsDeviceOrder
