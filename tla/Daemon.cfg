SPECIFICATION Spec
CONSTANTS
    Devices = {"uio0"}
    Handled = {"uio0"}
    Builtin = {"file"}
    Consumers = {"foo"}
    Calls = {"c1", "c2"}
    MaxKernel = 2
    MaxNames = 3
    MaxEnds = 2
INVARIANTS
    DevicesOpenAndRunning
    HandlersAlive
PROPERTIES
    RequestsAnswered
    ConsumersRegistered
CHECK_DEADLOCK FALSE
