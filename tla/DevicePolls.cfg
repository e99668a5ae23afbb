\* Two polls of one device code at the same time.
SPECIFICATION DeviceSpec
CONSTANTS
    Device = {d1}
    DeviceClient = {k1}
    SelfNamed = {k1}
    DeviceUser = {u1}
    Poll = {p1, p2}
    Confirm = {q1}
    NoDevice = NoDevice
INVARIANTS OneSessionPerDevice
CHECK_DEADLOCK FALSE
