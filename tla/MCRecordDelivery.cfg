SPECIFICATION Spec
CONSTANTS
    mqtt = mqtt
    usb = usb
    a = a
    b = b
    Consumers = {mqtt, usb}
    Sources = {a, b}
    Sequences = {1}
    Boots = {1, 2}
    Capacity = 2
    Modulus = 2
    NoRecord = NoRecord
    NoCursor = NoCursor
    MaxPushes = 5
INVARIANTS
    RingHoldsWindow
PROPERTY DeliversQueues
