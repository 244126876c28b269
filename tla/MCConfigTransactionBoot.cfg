SPECIFICATION Spec
CONSTANTS
    Configs <- MCConfigs
    Default <- Empty
    Keys <- MCKeys
    Users = {u1, u2}
    Core = core
    MaxGeneration = 3
    Absent = absent
    Faulty = faulty
    NoPlan = 0
    None = none
    v1 = v1
    v2 = v2
    ble = ble
    wifi = wifi
PROPERTIES
    BootKeepsProject
