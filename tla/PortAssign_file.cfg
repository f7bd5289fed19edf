SPECIFICATION Spec
CONSTANTS
    a = a
    b = b
    c = c
    DeviceList = DeviceList
    AnyDevice = AnyDevice
    Devices = {a, b, c}
    Configs <- MCFile
    NoText = NoText
    IsFile <- MCIsFile
    Ports = {2, 3}
INVARIANTS
    TypeOK
    OnePerPort
PROPERTIES
    ReattachKeepsPort
    RefusedOnlyWhenFull
