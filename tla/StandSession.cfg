SPECIFICATION Spec
CONSTANTS
    dut = dut
    analyzer = analyzer
    generator = generator
    Names <- MCNames
    Inventories <- MCInventories
    MaxRoles = 4
    Main = Main
    Workers = {t1, t2}
    NoThread = NoThread
    NoDevice = NoDevice
    MaxNested = 2
INVARIANTS
    Serialized
    OpenWhileUsed
    NothingLeftOpen
    WrongIsUntouched
PROPERTIES
    SessionEnds
CHECK_DEADLOCK FALSE
