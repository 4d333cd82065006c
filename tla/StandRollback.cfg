SPECIFICATION Spec
CONSTANTS
    dut = dut
    analyzer = analyzer
    generator = generator
    Names <- MCNames
    Inventories <- MCInventories
    MaxRoles = 4
    Main = Main
    Workers = {t1}
    NoThread = NoThread
    NoDevice = NoDevice
    MaxNested = 1
INVARIANTS
    AlwaysClosed
CHECK_DEADLOCK FALSE
