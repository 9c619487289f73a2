INIT PartInit
NEXT PartNext
CONSTANT Peripheral = {"d1"}
CONSTANT Bits = 2
CONSTANT ImageSize = 1
CONSTANT MaxConnects = 2
CONSTANT MaxWrites = 2
CONSTANT MaxFaults = 1
CONSTANT UaPoint = {"p1", "p2"}
CONSTANT UaFaults = 2
CONSTANT Renumbers = FALSE
CONSTANT Nodes = 5
CONSTANT BlockSize = 2
CONSTANT MaxInFlight = 2
CONSTANT BusyRetries = 1
CONSTANT RegisterBits = 4
CONSTANT Start = 1
CONSTANT Count = 2
CONSTANT Batch <- MCBatch
CONSTANT MaxOpened = 2
CONSTANT MaxRequests = 2
CONSTANT CanBatch <- MCCanBatch
CONSTANT MaxBuses = 2
CONSTANT CanRequests = 7
CONSTANT Generations = 2
CONSTANT MaxBoots = 2
CONSTANT Changing = {"left"}
CONSTANT Part = {"opcua", "opcua read", "snmp poll", "snmp", "snmp forms", "pi push", "pi", "pi forms",
                 "profibus", "modbus", "canbus", "canopen"}
CHECK_DEADLOCK FALSE
INVARIANT
    OpcUaSound
    SnmpSound
    SnmpRouted
    PiSound
    ProfibusSound
    ModbusSound
    CanbusSound
    CanopenSound
