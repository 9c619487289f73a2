INIT PartInit
NEXT PartNext
CONSTANT DeviceName = {"d1"}
CONSTANT MaxCommands = 2
CONSTANT MaxMishaps = 2
CONSTANT TimePoint = {"t1", "t2"}
CONSTANT FramePoint = {"f1", "f2"}
CONSTANT Window = 1
CONSTANT Every = 2
CONSTANT MaxLayers = 2
CONSTANT Budget = 1
CONSTANT MaxReadings = 3
CONSTANT MaxClock = 2
CONSTANT MaxTs = 2
CONSTANT Part = {"commands", "library", "grouped", "sampled", "values", "policies", "descriptor",
                 "command line", "stdout"}
CHECK_DEADLOCK FALSE
INVARIANT
    OneConfiguration
    BatchTold
    ConfigurationSound
    MeasuredOnce
    MeasuredAll
    ValuesSound
    DescriptorSound
    CommandLineSound
