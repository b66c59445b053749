SPECIFICATION CarefulSpec
CONSTANTS
    Alarms = {a1, a2, a3}
    Span = 4
    Delays = {0, 1, 2, 3}
    Periods = {0, 1, 3}
    AlarmList = alt_alarm_list
    Null = null
    MaxFd = 6
    Devices = {null_dev, jtag_uart}
    NullDev = null_dev
    Console = jtag_uart
    NoDev = none
    Addresses = {0, 1}
    Data = {0, 1}
    Zero = 0
    Gap = 2
    BUF_LEN = 3
    FifoSize = 1
    Threshold = 0
    Numbers = 3
    MaxCount = 2
    Timeouts = {2}
    Forever = 4
INVARIANTS
    WordsAsWritten
    InOrder
    NoLostWakeup
PROPERTIES
    RingsOnTime
    TicksEnd
    LocksObeyed
    CallsReturn
    Delivered
