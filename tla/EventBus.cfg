SPECIFICATION BusFairSpec
CONSTANTS
    e1 = e1
    e2 = e2
    e3 = e3
    d1 = d1
    Events = {e1, e2}
    Documents = {d1}
    Subject <- OneDocument
    Timeout = 2
    Margin = 4
    Lifetimes = {0, 3, 5, 7}
    Faults = {"refusal", "stop"}
    MaxUsize = 63
    BytesPerMb = 8
    Environments <- AllEnvironments
    Records = {e1, e2, e3}
    QueueLimit = 2
    KafkaTimeout = 2
    Retries = 1
    KafkaFaults = {"request", "refusal", "stop"}
INVARIANT BusTypeOK
INVARIANT NeverExpiresMidFlight
INVARIANT DropsOnlyWhatNobodyAskedFor
INVARIANT WhatIsSetApplies
PROPERTY DeliversOrLogs
PROPERTY EveryTaskEnds
PROPERTY KafkaDeliversOrLogs
PROPERTY KafkaEveryMessageEnds
