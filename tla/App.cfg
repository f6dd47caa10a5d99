CONSTANT
    IoThreads = {t1, t2}
SPECIFICATION Spec
INVARIANTS LastBatchOnly MqChannelKept
PROPERTY SignalStopsServer
