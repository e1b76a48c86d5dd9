SPECIFICATION FairSpec
CONSTANTS
    probe = probe  impostor = impostor
    garbled = garbled  c1 = c1  c2 = c2
    None = None
    Events = {probe, garbled}
    Probes = {probe}
    Synthetic = {probe}
    Invalid = {}
    Garbled = {garbled}
    Corr <- CorrelationId
    Workers = {w1}
    MaxRetries = 1
    MaxFaults = 2
PROPERTIES EventuallySettled
CHECK_DEADLOCK FALSE
