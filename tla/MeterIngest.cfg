SPECIFICATION Spec
CONSTANTS
    probe = probe  impostor = impostor
    garbled = garbled  c1 = c1  c2 = c2
    None = None
    Events = {probe, impostor}
    Probes = {probe}
    Synthetic = {probe, impostor}
    Invalid = {}
    Garbled = {}
    Corr <- CorrelationId
    Workers = {w1, w2}
    MaxRetries = 1
    MaxFaults = 1
SYMMETRY Symmetry
INVARIANTS SuccessWasPersisted StoredOnce NothingLost
CHECK_DEADLOCK FALSE
