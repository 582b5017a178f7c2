SPECIFICATION FairSpec
CONSTANTS
    old = old
    a = a
    b = b
    c = c
    None = None
    Procs <- MCProcs
    Pids = {1, 2, 3}
    PidOf <- MCPidOf
    Leases = {l1, l2, l3}
    Legacy = {old}
CHECK_DEADLOCK FALSE
INVARIANTS
    SingleWriter
    OwnerRecordAgrees
PROPERTIES
    LegacyWriterKeepsRecord
    AbandonedLeaseFreed
