CONSTANTS
    Threads = 2
    MaxCalls = 3
    Callers = {select, setup, local, remote}
    Readers = {select}
    Setups = {setup}
    LocalCalls = {local}
    RemoteCalls = {remote}
    Statements = 2
    NumGroups = 2
    MaxVersion = 2
    None = None
    Gone = Gone
    Partial = Partial
    Spoiled = Spoiled
    Failed = Failed

SPECIFICATION FairSpec

INVARIANTS
    NoTornBatch
    ErrHasACause

PROPERTIES
    ImplementsContract
    EveryCallEnds
