SPECIFICATION Spec
CONSTANTS
    Requests <- SwapRequests
    Users = {alice}
    Anonymous = nobody
    Shared = shared
    Private = {"secret"}
    Lists = {"l"}
    Nulls = {"n"}
    MaxHints = 1
    MaxEntries = 2
INVARIANT EntriesTrue
