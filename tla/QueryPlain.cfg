SPECIFICATION Spec
CONSTANTS
    Requests <- PlainRequests
    Users = {alice, nobody}
    Anonymous = nobody
    Shared = shared
    Private = {"secret"}
    Lists = {"l"}
    Nulls = {"n"}
    MaxHints = 2
    MaxEntries = 2
INVARIANTS TypeOK Transparent EntriesTrue
PROPERTIES RepeatAsksNothing PanicsExplained
