\* The docstring of _sweep_once on a handler that raises, against two sweeps.
CONSTANTS
    Logs = {l1, l2}
    NoLog = NoLog
    MaxBlock = 3
    ConfirmBlocks = 1
    MaxSpan = 1
    MaxFaults = 1
SPECIFICATION Spec
INVARIANT RaisedEntryStaysAhead
