CONSTANTS
    Fds = {0, 1}
    SetSize = 2
    Procs = {"a"}
    Flags <- MCFlags
    MsPerSec = 2
    Delays = {1}
    MaxTime = 2
    MaxTimers = 2
    EpFiles = {"f1", "f2"}
    EpWaiters = {w1, w2}
    EpControllers = {c1}
    MaxEvents = 1
    EpModes <- MCModes
    EpTimeouts = {"some"}
    EpSignals = {"signal", "fatal"}
    PipeBuffers = 1
    MaxPipeOps = 2
    MaxCtls = 2
    MaxFaults = 1
SYMMETRY MCSymmetry
SPECIFICATION MCSpec
INVARIANTS TableMatchesKernel SleepsNoLonger TimerPass NoEventLost NobodySleepsOverEvents
           ReadyListsSound
CHECK_DEADLOCK FALSE
