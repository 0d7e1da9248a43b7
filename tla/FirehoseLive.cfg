\* A stream with one-place channels under a clock that is set back and forth, and a job
\* table that meets a failure and a restart while no connection is open.
CONSTANTS
    Dids = {d1}
    Writers = {w1}
    JobPool = TRUE
    MaxMs = 2
    MaxRand = 1
    MaxEvents = 2
    MaxFaults = 1
    MaxRestarts = 1
    Subscribers = {s1}
    Cursors = {1}
    PageSize = 2
    RingSize = 1
    MpscSize = 1
    Window = 0
SPECIFICATION MCLiveSpec
INVARIANTS
    LoggedFirst
PROPERTIES
    PendingJobIsPublished
    PublishedReachesSubscriber
CHECK_DEADLOCK FALSE
