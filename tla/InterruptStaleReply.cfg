\* A signal interrupts a DoRequest waiting for its reply; a later
\* DoRequest of the same mount returns that stale reply.
CONSTANTS
    t1 = t1  t2 = t2  v1 = v1  v2 = v2  None = None  NOTAG = NOTAG
    Threads = {t1, t2}
    Seqs = {0, 1}
    QueueSize = 2
    MaxTags = 2
    ReadOnly = {}
    Failures = FALSE
    OversizeReplies = FALSE
    Volumes = {v1}
    VolumeOf <- OneVolume
    MaxInterrupts = 1
SPECIFICATION Spec
INVARIANT ResponseMatchesRequest
