\* One mount, read-only, two threads sharing one tag, failures, replies with
\* a size field over fMaxSize, no signals: replies match their requests and
\* the wrapper layer keeps its tag pool.
CONSTANTS
    t1 = t1  t2 = t2  v1 = v1  v2 = v2  None = None  NOTAG = NOTAG
    Threads = {t1, t2}
    Volumes = {v1}
    VolumeOf <- OneVolume
    ReadOnly = {v1}
    Seqs = {0, 1}
    QueueSize = 2
    MaxInterrupts = 0
    MaxTags = 1
    Failures = TRUE
    OversizeReplies = TRUE
SPECIFICATION Spec
SYMMETRY ThreadSymmetry
INVARIANT TypeOK ResponseMatchesRequest TagPoolConsistent ReadOnlyNoMutation
