\* One mount, two threads, failures and a signal: under fair scheduling of
\* the threads, the device and the callback, every DoRequest returns.
\* Deadlock is reported through RequestReturns: with every thread idle the
\* request lock is free and Call is enabled, so a state with no successor has
\* a thread inside DoRequest, which the property then finds waiting forever.
CONSTANTS
    t1 = t1  t2 = t2  v1 = v1  v2 = v2  None = None  NOTAG = NOTAG
    Threads = {t1, t2}
    Volumes = {v1}
    VolumeOf <- OneVolume
    Seqs = {0, 1}
    QueueSize = 2
    MaxTags = 1
    ReadOnly = {}
    MaxInterrupts = 1
    Failures = TRUE
    OversizeReplies = FALSE
SPECIFICATION FairSpec
PROPERTY RequestReturns
CHECK_DEADLOCK FALSE
