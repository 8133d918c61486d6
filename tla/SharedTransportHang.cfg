\* Two mounts of one tag share the transport; with fair scheduling of
\* threads, device and callback, a DoRequest can wait forever.
CONSTANTS
    t1 = t1  t2 = t2  v1 = v1  v2 = v2  None = None  NOTAG = NOTAG
    Threads = {t1, t2}
    Seqs = {0, 1}
    QueueSize = 2
    MaxTags = 2
    ReadOnly = {}
    Failures = FALSE
    OversizeReplies = FALSE
    Volumes = {v1, v2}
    VolumeOf <- TwoVolumes
    MaxInterrupts = 0
SPECIFICATION FairSpec
PROPERTY RequestReturns
