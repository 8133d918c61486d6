\* Two threads looking up the same name, no server errors: the loser of the
\* publish_vnode race clunks its child FID twice.
CONSTANTS
    t1 = t1  t2 = t2  n1 = n1  n2 = n2
    Threads = {t1, t2}
    Names = {n1}
    InitialNames = {n1}
    Root = Root
    None = None
    NOFID = NOFID
    MaxFids = 4
    Ops = {"lookup"}
    Failures = FALSE
SPECIFICATION Spec
INVARIANT NoStrayRequests
