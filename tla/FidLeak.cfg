\* One thread looking names up while the VFS evicts vnodes: FIDs clunked by
\* ~Inode or by the cached path of GetInode are never released to the pool.
CONSTANTS
    t1 = t1  t2 = t2  n1 = n1  n2 = n2
    Threads = {t1}
    Names = {n1}
    InitialNames = {n1}
    Root = Root
    None = None
    NOFID = NOFID
    MaxFids = 4
    Ops = {"lookup"}
    Failures = FALSE
SPECIFICATION Spec
INVARIANT PoolSlotsOwned
