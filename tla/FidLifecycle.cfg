\* Every operation, failures allowed, two threads, two names of which one
\* exists at the start: the FID ownership invariants and the pool scan.
CONSTANTS
    t1 = t1  t2 = t2  n1 = n1  n2 = n2
    Threads = {t1, t2}
    Names = {n1, n2}
    InitialNames = {n1}
    Root = Root
    None = None
    NOFID = NOFID
    MaxFids = 4
    Ops = {"lookup", "open", "opendir", "create"}
    Failures = TRUE
SYMMETRY ThreadSymmetry
SPECIFICATION Spec
INVARIANT TypeOK
INVARIANT FidsUniquelyOwned
INVARIANT OwnedFidsBound
INVARIANT ServerFidsOwned
INVARIANT ScanIsNextFit
