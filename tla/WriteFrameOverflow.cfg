\* Spec invariant 5 against BuildWrite: does a write chunk of iounit bytes
\* fit in a frame of msize bytes?
CONSTANTS
    ClientMsize = 8192
    ServerMsizes <- MCServerMsizes
    FileSizes <- MCFileSizes
    Positions <- MCPositions
    Lengths <- MCLengths
    Shortfalls <- MCShortfalls
    Failures = FALSE
SPECIFICATION Spec
INVARIANT WriteNeverRefused
