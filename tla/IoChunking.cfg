\* Reads and writes of up to 12000 bytes over a negotiated msize, with
\* short replies and failing RPCs.
CONSTANTS
    ClientMsize = 8192
    ServerMsizes <- MCServerMsizes
    FileSizes <- MCFileSizes
    Positions <- MCPositions
    Lengths <- MCLengths
    Shortfalls <- MCShortfalls
    Failures = TRUE
SPECIFICATION FairSpec
INVARIANT TypeOK
PROPERTY ReadDeliversFile WriteReportsWritten CallReturns
