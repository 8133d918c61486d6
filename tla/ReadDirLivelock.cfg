\* The VFS asks for more entries than its dirent buffer holds; the Treaddir
\* never fails.  Does every ReadDir call return?
CONSTANTS
    Dir <- MCDir
    ReplyEntries = 2
    MaxCounts = {2}
    BufSizes = {1, 2}
    Failures = FALSE
SPECIFICATION FairSpec
PROPERTY ReadDirReturns
