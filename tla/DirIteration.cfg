\* Three entries of dirent sizes 1, 2, 1, two per reply; the VFS asks for
\* one or two entries with room for one to three units.
CONSTANTS
    Dir <- MCDir
    ReplyEntries = 2
    MaxCounts = {1, 2}
    BufSizes = {1, 2, 3}
    Failures = TRUE
SPECIFICATION Spec
INVARIANT TypeOK
 
PROPERTY ZeroOnlyAtEnd
