---------------------------- MODULE MC_IoChunking ----------------------------
(* Sizes for the runs of IoChunking: P9_DEFAULT_MSIZE, a server that       *)
(* answers it or the msize that makes iounit 4096 (scenario S4), a file of *)
(* 12000 bytes or a shorter one, and reads and writes around them.         *)
EXTENDS IoChunking

MCServerMsizes == {8192, 4107}
MCFileSizes == {5000, 12000}
MCPositions == {-1, 0, 8000}
MCLengths == {0, 600, 1000, 12000}
MCShortfalls == {0, 600}
=============================================================================
