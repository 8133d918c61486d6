------------------------------ MODULE MC_P9Codec ------------------------------
(* Inputs of the codec runs: strings of 0 to 2 bytes (and the version     *)
(* string), payloads of 0 to 3 bytes, and string buffers of 2 bytes (so    *)
(* that a 2-byte string meets the NUL check) and of 32 (ParseVersion's).   *)
EXTENDS P9Codec

MCNames == {<<>>, <<97>>, <<97, 98>>}
MCPayloads == {<<>>, <<1, 2, 3>>}
MCMsizes == {22, 23, 8192}
MCStrBufs == {2, 32}

(* The O_* values of Haiku's <fcntl.h>.                                    *)
MCHaikuO == [RDONLY |-> 0, WRONLY |-> 1, RDWR |-> 2, ACCMODE |-> 3,
             CLOEXEC |-> 64, NONBLOCK |-> 128, EXCL |-> 256, CREAT |-> 512,
             TRUNC |-> 1024, APPEND |-> 2048]

(* Every errno up to EOPNOTSUPP, those the table lists and those it does   *)
(* not.                                                                    *)
MCErrnos == 0 .. 100
=============================================================================
