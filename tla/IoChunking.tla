----------------------------- MODULE IoChunking -----------------------------
(***************************************************************************)
(* File I/O through a FileCookie: Inode::Read and Inode::Write split a     *)
(* request into RPCs of at most iounit bytes (P9Client::Read and Write),   *)
(* over the msize and iounit that P9Client::Connect negotiated.            *)
(*                                                                         *)
(* Sizes are bytes, with the wire format's fixed parts: a Twrite frame is  *)
(* 23 bytes before its payload (size, type, tag, fid, offset, count), an   *)
(* Rread frame 11.  The file is a length on the server; the data moved is  *)
(* recorded as the list of <<offset, count>> chunks the RPCs transferred.  *)
(***************************************************************************)
EXTENDS Naturals, Integers, Sequences, SequencesExt

CONSTANTS ClientMsize,   \* P9_DEFAULT_MSIZE: Volume::Mount passes no msize
          ServerMsizes,  \* msize values a server answers in Rversion
          FileSizes,     \* initial lengths of the file on the server
          Positions,     \* pos values the VFS passes (off_t, may be < 0)
          Lengths,       \* *_length values the VFS passes
          Shortfalls,    \* how much shorter than asked a reply may be
          Failures       \* whether an RPC may fail

HeaderSize == 7                 \* P9_HEADER_SIZE: size[4] type[1] tag[2]
TwriteFixed == HeaderSize + 16  \* fid[4] offset[8] count[4]

VARIABLES msize, iounit, connected, readOnly,  \* P9Client and Volume
          fileSize,                            \* the file on the server
          op, pos, length, remaining, total,   \* the Read or Write in progress
          chunks,                              \* history of this call's RPCs
          result                               \* what the last call returned

vars == <<msize, iounit, connected, readOnly, fileSize, op, pos, length,
          remaining, total, chunks, result>>

MaxLength == CHOOSE l \in Lengths : \A k \in Lengths : k <= l

TypeOK ==
    /\ msize \in {ClientMsize} \cup ServerMsizes
    /\ iounit \in 0 .. msize /\ connected \in BOOLEAN /\ readOnly \in BOOLEAN
    /\ fileSize \in Nat
    /\ op \in {"idle", "read", "write"}
    /\ pos \in Positions /\ length \in Lengths
    /\ remaining \in 0 .. MaxLength /\ total \in 0 .. MaxLength
    /\ chunks \in Seq([off : Nat, n : Nat])
    /\ result \in {"none", "ok", "error", "bad_value", "read_only", "overflow"}

NatMin(a, b) == IF a < b THEN a ELSE b

(* What a server answers to a request for count bytes when avail bytes     *)
(* can be transferred: all of them, or a short reply, never more.          *)
Replies(count, avail) ==
    {n \in {NatMin(count, avail) - s : s \in Shortfalls} :
        n >= 0 /\ (NatMin(count, avail) > 0 => n > 0)}

(* What a server answers to a Twrite of count bytes: the count it wrote,  *)
(* which may fall short, down to nothing.                                  *)
WriteReplies(count) == {count - s : s \in {x \in Shortfalls : x <= count}}

Init ==
    /\ msize = ClientMsize /\ iounit = 0 /\ connected = FALSE
    /\ readOnly = FALSE
    /\ fileSize \in FileSizes
    /\ op = "idle" /\ pos \in Positions /\ length \in Lengths
    /\ remaining = 0 /\ total = 0
    /\ chunks = <<>> /\ result = "none"

Call == <<op, pos, length, remaining, total, chunks, result>>

-----------------------------------------------------------------------------
(* Mutant: iounit is derived from the msize the client proposed, before   *)
(* the server's answer lowered it.                                         *)
ConnectIounitFirst ==
    /\ ~connected
    /\ \E sm \in ServerMsizes, ok \in BOOLEAN, ro \in BOOLEAN :
          /\ msize' = NatMin(sm, msize)
          /\ readOnly' = ro
          /\ IF ok THEN connected' = TRUE /\ iounit' = msize - HeaderSize - 4
             ELSE UNCHANGED <<connected, iounit>>
    /\ UNCHANGED <<fileSize, Call>>

(* Volume::Mount with its read-only flag, then P9Client::Connect: Tversion *)
(* lowers msize to the server's; a version other than 9P2000.L, or a      *)
(* failing Tattach, fails the connect after msize was lowered; on success  *)
(* iounit = msize - 7 - 4.                                                 *)
Connect ==
    /\ ~connected
    /\ \E sm \in ServerMsizes, ok \in BOOLEAN, ro \in BOOLEAN :
          /\ msize' = NatMin(sm, msize)
          /\ readOnly' = ro
          /\ IF ok THEN connected' = TRUE /\ iounit' = msize' - HeaderSize - 4
             ELSE UNCHANGED <<connected, iounit>>
    /\ UNCHANGED <<fileSize, Call>>

(* Return from Inode::Read or Inode::Write.                                *)
Return(r) ==
    /\ op' = "idle" /\ result' = r

(* The VFS calls fs_read or fs_write on an open FileCookie.               *)
Start(kind) ==
    /\ connected /\ op = "idle"
    /\ \E p \in Positions, l \in Lengths :
          /\ pos' = p /\ length' = l
          /\ remaining' = l
    /\ total' = 0 /\ chunks' = <<>>
    /\ IF pos' < 0 THEN Return("bad_value")
       ELSE IF kind = "write" /\ readOnly THEN Return("read_only")
       ELSE op' = kind /\ result' = "none"
    /\ UNCHANGED <<msize, iounit, connected, readOnly, fileSize>>

(* A pass of the loop of Inode::Read whose P9Client::Read fails (message  *)
(* allocation, DoRequest, Rlerror, reply type or parse): the status is     *)
(* returned as it is.                                                      *)
ReadFails ==
    /\ op = "read" /\ remaining > 0 /\ Failures
    /\ Return("error")
    /\ UNCHANGED <<msize, iounit, connected, readOnly, fileSize, pos, length,
                   remaining, total, chunks>>

(* The bytes a Tread at off can transfer.                                  *)
Avail(off) == IF fileSize > off THEN fileSize - off ELSE 0

(* Mutant: a reply shorter than asked is taken for the end of the file.   *)
ReadStopsShort ==
    /\ op = "read" /\ remaining > 0
    /\ LET toRead == NatMin(remaining, iounit)
           off == pos + total
       IN \E n \in Replies(toRead, Avail(off)) :
            IF n = 0 THEN /\ Return("ok")
                          /\ UNCHANGED <<remaining, total, chunks>>
            ELSE /\ total' = total + n /\ remaining' = remaining - n
                 /\ chunks' = Append(chunks, [off |-> off, n |-> n])
                 /\ IF n < toRead THEN Return("ok")
                    ELSE UNCHANGED <<op, result>>
    /\ UNCHANGED <<msize, iounit, connected, readOnly, fileSize, pos, length>>

(* Mutant: a zero count does not end the loop, which asks again.          *)
ReadZeroNoBreak ==
    /\ op = "read" /\ remaining > 0
    /\ LET toRead == NatMin(remaining, iounit)
           off == pos + total
       IN \E n \in Replies(toRead, Avail(off)) :
            IF n = 0 THEN UNCHANGED <<op, result, remaining, total, chunks>>
            ELSE /\ total' = total + n /\ remaining' = remaining - n
                 /\ chunks' = Append(chunks, [off |-> off, n |-> n])
                 /\ UNCHANGED <<op, result>>
    /\ UNCHANGED <<msize, iounit, connected, readOnly, fileSize, pos, length>>

(* A pass of the loop of Inode::Read whose Tread of min(remaining, iounit) *)
(* at pos + totalRead is answered: a zero count is EOF and ends the loop.  *)
ReadChunk ==
    /\ op = "read" /\ remaining > 0
    /\ LET toRead == NatMin(remaining, iounit)
           off == pos + total
       IN \E n \in Replies(toRead, Avail(off)) :
            IF n = 0 THEN /\ Return("ok")
                          /\ UNCHANGED <<remaining, total, chunks>>
            ELSE /\ total' = total + n /\ remaining' = remaining - n
                 /\ chunks' = Append(chunks, [off |-> off, n |-> n])
                 /\ UNCHANGED <<op, result>>
    /\ UNCHANGED <<msize, iounit, connected, readOnly, fileSize, pos, length>>

(* The loop of Inode::Read or Inode::Write ends with nothing remaining.   *)
Done ==
    /\ op \in {"read", "write"} /\ remaining = 0
    /\ Return("ok")
    /\ UNCHANGED <<msize, iounit, connected, readOnly, fileSize, pos, length,
                   remaining, total, chunks>>

(* BuildWrite refuses a frame that does not fit in msize.                  *)
FrameFits(count) == TwriteFixed + count <= msize

(* A pass of the loop of Inode::Write whose P9Client::Write fails (message *)
(* allocation, DoRequest, Rlerror, reply type or parse): the status is     *)
(* returned, whatever earlier passes wrote.                                *)
WriteFails ==
    /\ op = "write" /\ remaining > 0 /\ Failures
    /\ Return("error")
    /\ UNCHANGED <<msize, iounit, connected, readOnly, fileSize, pos, length,
                   remaining, total, chunks>>

(* Mutant: the loop advances by the count it asked for, not the count    *)
(* the server wrote.                                                       *)
WriteAdvancesAsked ==
    /\ op = "write" /\ remaining > 0
    /\ LET toWrite == NatMin(remaining, iounit)
           off == pos + total
       IN IF ~FrameFits(toWrite)
          THEN /\ Return("overflow")
               /\ UNCHANGED <<fileSize, remaining, total, chunks>>
          ELSE \E n \in WriteReplies(toWrite) :
                IF n = 0 THEN /\ Return("ok")
                              /\ UNCHANGED <<fileSize, remaining, total, chunks>>
                ELSE /\ fileSize' = IF off + n > fileSize THEN off + n ELSE fileSize
                     /\ total' = total + toWrite /\ remaining' = remaining - toWrite
                     /\ chunks' = Append(chunks, [off |-> off, n |-> n])
                     /\ UNCHANGED <<op, result>>
    /\ UNCHANGED <<msize, iounit, connected, readOnly, pos, length>>

(* One pass of the loop of Inode::Write: Twrite of min(remaining, iounit) *)
(* at pos + totalWritten; BuildWrite may refuse it; the server may write  *)
(* fewer bytes; a zero count ends the loop.                                *)
WriteChunk ==
    /\ op = "write" /\ remaining > 0
    /\ LET toWrite == NatMin(remaining, iounit)
           off == pos + total
       IN IF ~FrameFits(toWrite)
          THEN /\ Return("overflow")
               /\ UNCHANGED <<fileSize, remaining, total, chunks>>
          ELSE \E n \in WriteReplies(toWrite) :
                IF n = 0 THEN /\ Return("ok")
                              /\ UNCHANGED <<fileSize, remaining, total, chunks>>
                ELSE /\ fileSize' = IF off + n > fileSize THEN off + n ELSE fileSize
                     /\ total' = total + n /\ remaining' = remaining - n
                     /\ chunks' = Append(chunks, [off |-> off, n |-> n])
                     /\ UNCHANGED <<op, result>>
    /\ UNCHANGED <<msize, iounit, connected, readOnly, pos, length>>

(* fs_read and fs_write forward to the vnode's Inode.                      *)
fs_read == Start("read")
fs_write == Start("write")

Next == Connect \/ fs_read \/ fs_write \/ ReadChunk \/ ReadFails
          \/ WriteChunk \/ WriteFails \/ Done

Spec == Init /\ [][Next]_vars

(* The server answers every Tread and Twrite (DoRequest returns: see       *)
(* RequestReturns of ClientTransport), and the calling thread keeps        *)
(* running; failures, connects and new calls are not bound to happen.      *)
FairSpec ==
    /\ Spec
    /\ WF_vars(ReadChunk) /\ WF_vars(WriteChunk) /\ WF_vars(Done)

-----------------------------------------------------------------------------
(* The chunks of a call tile the file from start on, with no gap and no   *)
(* overlap: the concatenation of the RPCs' data is the range the call     *)
(* covers.                                                                 *)
RECURSIVE Contiguous(_, _)
Contiguous(cs, start) ==
    cs = <<>> \/ (Head(cs).off = start /\ Contiguous(Tail(cs), start + Head(cs).n))

(* Spec section 8, property 6, and scenario S4: a B_OK from Inode::Read   *)
(* returns everything the file holds after pos up to the length asked,     *)
(* however the server shortens its replies, as the concatenation of RPCs  *)
(* of at most iounit bytes each at pos, pos + c1, ...  (Spec section 4.6  *)
(* would stop at the first short reply; the loop of Inode::Read goes on    *)
(* until a zero count, and this is what is checked.)                       *)
ReadDeliversFile ==
    [][op = "read" /\ op' = "idle" /\ result' = "ok" =>
         /\ total' = NatMin(length, IF fileSize > pos THEN fileSize - pos ELSE 0)
         /\ Contiguous(chunks', pos)
         /\ \A i \in 1 .. Len(chunks') : chunks'[i].n <= iounit]_vars

(* Whatever Inode::Write returns, the server has written a prefix of the  *)
(* caller's data: the chunks tile [pos, pos + written), remaining is what  *)
(* is left of length, and, if anything was written, the file now reaches   *)
(* at least that far.  On B_OK the caller is told written; on an error     *)
(* after earlier chunks (line 221) or B_BUFFER_OVERFLOW it is not, but     *)
(* the file changed by exactly that prefix.                                *)
WriteReportsWritten ==
    [][op = "write" /\ op' = "idle" =>
         /\ Contiguous(chunks', pos)
         /\ total' + remaining' = length
         /\ total' > 0 => fileSize' >= pos + total']_vars

(* Spec section 3, invariant 5: iounit bounds the payload of one read or  *)
(* write and msize the frame that carries it, so Inode::Write never fails  *)
(* because a chunk it chose does not fit in a frame.                       *)
WriteNeverRefused == result # "overflow"

(* Every call of Inode::Read and Inode::Write returns: the loop ends when  *)
(* nothing remains, when the server answers a zero count (end of file, or *)
(* a write of nothing), or on an error, whatever short counts come first.  *)
CallReturns == op # "idle" ~> op = "idle"
=============================================================================
