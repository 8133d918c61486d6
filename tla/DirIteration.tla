---------------------------- MODULE DirIteration ----------------------------
(***************************************************************************)
(* Directory listing through a DirCookie: Inode::ReadDir, RewindDir and    *)
(* the Treaddir RPC (P9Client::ReadDir) against a server directory.        *)
(*                                                                         *)
(* The directory is the sequence Dir of its entries; entry i is named by   *)
(* its position and Dir[i] is the size of the dirent it becomes (the       *)
(* recLen of the code), in units of the caller's buffer.  A Treaddir at    *)
(* offset o answers the entries after the o-th, as many as fit in one      *)
(* reply (ReplyEntries stands for the 4096 bytes of DIR_BUFFER_SIZE); the  *)
(* offset field of entry i is i, the offset to resume after it.            *)
(*                                                                         *)
(* The cookie's buffer is the sequence of entries of the last reply, its   *)
(* bufferPos counts entries instead of bytes.  One step is one pass of the *)
(* outer loop of ReadDir: the refill, if one is due, and the parse of the  *)
(* buffer into the caller's dirents.                                        *)
(***************************************************************************)
EXTENDS Naturals, Sequences, SequencesExt

CONSTANTS Dir,           \* dirent size of each server entry, in order
          ReplyEntries,  \* entries one Treaddir reply holds
          MaxCounts,     \* values of *_num the VFS passes
          BufSizes,      \* sizes of the dirent buffer the VFS passes
          Failures       \* whether a Treaddir, or the allocation of an entry name, may fail

ASSUME ReplyEntries >= 1 /\ Failures \in BOOLEAN
ASSUME \A m \in MaxCounts : m >= 1

VARIABLES offset,     \* DirCookie::offset
          buffer,     \* the entries of the last reply (DirCookie::buffer, bufferSize)
          bufferPos,  \* DirCookie::bufferPos
          eof,        \* DirCookie::eof
          pc,         \* "idle" between calls, "loop" inside ReadDir
          count,      \* entries returned so far by this call
          maxCount,   \* *_num on entry
          room,       \* dirent buffer space left (bufferSize of the call)
          result,     \* what the last call returned
          delivered   \* history: entries returned since OpenDir or RewindDir

vars == <<offset, buffer, bufferPos, eof, pc, count, maxCount, room, result,
          delivered>>

N == Len(Dir)
Entries == 1 .. N
Results == [status : {"ok", "overflow", "error"}, num : Nat] \cup {[status |-> "none"]}

TypeOK ==
    /\ offset \in 0 .. N
    /\ buffer \in Seq(Entries) /\ Len(buffer) <= ReplyEntries
    /\ bufferPos \in 0 .. Len(buffer)
    /\ eof \in BOOLEAN
    /\ pc \in {"idle", "loop"}
    /\ count \in Nat /\ maxCount \in Nat /\ room \in Nat
    /\ result \in Results
    /\ delivered \in Seq(Entries)

-----------------------------------------------------------------------------
(* The server's answer to Treaddir(offset): the entries after offset that *)
(* fit in one reply.                                                       *)
Reply(off) == [k \in 1 .. IF N - off < ReplyEntries THEN N - off ELSE ReplyEntries
                 |-> off + k]

(* Mutant: the inner loop does not check the room left.                   *)
RECURSIVE FitsNoRoomCheck(_, _, _)
FitsNoRoomCheck(rest, n, left) ==
    IF rest = <<>> \/ n >= maxCount THEN 0
    ELSE 1 + FitsNoRoomCheck(Tail(rest), n + 1, left - Dir[Head(rest)])

(* The inner loop of ReadDir over rest, the unparsed entries: how many are *)
(* copied out before the loop stops, because rest is exhausted, maxCount   *)
(* is reached or the next dirent does not fit in the room left.            *)
RECURSIVE Fits(_, _, _)
Fits(rest, n, left) ==
    IF rest = <<>> \/ n >= maxCount THEN 0
    ELSE IF Dir[Head(rest)] > left THEN 0
    ELSE 1 + Fits(Tail(rest), n + 1, left - Dir[Head(rest)])

RECURSIVE RoomUsed(_)
RoomUsed(es) == IF es = <<>> THEN 0 ELSE Dir[Head(es)] + RoomUsed(Tail(es))

Return(status, num) ==
    /\ pc' = "idle"
    /\ result' = [status |-> status, num |-> num]

-----------------------------------------------------------------------------
(* OpenDir leaves a cookie at offset 0 with an empty buffer.               *)
Init ==
    /\ offset = 0 /\ buffer = <<>> /\ bufferPos = 0 /\ eof = FALSE
    /\ pc = "idle" /\ count = 0 /\ maxCount = 0 /\ room = 0
    /\ result = [status |-> "none"]
    /\ delivered = <<>>

(* The VFS calls fs_read_dir with a dirent buffer and a count.             *)
Call ==
    /\ pc = "idle"
    /\ \E m \in MaxCounts, b \in BufSizes :
          /\ maxCount' = m /\ room' = b
    /\ count' = 0 /\ pc' = "loop"
    /\ UNCHANGED <<offset, buffer, bufferPos, eof, result, delivered>>

(* One pass of the outer loop of Inode::ReadDir sees the cookie after the *)
(* refill that is due when the buffer is used up and eof is not set.       *)
RefillDue == bufferPos >= Len(buffer) /\ ~eof
Buf == IF RefillDue THEN Reply(offset) ELSE buffer
Pos == IF RefillDue THEN 0 ELSE bufferPos
Rest == SubSeq(Buf, Pos + 1, Len(Buf))
Taken == SubSeq(Rest, 1, Fits(Rest, count, room))

Cookie == <<offset, buffer, bufferPos, eof>>
Call_ == <<count, maxCount, room, delivered>>

(* The loop condition fails: maxCount entries were returned.              *)
LoopDone ==
    /\ pc = "loop" /\ count >= maxCount
    /\ Return("ok", count) /\ UNCHANGED <<Cookie, Call_>>

(* Mutant: a failed Treaddir ends the loop as if the directory had ended. *)
RefillFailsSwallowed ==
    /\ pc = "loop" /\ count < maxCount /\ RefillDue /\ Failures
    /\ Return("ok", count) /\ UNCHANGED <<Cookie, Call_>>

(* The Treaddir of the refill fails: its status is returned as it is.     *)
RefillFails ==
    /\ pc = "loop" /\ count < maxCount /\ RefillDue /\ Failures
    /\ Return("error", 0) /\ UNCHANGED <<Cookie, Call_>>

(* The refill comes back empty: eof is set and the loop ends.             *)
RefillEmpty ==
    /\ pc = "loop" /\ count < maxCount /\ RefillDue /\ Buf = <<>>
    /\ buffer' = <<>> /\ bufferPos' = 0 /\ eof' = TRUE
    /\ Return("ok", count) /\ UNCHANGED <<offset, Call_>>

(* eof was set by an earlier call: nothing more is read.                  *)
AtEof ==
    /\ pc = "loop" /\ count < maxCount /\ eof
    /\ Return("ok", count) /\ UNCHANGED <<Cookie, Call_>>

(* The first dirent of the call does not fit: B_BUFFER_OVERFLOW, with the *)
(* refilled buffer kept and bufferPos where it was.                        *)
Overflow ==
    /\ pc = "loop" /\ count < maxCount /\ ~eof /\ Buf # <<>>
    /\ Taken = <<>> /\ count = 0
    /\ buffer' = Buf /\ bufferPos' = Pos
    /\ Return("overflow", 0) /\ UNCHANGED <<offset, eof, Call_>>

Advance(buf, taken) == IF taken = <<>> THEN offset ELSE Last(taken)

(* The inner loop copies out the entries that fit, moving the offset past *)
(* each; then bufferPos = bufferSize drops what is left of the reply and   *)
(* the outer loop goes round again.                                        *)
Parse ==
    /\ pc = "loop" /\ count < maxCount /\ ~eof /\ Buf # <<>>
    /\ Taken # <<>> \/ count > 0
    /\ buffer' = Buf /\ bufferPos' = Len(Buf)
    /\ offset' = Advance(Buf, Taken)
    /\ delivered' = delivered \o Taken
    /\ count' = count + Len(Taken)
    /\ room' = room - RoomUsed(Taken)
    /\ UNCHANGED <<eof, maxCount, pc, result>>

(* The entries the inner loop reaches: those it copies out, and the next  *)
(* one if the loop stopped because it did not fit.                         *)
Reached == Len(Taken) + (IF Len(Taken) < Len(Rest) /\ count + Len(Taken) < maxCount
                         THEN 1 ELSE 0)

(* parser.Next fails on the j-th entry reached (ReadStringAlloc cannot    *)
(* allocate its name): the inner loop breaks after the j - 1 entries      *)
(* before it, the rest of the reply is dropped as after any pass, and the *)
(* outer loop goes round to refetch from the offset past the last copied. *)
ParseFails ==
    /\ pc = "loop" /\ count < maxCount /\ ~eof /\ Buf # <<>> /\ Failures
    /\ \E j \in 1 .. Reached :
          LET copied == SubSeq(Rest, 1, j - 1) IN
          /\ buffer' = Buf /\ bufferPos' = Len(Buf)
          /\ offset' = Advance(Buf, copied)
          /\ delivered' = delivered \o copied
          /\ count' = count + Len(copied)
          /\ room' = room - RoomUsed(copied)
    /\ UNCHANGED <<eof, maxCount, pc, result>>

Loop == LoopDone \/ RefillFails \/ RefillEmpty \/ AtEof \/ Overflow \/ Parse
          \/ ParseFails

(* Inode::RewindDir: back to offset 0 with an empty buffer and eof clear.  *)
RewindDir ==
    /\ pc = "idle"
    /\ offset' = 0 /\ buffer' = <<>> /\ bufferPos' = 0 /\ eof' = FALSE
    /\ delivered' = <<>>
    /\ UNCHANGED <<pc, count, maxCount, room, result>>

(* fs_read_dir and fs_rewind_dir forward to the vnode's Inode.            *)
fs_read_dir == Call
fs_rewind_dir == RewindDir

Next == fs_read_dir \/ Loop \/ fs_rewind_dir

Spec == Init /\ [][Next]_vars

(* The thread inside ReadDir keeps running: each pass either blocks in an  *)
(* RPC the server answers or computes, so weak fairness of Loop.           *)
FairSpec == Spec /\ WF_vars(Loop)

-----------------------------------------------------------------------------
ZeroOnlyAtEnd ==
    [][pc = "loop" /\ pc' = "idle" /\ result' = [status |-> "ok", num |-> 0]
         => Len(delivered') = N]_vars

(* Every call of ReadDir returns.                                          *)
ReadDirReturns == pc = "loop" ~> pc = "idle"
=============================================================================
