------------------------------- MODULE FidPool -------------------------------
(***************************************************************************)
(* The client's FID allocator, class FidPool of 9p_client.cpp: a bitmap of *)
(* MaxFids slots guarded by a mutex, allocated next-fit from a hint.  The  *)
(* bitmap is the set fidUsed of slots whose bit is set and fNextHint is    *)
(* fidHint.  Every operator is one call under the pool mutex, so it is a   *)
(* single atomic step of whichever module uses the pool.                   *)
(***************************************************************************)
EXTENDS Naturals

CONSTANTS MaxFids,        \* FidPool::Init(maxFids), 256 in P9Client::Init
          NOFID           \* P9_NOFID, 0xFFFFFFFF: a model value above every slot

VARIABLES fidUsed, fidHint

Slots == 0 .. (MaxFids - 1)

PoolTypeOK == fidUsed \subseteq Slots /\ fidHint \in Slots

(* FidPool::Init: a zeroed bitmap with bit 0 set and the hint at 1.        *)
PoolInit ==
    /\ fidUsed = {0}
    /\ fidHint = 1 % MaxFids

(* Mutant: the probe loop stops one slot short of a full turn.             *)
RECURSIVE ScanShort(_, _, _)
ScanShort(used, hint, i) ==
    IF i >= MaxFids - 1 THEN NOFID
    ELSE IF (hint + i) % MaxFids \notin used THEN (hint + i) % MaxFids
    ELSE ScanShort(used, hint, i + 1)

(* The loop of FidPool::Allocate: probe (hint + i) % MaxFids for           *)
(* i = 0 .. MaxFids - 1 and answer the first clear slot, or NOFID.         *)
RECURSIVE Scan(_, _, _)
Scan(used, hint, i) ==
    IF i >= MaxFids THEN NOFID
    ELSE IF (hint + i) % MaxFids \notin used THEN (hint + i) % MaxFids
    ELSE Scan(used, hint, i + 1)

AllocResult == Scan(fidUsed, fidHint, 0)

(* Mutant: the slot is returned without its bit being set.                 *)
PoolAllocateNoMark ==
    IF AllocResult = NOFID
    THEN UNCHANGED <<fidUsed, fidHint>>
    ELSE /\ fidUsed' = fidUsed
         /\ fidHint' = (AllocResult + 1) % MaxFids

(* Mutant: the hint is moved past the slot without wrapping around.        *)
PoolAllocateHintNoWrap ==
    IF AllocResult = NOFID
    THEN UNCHANGED <<fidUsed, fidHint>>
    ELSE /\ fidUsed' = fidUsed \cup {AllocResult}
         /\ fidHint' = AllocResult + 1

(* FidPool::Allocate: set the bit of the slot found and move the hint past *)
(* it; when the scan finds none the bitmap and the hint stay as they are.  *)
PoolAllocate ==
    IF AllocResult = NOFID
    THEN UNCHANGED <<fidUsed, fidHint>>
    ELSE /\ fidUsed' = fidUsed \cup {AllocResult}
         /\ fidHint' = (AllocResult + 1) % MaxFids

(* FidPool::Release: FIDs >= MaxFids (NOFID among them) are ignored,       *)
(* anything else has its bit cleared whoever holds it.                     *)
PoolRelease(fid) ==
    /\ fidUsed' = IF fid \notin Slots THEN fidUsed ELSE fidUsed \ {fid}
    /\ UNCHANGED fidHint

(* Reference next-fit: the free slot at the least cyclic distance from the *)
(* hint, or NOFID when every slot is taken.                                *)
NextFitRef(used, hint) ==
    LET free == Slots \ used
        dist(s) == (s + MaxFids - hint) % MaxFids
    IN  IF free = {} THEN NOFID
        ELSE CHOOSE s \in free : \A o \in free : dist(s) <= dist(o)

(* The scan loop of FidPool::Allocate finds, for the bitmap and hint of   *)
(* every reachable state, the free slot next-fit names, and NOFID exactly  *)
(* when none is free: Allocate never hands out a FID whose bit is set, and *)
(* never fails while a slot is clear.                                      *)
ScanIsNextFit == AllocResult = NextFitRef(fidUsed, fidHint)
=============================================================================
