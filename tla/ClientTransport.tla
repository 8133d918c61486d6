--------------------------- MODULE ClientTransport ---------------------------
(***************************************************************************)
(* The request path of the 9P client: P9Client::DoRequest of one or more   *)
(* volumes over the one Virtio9PTransport that serves their mount tag      *)
(* (Volume::_FindTransport hands every volume of a tag the same object).   *)
(*                                                                         *)
(* The transport has one request DMA buffer, one response DMA buffer and   *)
(* one completion semaphore fTransferDone.  SendMessage copies a request   *)
(* into the request buffer; ReceiveMessage queues a descriptor chain that  *)
(* points at both buffers and waits on the semaphore; the device reads the *)
(* request buffer when it serves a chain and writes its reply into the     *)
(* response buffer; _QueueCallback drains every completed chain and        *)
(* releases the semaphore once.                                            *)
(*                                                                         *)
(* A message is <<t, s>>: thread t's request number s.  A reply is the     *)
(* message it answers (its tag and payload are not compared by the code).  *)
(*                                                                         *)
(* Around DoRequest sit the layers that call it: a VFS hook of             *)
(* kernel_interface.cpp calls an Inode or Volume method, which checks the  *)
(* node's type and the mount's read-only flag and returns early, or calls  *)
(* a P9Client wrapper.  The wrapper initialises the message, takes a tag   *)
(* from the volume's TagPool, builds the request (releasing the tag when   *)
(* that fails), calls DoRequest, releases the tag and checks the reply.    *)
(***************************************************************************)
EXTENDS Naturals, FiniteSets

CONSTANTS Threads,        \* callers of P9Client RPCs
          Volumes,        \* mounts sharing the transport
          VolumeOf,       \* the volume (P9Client) each thread calls into
          Seqs,           \* request numbers, reused cyclically
          QueueSize,      \* descriptor chains the virtqueue holds
          MaxInterrupts,  \* bound on signals delivered to waiting threads
          Failures,       \* whether allocations and queue_request_v may fail
          MaxTags,        \* TagPool::Init(maxTags) of each P9Client
          NOTAG,          \* P9_NOTAG, 0xFFFF: a model value above every tag
          ReadOnly,       \* volumes mounted with B_MOUNT_READ_ONLY
          OversizeReplies, \* whether the device may write a size field
                           \* above fMaxSize (a server breaking msize)
          None

ASSUME VolumeOf \in [Threads -> Volumes]
ASSUME Failures \in BOOLEAN /\ OversizeReplies \in BOOLEAN /\ MaxInterrupts \in Nat
ASSUME MaxTags \in Nat \ {0} /\ ReadOnly \subseteq Volumes

VARIABLES pc,         \* per thread: "idle", "send", "queue" or "wait"
          seq,        \* per thread: number of its current request
          result,     \* per thread: what its last DoRequest returned
          reqLock,    \* per volume: holder of P9Client::fRequestLock
          reqBuf,     \* content of fRequestBuffer
          respBuf,    \* content of fResponseBuffer
          respBig,    \* its size field is above fMaxSize
          avail,      \* chains queued and not yet served by the device
          used,       \* chains served and not yet dequeued by the callback
          sem,        \* count of fTransferDone
          interrupts, \* signals delivered so far
          req,        \* per thread: "read" or "write", the class of the
                      \* T-message its wrapper sends (see Mutating)
          tag,        \* per thread: the tag its wrapper holds
          tagUsed,    \* per volume: set bits of its TagPool's fBitmap
          tagHint     \* per volume: its TagPool's fNextHint

wrapper == <<req, tag, tagUsed, tagHint>>
vars == <<pc, seq, result, reqLock, reqBuf, respBuf, respBig, avail,
          used, sem, interrupts, wrapper>>

Msgs == Threads \X Seqs
Msg(t) == <<t, seq[t]>>
Results == {[status |-> "none"], [status |-> "error"]}
             \cup [status : {"ok"}, resp : Msgs \cup {None}]

TagSlots == 0 .. (MaxTags - 1)
FileTypes == {"dir", "reg", "lnk"}     \* S_ISDIR / S_ISLNK of Inode::fMode
Mutating == {"Tunlinkat", "Trenameat", "Tmkdir", "Tsymlink", "Tsetattr"}
Requests == Mutating \cup {"Tgetattr", "Treadlink", "Tfsync", "Tstatfs"}
(* Where a thread holds a tag: from the wrapper's Allocate to its Release. *)
HoldsTag == {"lock", "send", "queue", "wait", "reply"}
InDoRequest == {"send", "queue", "wait"}

TypeOK ==
    /\ pc \in [Threads -> {"idle"} \cup HoldsTag]
    /\ seq \in [Threads -> Seqs]
    /\ result \in [Threads -> Results]
    /\ reqLock \in [Volumes -> Threads \cup {None}]
    /\ reqBuf \in Msgs \cup {None}
    /\ respBuf \in Msgs \cup {None}
    /\ respBig \in BOOLEAN
    /\ avail \in 0 .. QueueSize /\ used \in 0 .. QueueSize
    /\ sem \in 0 .. MaxInterrupts + Cardinality(Threads)
    /\ interrupts \in 0 .. MaxInterrupts
    /\ req \in [Threads -> {"read", "write", None}]
    /\ tag \in [Threads -> TagSlots \cup {NOTAG}]
    /\ tagUsed \in [Volumes -> SUBSET TagSlots]
    /\ tagHint \in [Volumes -> TagSlots]

MayFail == IF Failures THEN BOOLEAN ELSE {FALSE}

(* TagPool of each volume's P9Client, reusing the next-fit scan of FidPool *)
(* (the two classes have the same bitmap and the same loop).               *)
TP == INSTANCE FidPool WITH MaxFids <- MaxTags, NOFID <- NOTAG,
                            fidUsed <- {}, fidHint <- 0

(* TagPool::Init: a zeroed bitmap and the hint at 0 (no tag is reserved).  *)
TagPoolInit ==
    /\ tagUsed = [v \in Volumes |-> {}]
    /\ tagHint = [v \in Volumes |-> 0]

(* The transport after Virtio9PTransport::Init: buffers allocated with no  *)
(* message in them, semaphore at 0, virtqueue empty.                       *)
Init ==
    /\ pc = [t \in Threads |-> "idle"]
    /\ seq = [t \in Threads |-> CHOOSE s \in Seqs : TRUE]
    /\ result = [t \in Threads |-> [status |-> "none"]]
    /\ reqLock = [v \in Volumes |-> None]
    /\ reqBuf = None /\ respBuf = None /\ respBig = FALSE
    /\ avail = 0 /\ used = 0 /\ sem = 0 /\ interrupts = 0
    /\ req = [t \in Threads |-> None]
    /\ tag = [t \in Threads |-> NOTAG]
    /\ TagPoolInit

Transport == <<reqBuf, respBuf, respBig, avail, used, sem>>

(* DoRequest returns: the MutexLocker releases fRequestLock.               *)
Finish(t, r) ==
    /\ pc' = [pc EXCEPT ![t] = "reply"]
    /\ reqLock' = [reqLock EXCEPT ![VolumeOf[t]] = None]
    /\ result' = [result EXCEPT ![t] = r]

-----------------------------------------------------------------------------
(* TagPool::Allocate under fLock: the first clear tag from the hint on,    *)
(* its bit set and the hint moved past it; P9_NOTAG when every bit is set. *)
TagAllocate(v) ==
    LET tg == TP!Scan(tagUsed[v], tagHint[v], 0)
    IN  [tag |-> tg,
         used |-> IF tg = NOTAG THEN tagUsed[v] ELSE tagUsed[v] \cup {tg},
         hint |-> IF tg = NOTAG THEN tagHint[v] ELSE (tg + 1) % MaxTags]

(* TagPool::Release: a tag >= fMaxTags, P9_NOTAG among them, is ignored.   *)
TagRelease(bits, tg) == IF tg \in TagSlots THEN bits \ {tg} ELSE bits

-----------------------------------------------------------------------------
(* The Inode and Volume methods behind the VFS hooks.  Each answers the    *)
(* status it returns early, or the T-message of the wrapper it calls; ty   *)
(* is the type of the node (from fMode) and ro is Volume::IsReadOnly.      *)
IsReadOnly(v) == v \in ReadOnly

(* The check Remove, CreateDir, RemoveDir and CreateSymlink open with.     *)
DirCheck(ty, ro, msg) ==
    IF ty # "dir" THEN "notdir" ELSE IF ro THEN "readonly" ELSE msg

ReadStat(ty, ro) == "Tgetattr"

(* Mutant: setattr is sent without looking at the read-only flag.          *)
WriteStatNoReadOnly(ty, ro) == "Tsetattr"

WriteStat(ty, ro) == IF ro THEN "readonly" ELSE "Tsetattr"
Remove(ty, ro) == DirCheck(ty, ro, "Tunlinkat")
Rename(ty, toTy, ro) ==
    IF ty # "dir" \/ toTy # "dir" THEN "notdir"
    ELSE IF ro THEN "readonly" ELSE "Trenameat"
ReadLink(ty, ro) == IF ty # "lnk" THEN "badvalue" ELSE "Treadlink"
CreateSymlink(ty, ro) == DirCheck(ty, ro, "Tsymlink")
CreateDir(ty, ro) == DirCheck(ty, ro, "Tmkdir")
RemoveDir(ty, ro) == DirCheck(ty, ro, "Tunlinkat")
Sync(ty, ro) == IF ro THEN "ok" ELSE "Tfsync"
ReadFSInfo == "Tstatfs"
WriteFSInfo == "unsupported"
VolumeSync == "ok"

(* The entries of gInodeOps and gVolumeOps modelled here.                  *)
Hooks == {"fs_unlink", "fs_rename", "fs_mkdir", "fs_rmdir", "fs_read_stat",
          "fs_write_stat", "fs_read_link", "fs_create_symlink", "fs_fsync",
          "fs_read_fs_info", "fs_write_fs_info", "fs_sync"}

(* fs_unlink, fs_rename, fs_mkdir, fs_rmdir: ty is the directory's type,   *)
(* toTy that of rename's target directory.                                 *)
NamespaceHook(h, ty, toTy, ro) ==
    CASE h = "fs_unlink" -> Remove(ty, ro)
      [] h = "fs_rename" -> Rename(ty, toTy, ro)
      [] h = "fs_mkdir"  -> CreateDir(ty, ro)
      [] h = "fs_rmdir"  -> RemoveDir(ty, ro)

AttrHook(h, ty, ro) ==
    CASE h = "fs_read_stat"      -> ReadStat(ty, ro)
      [] h = "fs_write_stat"     -> WriteStat(ty, ro)
      [] h = "fs_read_link"      -> ReadLink(ty, ro)
      [] h = "fs_create_symlink" -> CreateSymlink(ty, ro)
      [] h = "fs_fsync"          -> Sync(ty, ro)

VolumeHook(h) ==
    CASE h = "fs_read_fs_info"  -> ReadFSInfo
      [] h = "fs_write_fs_info" -> WriteFSInfo
      [] h = "fs_sync"          -> VolumeSync

Dispatch(h, ty, toTy, ro) ==
    CASE h \in {"fs_unlink", "fs_rename", "fs_mkdir", "fs_rmdir"}
                 -> NamespaceHook(h, ty, toTy, ro)
      [] h \in {"fs_read_fs_info", "fs_write_fs_info", "fs_sync"}
                 -> VolumeHook(h)
      [] OTHER   -> AttrHook(h, ty, ro)

(* The class of a request: Tunlinkat, Trenameat, Tmkdir, Tsymlink and     *)
(* Tsetattr change the server.                                             *)
Class(msg) == IF msg \in Mutating THEN "write" ELSE "read"

(* Mutant: a request that fails to build keeps its tag.                    *)
RpcCallNoRelease(t, msg) ==
    LET v == VolumeOf[t]  a == TagAllocate(v) IN
    \E initFails, buildFails \in MayFail :
       IF initFails THEN UNCHANGED <<pc, wrapper>>
       ELSE /\ tagUsed' = [tagUsed EXCEPT ![v] = a.used]
            /\ tagHint' = [tagHint EXCEPT ![v] = a.hint]
            /\ IF buildFails THEN UNCHANGED <<pc, req, tag>>
               ELSE /\ pc' = [pc EXCEPT ![t] = "lock"]
                    /\ req' = [req EXCEPT ![t] = Class(msg)]
                    /\ tag' = [tag EXCEPT ![t] = a.tag]

(* The head of a P9Client wrapper: P9Message::Init may fail (B_NO_MEMORY); *)
(* then a tag is allocated and the request built, and a build that fails   *)
(* (a name too long for msize) releases the tag and returns.  Allocate and *)
(* Release are one step here: Build touches nothing shared.  The status a *)
(* failing wrapper returns is not kept.                                    *)
RpcCall(t, msg) ==
    LET v == VolumeOf[t]  a == TagAllocate(v) IN
    \E initFails, buildFails \in MayFail :
       IF initFails THEN UNCHANGED <<pc, wrapper>>
       ELSE /\ tagHint' = [tagHint EXCEPT ![v] = a.hint]
            /\ IF buildFails
               THEN /\ tagUsed' = [tagUsed EXCEPT
                                     ![v] = TagRelease(a.used, a.tag)]
                    /\ UNCHANGED <<pc, req, tag>>
               ELSE /\ tagUsed' = [tagUsed EXCEPT ![v] = a.used]
                    /\ pc' = [pc EXCEPT ![t] = "lock"]
                    /\ req' = [req EXCEPT ![t] = Class(msg)]
                    /\ tag' = [tag EXCEPT ![t] = a.tag]

(* A thread calls a VFS hook on a node of some type: the method returns    *)
(* early, changing nothing, or its wrapper starts an RPC.                  *)
Begin(t) ==
    /\ pc[t] = "idle"
    /\ \E h \in Hooks, ty, toTy \in FileTypes :
          LET out == Dispatch(h, ty, toTy, IsReadOnly(VolumeOf[t])) IN
          IF out \in Requests THEN RpcCall(t, out)
          ELSE UNCHANGED <<pc, wrapper>>
    /\ UNCHANGED <<seq, result, reqLock, Transport, interrupts>>

(* The tail of the wrapper: the tag is released whatever DoRequest         *)
(* returned; then CheckError turns an Rlerror into its errno, and the      *)
(* typed wrappers check the reply type and parse it (their outcome is not  *)
(* kept).                                                                  *)
RpcReturn(t) ==
    LET v == VolumeOf[t] IN
    /\ pc[t] = "reply"
    /\ tagUsed' = [tagUsed EXCEPT ![v] = TagRelease(@, tag[t])]
    /\ pc' = [pc EXCEPT ![t] = "idle"]
    /\ req' = [req EXCEPT ![t] = None]
    /\ tag' = [tag EXCEPT ![t] = NOTAG]
    /\ UNCHANGED <<seq, result, reqLock, Transport, interrupts, tagHint>>

-----------------------------------------------------------------------------
(* The wrapper, its request built, enters DoRequest, which blocks until it *)
(* holds fRequestLock of its volume.                                       *)
Call(t) ==
    /\ pc[t] = "lock" /\ reqLock[VolumeOf[t]] = None
    /\ reqLock' = [reqLock EXCEPT ![VolumeOf[t]] = t]
    /\ pc' = [pc EXCEPT ![t] = "send"]
    /\ \E s \in Seqs \ {seq[t]} : seq' = [seq EXCEPT ![t] = s]
    /\ result' = [result EXCEPT ![t] = [status |-> "none"]]
    /\ UNCHANGED <<Transport, interrupts, wrapper>>

(* Mutant: SendMessage returns B_OK without copying the request.          *)
SendNoCopy(t) ==
    /\ pc[t] = "send"
    /\ \E fail \in MayFail :
          IF fail THEN Finish(t, [status |-> "error"])
          ELSE /\ pc' = [pc EXCEPT ![t] = "queue"]
               /\ UNCHANGED <<reqLock, result>>
    /\ UNCHANGED <<seq, reqBuf, respBuf, respBig, avail, used, sem, interrupts,
                   wrapper>>

(* SendMessage copies the request into the DMA buffer under the transport *)
(* lock; then DoRequest allocates and initialises the response message,   *)
(* returning B_NO_MEMORY if that fails.                                    *)
Send(t) ==
    /\ pc[t] = "send"
    /\ reqBuf' = Msg(t)
    /\ \E fail \in MayFail :
          IF fail THEN Finish(t, [status |-> "error"])
          ELSE /\ pc' = [pc EXCEPT ![t] = "queue"]
               /\ UNCHANGED <<reqLock, result>>
    /\ UNCHANGED <<seq, respBuf, respBig, avail, used, sem, interrupts,
                   wrapper>>

QueueFull == avail + used >= QueueSize

(* Mutant: ReceiveMessage waits without queuing the chain.                *)
QueueRequestLost(t) ==
    /\ pc[t] = "queue" /\ ~QueueFull
    /\ pc' = [pc EXCEPT ![t] = "wait"]
    /\ UNCHANGED <<seq, result, reqLock, reqBuf, respBuf, respBig, avail,
                   used, sem, interrupts, wrapper>>

(* ReceiveMessage queues a chain over the request and response buffers.   *)
QueueRequest(t) ==
    /\ pc[t] = "queue" /\ ~QueueFull
    /\ avail' = avail + 1
    /\ pc' = [pc EXCEPT ![t] = "wait"]
    /\ UNCHANGED <<seq, result, reqLock, reqBuf, respBuf, respBig, used,
                   sem, interrupts, wrapper>>

(* queue_request_v fails (the virtqueue is full, or another error): the   *)
(* status is returned.                                                     *)
QueueFails(t) ==
    /\ pc[t] = "queue" /\ (QueueFull \/ Failures)
    /\ Finish(t, [status |-> "error"])
    /\ UNCHANGED <<seq, Transport, interrupts, wrapper>>

(* acquire_sem_etc succeeds: a size field above fMaxSize in the response  *)
(* buffer returns B_BUFFER_OVERFLOW; otherwise the response buffer is      *)
(* copied out and DoRequest returns B_OK with it.                          *)
Wait(t) ==
    /\ pc[t] = "wait" /\ sem > 0
    /\ sem' = sem - 1
    /\ Finish(t, IF respBig THEN [status |-> "error"]
                  ELSE [status |-> "ok", resp |-> respBuf])
    /\ UNCHANGED <<seq, reqBuf, respBuf, respBig, avail, used,
                   interrupts, wrapper>>

(* acquire_sem_etc with B_CAN_INTERRUPT returns B_INTERRUPTED when a       *)
(* signal arrives; the chain stays queued.                                 *)
Interrupted(t) ==
    /\ pc[t] = "wait" /\ interrupts < MaxInterrupts
    /\ interrupts' = interrupts + 1
    /\ Finish(t, [status |-> "error"])
    /\ UNCHANGED <<seq, Transport, wrapper>>

-----------------------------------------------------------------------------
(* The device serves the oldest chain: it executes whatever request the   *)
(* request buffer holds now and writes the reply into the response buffer. *)
Serve ==
    /\ avail > 0
    /\ avail' = avail - 1 /\ used' = used + 1
    /\ respBuf' = reqBuf
    /\ respBig' \in IF OversizeReplies THEN BOOLEAN ELSE {FALSE}
    /\ UNCHANGED <<pc, seq, result, reqLock, reqBuf, sem, interrupts, wrapper>>

(* Mutant: the callback releases the semaphore without dequeuing.         *)
QueueCallbackNoDrain ==
    /\ used > 0
    /\ sem' = sem + 1
    /\ UNCHANGED <<pc, seq, result, reqLock, reqBuf, respBuf, respBig,
                   avail, used, interrupts, wrapper>>

(* _QueueCallback dequeues every completed chain and releases the         *)
(* semaphore once.                                                         *)
QueueCallback ==
    /\ used > 0
    /\ used' = 0 /\ sem' = sem + 1
    /\ UNCHANGED <<pc, seq, result, reqLock, reqBuf, respBuf, respBig,
                   avail, interrupts, wrapper>>

Thread(t) == Begin(t) \/ Call(t) \/ Send(t) \/ QueueRequest(t)
               \/ QueueFails(t) \/ Wait(t) \/ Interrupted(t) \/ RpcReturn(t)

Next == (\E t \in Threads : Thread(t)) \/ Serve \/ QueueCallback

Spec == Init /\ [][Next]_vars

(* A thread inside DoRequest or returning from it is always scheduled     *)
(* again, the device serves what is queued, and the interrupt handler     *)
(* runs; signals, new calls and the hand-over of fRequestLock to a waiter *)
(* come when they come.                                                    *)
FairSpec ==
    /\ Spec
    /\ \A t \in Threads : WF_vars(Send(t) \/ QueueRequest(t) \/ QueueFails(t)
                                  \/ Wait(t) \/ RpcReturn(t))
    /\ WF_vars(Serve) /\ WF_vars(QueueCallback)

-----------------------------------------------------------------------------
(* The P9Client methods parse whatever DoRequest hands back as the answer *)
(* to the request they built (CheckError reads the reply's tag and drops   *)
(* it): so a DoRequest that returns B_OK returns the reply to its own      *)
(* request.                                                                *)
ResponseMatchesRequest ==
    \A t \in Threads : result[t].status = "ok" => result[t].resp = Msg(t)

(* Every DoRequest that was entered returns, and its wrapper returns too, *)
(* its tag released.                                                       *)
RequestReturns ==
    \A t \in Threads : pc[t] \in InDoRequest ~> pc[t] = "idle"

(* No tag leaks and none is lost (spec section 8, property 8): the set    *)
(* bits of each volume's TagPool are exactly the tags its threads hold     *)
(* between Allocate and Release, on the build-failure, DoRequest-failure  *)
(* and success paths of every wrapper, and also when the pool runs out and *)
(* Allocate hands out P9_NOTAG, which Release must ignore.                 *)
TagPoolConsistent ==
    \A v \in Volumes :
       tagUsed[v] = {tag[t] : t \in {u \in Threads : VolumeOf[u] = v
                                                 /\ pc[u] \in HoldsTag}}
                    \ {NOTAG}

(* A read-only mount never sends a request that changes the server         *)
(* (spec S5): whatever hook of Hooks is called, on whatever node, each     *)
(* Inode method refuses before its wrapper is called.  (fs_open is not     *)
(* among them: Inode::Open has no read-only check and sends O_TRUNC.)      *)
ReadOnlyNoMutation ==
    \A t \in Threads :
       IsReadOnly(VolumeOf[t]) /\ pc[t] \in HoldsTag => req[t] # "write"
=============================================================================
