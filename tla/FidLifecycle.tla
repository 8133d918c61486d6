---------------------------- MODULE FidLifecycle ----------------------------
(***************************************************************************)
(* Who owns which FID, across Volume (mount, unmount, GetInode), Inode     *)
(* (Lookup, Open, OpenDir, Create, FreeCookie, FreeDirCookie, ~Inode) and  *)
(* the P9Client RPCs they issue, with host threads calling into the file   *)
(* system concurrently and the VFS evicting unused vnodes.                 *)
(*                                                                         *)
(* Each RPC is one atomic step: P9Client::DoRequest holds fRequestLock     *)
(* from send to receive, and the pool calls around it run under the pool  *)
(* mutex.  The server is reduced to its FID table srvFids and the names of *)
(* the root directory; qid.path, and so the vnode id, of a child is its    *)
(* name.  Requests the server must refuse because they name a FID it does *)
(* not know (or a newfid it already knows) are recorded in stray.         *)
(***************************************************************************)
EXTENDS FidPool, FiniteSets

CONSTANTS Threads,       \* host threads calling the file system
          Names,         \* names a thread may look up or create under root
          InitialNames,  \* the names present on the server at the start
          Root,          \* vnode id of the root directory
          None,          \* no value
          Ops,           \* host operations the threads issue
          Failures       \* whether RPCs and allocations may fail

ASSUME InitialNames \subseteq Names /\ Root \notin Names
ASSUME Ops \subseteq {"lookup", "open", "opendir", "create"}
ASSUME Failures \in BOOLEAN

VARIABLES phase,     \* "down" before mount and after unmount, "up" between
          rootFid,   \* P9Client::fRootFid (and Volume::fRootFid)
          srvFids,   \* srvFids[f]: the file FID f names on the server, or None
          exists,    \* names present in the server's root directory
          inode,     \* inode[i]: fFid of the cached vnode i, or None
          held,      \* held[t]: the vnode t holds a reference to, or None
          cookie,    \* cookie[t]: t's open FileCookie or DirCookie, or None
          pc,        \* pc[t]: the step of the operation t is in
          nf,        \* nf[t]: newFid / childFid of t's operation
          nm,        \* nm[t]: the name t's Lookup or Create is about
          ilock,     \* ilock[i]: the thread holding Inode::fLock of i
          stray      \* history: requests the server had to refuse

vars == <<phase, rootFid, srvFids, exists, inode, held, cookie, pc, nf, nm,
          ilock, stray, fidUsed, fidHint>>

Ids == Names \cup {Root}
Files == Names \cup {Root}
Steps == {"idle", "lk_walk", "lk_get", "lk_publish", "lk_fail",
          "op_walk", "op_open", "od_walk", "od_open",
          "cr_walk", "cr_create", "cr_init"}
Cookies == [fid : Slots, dir : BOOLEAN]

TypeOK ==
    /\ PoolTypeOK
    /\ phase \in {"down", "up"}
    /\ rootFid \in Slots \cup {NOFID}
    /\ srvFids \in [Slots -> Files \cup {None}]
    /\ exists \subseteq Names
    /\ inode \in [Ids -> Slots \cup {NOFID, None}]
    /\ held \in [Threads -> Names \cup {None}]
    /\ cookie \in [Threads -> Cookies \cup {None}]
    /\ pc \in [Threads -> Steps]
    /\ nf \in [Threads -> Slots \cup {NOFID}]
    /\ nm \in [Threads -> Names \cup {None}]
    /\ ilock \in [Ids -> Threads \cup {None}]
    /\ stray \subseteq ({"walk", "getattr", "lopen", "lcreate", "clunk"}
                          \X (Slots \cup {NOFID}))

-----------------------------------------------------------------------------
(* The server side of the RPCs.  Known(f): the server has f in its table. *)
Known(f) == f \in Slots /\ srvFids[f] # None

(* Requests among reqs that name a FID the server does not know.          *)
Refused(reqs) == {r \in reqs : ~Known(r[2])}

Bind(f, file) == [srvFids EXCEPT ![f] = file]
Unbind(fs) == [g \in Slots |-> IF g \in fs THEN None ELSE srvFids[g]]

(* P9Client::Clunk of the FIDs fs: the server forgets the ones it knows   *)
(* and refuses the others.                                                 *)
ClunkAll(fs) ==
    /\ srvFids' = Unbind(fs)
    /\ stray' = stray \cup Refused({"clunk"} \X fs)

Clunk(f) == ClunkAll({f})

(* Whether an RPC the server could serve fails anyway (Rlerror), or an    *)
(* allocation right after it fails: both take the same error path.         *)
MayFail == IF Failures THEN BOOLEAN ELSE {FALSE}

(* ~Inode clunks fFid unless it is the root FID or P9_NOFID: the FIDs a   *)
(* deleted Inode with fFid fid clunks.                                     *)
InodeClunks(fid) == {fid} \ {rootFid, NOFID}

(* Inode::Init, through _UpdateStat: a Tgetattr of fFid, which succeeds   *)
(* when the server knows fFid and does not answer Rlerror.                 *)
UpdateStat(fid, fail) == Known(fid) /\ ~fail

-----------------------------------------------------------------------------
Init ==
    /\ fidUsed = {}
    /\ fidHint = 0
    /\ phase = "down"
    /\ rootFid = NOFID
    /\ srvFids = [f \in Slots |-> None]
    /\ exists = InitialNames
    /\ inode = [i \in Ids |-> None]
    /\ held = [t \in Threads |-> None]
    /\ cookie = [t \in Threads |-> None]
    /\ pc = [t \in Threads |-> "idle"]
    /\ nf = [t \in Threads |-> NOFID]
    /\ nm = [t \in Threads |-> None]
    /\ ilock = [i \in Ids |-> None]
    /\ stray = {}

-----------------------------------------------------------------------------
(* fs_mount: Volume::Mount on a fresh Volume.  P9Client::Init initialises *)
(* the pool, Connect sends Tversion (which resets the server's FID table)  *)
(* and attaches fRootFid, the first FID the pool hands out; Mount then     *)
(* reads the root's attributes and builds the root inode through GetInode. *)
(* Nothing else runs on a volume that is being mounted, so the whole of    *)
(* Mount is one step.  Its outcomes are the function's return paths.       *)
Mount ==
    LET root == Scan({0}, 1 % MaxFids, 0)
        afterRoot == {0, root}
        hintAfter == (root + 1) % MaxFids
        outcomes == IF Failures THEN {"ok", "connect", "attach", "getattr"}
                    ELSE {"ok"}
    IN
    /\ phase = "down"
    /\ \E outcome \in outcomes :
        CASE outcome = "connect" ->            \* Tversion refused or mismatched
               /\ fidUsed' = {0} /\ fidHint' = 1 % MaxFids
               /\ UNCHANGED <<phase, rootFid, inode>>
          [] outcome = "attach" ->             \* Rlerror: release fRootFid
               /\ fidUsed' = {0} /\ fidHint' = hintAfter
               /\ rootFid' = root
               /\ UNCHANGED <<phase, inode>>
          [] outcome = "getattr" ->            \* GetAttr or root Init fails:
               /\ fidUsed' = {0} /\ fidHint' = hintAfter   \* Disconnect
               /\ rootFid' = root
               /\ UNCHANGED <<phase, inode>>
          [] outcome = "ok" ->
               /\ fidUsed' = afterRoot /\ fidHint' = hintAfter
               /\ rootFid' = root
               /\ inode' = [inode EXCEPT ![Root] = root]
               /\ phase' = "up"
    /\ srvFids' = [f \in Slots |-> IF phase' = "up" /\ f = root THEN Root
                                   ELSE None]
    /\ UNCHANGED <<exists, held, cookie, pc, nf, nm, ilock, stray>>

(* fs_unmount.  The VFS first frees every vnode (fs_put_vnode: ~Inode      *)
(* clunks fFid unless it is the root FID or NOFID), then Volume::Unmount   *)
(* calls P9Client::Disconnect, which clunks and releases fRootFid.  The    *)
(* VFS unmounts only a volume with no open files and no busy vnodes.       *)
Unmount ==
    LET cached == {i \in Names : inode[i] # None}
        inodeFids == UNION {InodeClunks(inode[i]) : i \in cached}
    IN
    /\ phase = "up"
    /\ \A t \in Threads : pc[t] = "idle" /\ held[t] = None /\ cookie[t] = None
    /\ ClunkAll(inodeFids \cup {rootFid})
    /\ PoolRelease(rootFid)
    /\ inode' = [i \in Ids |-> None]
    /\ phase' = "down"
    /\ UNCHANGED <<rootFid, exists, held, cookie, pc, nf, nm, ilock>>

-----------------------------------------------------------------------------
(* Helpers for one thread's steps.                                         *)
Goto(t, step) == pc' = [pc EXCEPT ![t] = step]
Return(t) == Goto(t, "idle")
Unlock(i) == ilock' = [ilock EXCEPT ![i] = None]

(* P9Client::Walk(fid, newfid, name) sends one Twalk through WalkPath: the *)
(* server binds newfid to the file the walk reaches when fid is known,     *)
(* newfid is not, and a named child exists; otherwise it answers Rlerror   *)
(* and newfid stays unbound.  A walk with no name is the clone of fid.     *)
WalkOk(fid, newfid, name) ==
    Known(fid) /\ ~Known(newfid) /\ (name = None \/ name \in exists)
WalkTarget(fid, name) == IF name = None THEN srvFids[fid] ELSE name
WalkRefused(fid, newfid) ==
    Refused({<<"walk", fid>>}) \cup (IF Known(newfid) THEN {<<"walk", newfid>>} ELSE {})

(* P9Client::Open (Tlopen) and P9Client::Create (Tlcreate of name in the  *)
(* directory fid names): each succeeds when the server knows the FID, the  *)
(* name is new for Tlcreate, and neither the wrapper (message allocation,  *)
(* DoRequest, reply type or parse) nor the server fails otherwise.         *)
Lopen(fid, fail) == Known(fid) /\ ~fail
Lcreate(fid, name, fail) == Known(fid) /\ name \notin exists /\ ~fail

(* A thread's allocation of a new FID at the start of an operation: the    *)
(* operation proceeds to step with the FID, or returns B_NO_MEMORY.       *)
AllocateAndGo(t, step) ==
    /\ PoolAllocate
    /\ IF AllocResult = NOFID THEN UNCHANGED <<pc, nf>>
       ELSE Goto(t, step) /\ nf' = [nf EXCEPT ![t] = AllocResult]

(* Mutant: the cached path clunks the cached inode's FID.                 *)
GetCachedClunkOld(t) ==
    /\ inode[nm[t]] # None
    /\ held' = [held EXCEPT ![t] = nm[t]]
    /\ Clunk(inode[nm[t]]) /\ Return(t)

(* The cached path of Volume::GetInode(fid, qid): get_vnode finds the     *)
(* vnode and takes a reference for the caller, and the new FID is clunked *)
(* (it is never the root FID here) but not released to the pool.          *)
GetCached(t) ==
    /\ inode[nm[t]] # None
    /\ held' = [held EXCEPT ![t] = nm[t]]
    /\ Clunk(nf[t]) /\ Return(t)

-----------------------------------------------------------------------------
(* Inode::Lookup on the root directory, with Inode::WalkToChild and        *)
(* Volume::GetInode(fid, qid) inlined.  A name the cache already has is    *)
(* answered by get_vnode and the child FID clunked; otherwise a new Inode  *)
(* reads its attributes and is published.  When Init or publish_vnode      *)
(* fails the Inode is deleted (~Inode clunks the FID) and Lookup then      *)
(* clunks and releases the same FID again.                                 *)
Lookup(t) ==
    LET f == nf[t]  n == nm[t] IN
    \/ /\ pc[t] = "idle" /\ "lookup" \in Ops /\ phase = "up"
       /\ held[t] = None /\ cookie[t] = None
       /\ \E name \in Names :
            /\ AllocateAndGo(t, "lk_walk")
            /\ nm' = IF AllocResult = NOFID THEN nm ELSE [nm EXCEPT ![t] = name]
       /\ UNCHANGED <<phase, rootFid, srvFids, exists, inode, held, cookie,
                      ilock, stray>>
    \/ /\ pc[t] = "lk_walk"
       /\ IF WalkOk(rootFid, f, n)
          THEN /\ srvFids' = Bind(f, n) /\ Goto(t, "lk_get")
               /\ UNCHANGED <<stray, fidUsed, fidHint>>
          ELSE /\ stray' = stray \cup WalkRefused(rootFid, f)
               /\ PoolRelease(f) /\ Return(t)
               /\ UNCHANGED srvFids
       /\ UNCHANGED <<phase, rootFid, exists, inode, held, cookie, nf, nm, ilock>>
    \/ /\ pc[t] = "lk_get"
       /\ \/ GetCached(t)
          \/ /\ inode[n] = None
             /\ \E fail \in MayFail :
                  IF UpdateStat(f, fail)
                  THEN Goto(t, "lk_publish") /\ UNCHANGED <<srvFids, stray>>
                  ELSE /\ srvFids' = Unbind(InodeClunks(f))
                       /\ stray' = stray \cup Refused({<<"getattr", f>>}
                                                \cup ({"clunk"} \X InodeClunks(f)))
                       /\ Goto(t, "lk_fail")
             /\ UNCHANGED held
       /\ UNCHANGED <<phase, rootFid, exists, inode, cookie, nf, nm, ilock,
                      fidUsed, fidHint>>
    \/ /\ pc[t] = "lk_publish"
       /\ \/ /\ inode[n] = None
             /\ inode' = [inode EXCEPT ![n] = f]
             /\ held' = [held EXCEPT ![t] = n]
             /\ Return(t) /\ UNCHANGED <<srvFids, stray>>
          \/ /\ inode[n] # None
             /\ Clunk(f) /\ Goto(t, "lk_fail")
             /\ UNCHANGED <<inode, held>>
       /\ UNCHANGED <<phase, rootFid, exists, cookie, nf, nm, ilock,
                      fidUsed, fidHint>>
    \/ /\ pc[t] = "lk_fail"
       /\ Clunk(f) /\ PoolRelease(f) /\ Return(t)
       /\ UNCHANGED <<phase, rootFid, exists, inode, held, cookie, nf, nm, ilock>>

-----------------------------------------------------------------------------
(* The start shared by Inode::Open, OpenDir and Create: take fLock of node *)
(* (a MutexLocker, dropped on every return) and allocate the new FID.      *)
LockAndAllocate(t, node, step) ==
    /\ ilock[node] = None
    /\ AllocateAndGo(t, step)
    /\ ilock' = IF AllocResult = NOFID THEN ilock
                ELSE [ilock EXCEPT ![node] = t]

(* The rest of Inode::Open and Inode::OpenDir on node: clone fFid into the *)
(* new FID, Lopen it and wrap it in a cookie.  A failed walk releases the  *)
(* FID; a failed Lopen or a failed cookie (or buffer) allocation clunks    *)
(* and releases it.                                                        *)
CloneAndOpen(t, node, walkStep, openStep, isDir) ==
    LET f == nf[t]  fid == inode[node] IN
    \/ /\ pc[t] = walkStep
       /\ \E fail \in MayFail :
          IF WalkOk(fid, f, None) /\ ~fail
          THEN /\ srvFids' = Bind(f, WalkTarget(fid, None)) /\ Goto(t, openStep)
               /\ UNCHANGED <<stray, fidUsed, fidHint, ilock>>
          ELSE /\ stray' = stray \cup WalkRefused(fid, f)
               /\ PoolRelease(f) /\ Unlock(node) /\ Return(t)
               /\ UNCHANGED srvFids
       /\ UNCHANGED <<cookie, nf>>
    \/ /\ pc[t] = openStep
       /\ \E fail \in MayFail :
            IF Lopen(f, fail)
            THEN /\ cookie' = [cookie EXCEPT ![t] = [fid |-> f, dir |-> isDir]]
                 /\ UNCHANGED <<srvFids, stray, fidUsed, fidHint>>
            ELSE /\ srvFids' = Unbind({f})
                 /\ stray' = stray \cup Refused({<<"lopen", f>>, <<"clunk", f>>})
                 /\ PoolRelease(f) /\ UNCHANGED cookie
       /\ Unlock(node) /\ Return(t)
       /\ UNCHANGED nf

(* Inode::Open of the file t holds a reference to.                         *)
Open(t) ==
    /\ \/ /\ pc[t] = "idle" /\ "open" \in Ops /\ phase = "up"
          /\ held[t] # None /\ cookie[t] = None
          /\ LockAndAllocate(t, held[t], "op_walk")
          /\ UNCHANGED <<srvFids, stray, cookie>>
       \/ CloneAndOpen(t, held[t], "op_walk", "op_open", FALSE)
    /\ UNCHANGED <<phase, rootFid, exists, inode, held, nm>>

(* Inode::OpenDir of the root directory.                                   *)
OpenDir(t) ==
    /\ \/ /\ pc[t] = "idle" /\ "opendir" \in Ops /\ phase = "up"
          /\ cookie[t] = None
          /\ LockAndAllocate(t, Root, "od_walk")
          /\ UNCHANGED <<srvFids, stray, cookie>>
       \/ CloneAndOpen(t, Root, "od_walk", "od_open", TRUE)
    /\ UNCHANGED <<phase, rootFid, exists, inode, held, nm>>

(* Mutant: the cookie's FID is released without being clunked.            *)
DropCookieNoClunk(t, isDir) ==
    /\ pc[t] = "idle" /\ cookie[t] # None /\ cookie[t].dir = isDir
    /\ PoolRelease(cookie[t].fid) /\ UNCHANGED <<srvFids, stray>>
    /\ cookie' = [cookie EXCEPT ![t] = None]
    /\ UNCHANGED <<phase, rootFid, exists, inode, held, pc, nf, nm, ilock>>

(* Inode::FreeCookie (isDir FALSE) and Inode::FreeDirCookie (isDir TRUE): *)
(* clunk and release the cookie's FID and delete the cookie.               *)
DropCookie(t, isDir) ==
    /\ pc[t] = "idle" /\ cookie[t] # None /\ cookie[t].dir = isDir
    /\ Clunk(cookie[t].fid) /\ PoolRelease(cookie[t].fid)
    /\ cookie' = [cookie EXCEPT ![t] = None]
    /\ UNCHANGED <<phase, rootFid, exists, inode, held, pc, nf, nm, ilock>>

FreeCookie(t) == DropCookie(t, FALSE)
FreeDirCookie(t) == DropCookie(t, TRUE)

(* Inode::Create in the root directory: clone the directory FID, Lcreate   *)
(* the name through it (the FID then names the new file) and build the new *)
(* Inode.  The Inode is constructed with fFid = P9_NOFID, so its Init      *)
(* sends Tgetattr for NOFID, which the server refuses; Create then deletes *)
(* the Inode (whose ~Inode clunks nothing) and clunks and releases the new *)
(* FID.  The path past Init (publish_vnode and the cookie) would need      *)
(* UpdateStat(NOFID) to succeed, so it is never reached.                   *)
Create(t) ==
    LET f == nf[t]  n == nm[t] IN
    /\ \/ /\ pc[t] = "idle" /\ "create" \in Ops /\ phase = "up"
          /\ held[t] = None /\ cookie[t] = None
          /\ \E name \in Names :
               /\ LockAndAllocate(t, Root, "cr_walk")
               /\ nm' = IF AllocResult = NOFID THEN nm ELSE [nm EXCEPT ![t] = name]
          /\ UNCHANGED <<srvFids, exists, stray>>
       \/ /\ pc[t] = "cr_walk"
          /\ \E fail \in MayFail :
             IF WalkOk(inode[Root], f, None) /\ ~fail
             THEN /\ srvFids' = Bind(f, Root) /\ Goto(t, "cr_create")
                  /\ UNCHANGED <<stray, fidUsed, fidHint, ilock>>
             ELSE /\ stray' = stray \cup WalkRefused(inode[Root], f)
                  /\ PoolRelease(f) /\ Unlock(Root) /\ Return(t)
                  /\ UNCHANGED srvFids
          /\ UNCHANGED <<exists, nf, nm>>
       \/ /\ pc[t] = "cr_create"
          /\ \E fail \in MayFail :
               IF Lcreate(f, n, fail)
               THEN /\ exists' = exists \cup {n}
                    /\ srvFids' = Bind(f, n) /\ Goto(t, "cr_init")
                    /\ UNCHANGED <<stray, fidUsed, fidHint, ilock>>
               ELSE /\ srvFids' = Unbind({f})
                    /\ stray' = stray \cup Refused({<<"lcreate", f>>, <<"clunk", f>>})
                    /\ PoolRelease(f) /\ Unlock(Root) /\ Return(t)
                    /\ UNCHANGED exists
          /\ UNCHANGED <<nf, nm>>
       \/ /\ pc[t] = "cr_init"
          /\ \E fail \in MayFail :     \* fail: the new Inode is not allocated
               /\ fail \/ ~UpdateStat(NOFID, FALSE)
               /\ stray' = stray \cup Refused(
                     (IF fail THEN {}
                      ELSE {<<"getattr", NOFID>>} \cup ({"clunk"} \X InodeClunks(NOFID)))
                     \cup {<<"clunk", f>>})
          /\ srvFids' = Unbind({f})
          /\ PoolRelease(f) /\ Unlock(Root) /\ Return(t)
          /\ UNCHANGED <<exists, nf, nm>>
    /\ UNCHANGED <<phase, rootFid, inode, held, cookie>>

(* The VFS drops the reference a thread got from Lookup.                   *)
Put(t) ==
    /\ pc[t] = "idle" /\ held[t] # None /\ cookie[t] = None
    /\ held' = [held EXCEPT ![t] = None]
    /\ UNCHANGED <<phase, rootFid, srvFids, exists, inode, cookie, pc, nf, nm,
                   ilock, stray, fidUsed, fidHint>>

(* The VFS frees an unused vnode: fs_put_vnode deletes the Inode, and      *)
(* ~Inode clunks fFid unless it is the root FID or NOFID.                  *)
Evict(i) ==
    /\ phase = "up" /\ inode[i] # None
    /\ \A t \in Threads : held[t] # i
    /\ ilock[i] = None
    /\ ClunkAll(InodeClunks(inode[i]))
    /\ inode' = [inode EXCEPT ![i] = None]
    /\ UNCHANGED <<phase, rootFid, exists, held, cookie, pc, nf, nm, ilock,
                   fidUsed, fidHint>>

(* The hooks of gVolumeOps and gInodeOps behind these operations: each     *)
(* forwards to the Volume or to the vnode's private Inode.  fs_mount first *)
(* allocates the Volume (B_NO_MEMORY changes nothing) and deletes it when  *)
(* Mount fails; fs_unmount deletes it after Unmount.                       *)
fs_mount == Mount
fs_unmount == Unmount
fs_lookup(t) == Lookup(t)
fs_open(t) == Open(t)
fs_free_cookie(t) == FreeCookie(t)
fs_create(t) == Create(t)
fs_open_dir(t) == OpenDir(t)
fs_free_dir_cookie(t) == FreeDirCookie(t)

Next ==
    \/ fs_mount
    \/ fs_unmount
    \/ \E t \in Threads :
          \/ fs_lookup(t) \/ fs_open(t) \/ fs_open_dir(t) \/ fs_create(t)
          \/ fs_free_cookie(t) \/ fs_free_dir_cookie(t) \/ Put(t)
    \/ \E i \in Names : Evict(i)

Spec == Init /\ [][Next]_vars

-----------------------------------------------------------------------------
(* Owners(f): who holds FID f on the client side: the volume (the root    *)
(* FID while mounted), a cached non-root Inode, a cookie, or an operation  *)
(* in progress that allocated it.                                          *)
Owners(f) ==
    (IF phase = "up" /\ f = rootFid THEN {<<"volume", Root>>} ELSE {})
    \cup {<<"inode", i>> : i \in {j \in Names : inode[j] = f}}
    \cup {<<"cookie", t>> : t \in {u \in Threads : cookie[u] # None /\ cookie[u].fid = f}}
    \cup {<<"op", t>> : t \in {u \in Threads : pc[u] # "idle" /\ nf[u] = f}}

(* Spec invariant 1: a FID is never held by two owners at once, so no two *)
(* inodes, cookies or operations in flight of concurrent threads ever send *)
(* requests on the same FID (FidPool::Allocate under its mutex, and every  *)
(* path of Lookup, Open, OpenDir, Create and GetInode handing a FID on).   *)
FidsUniquelyOwned == \A f \in Slots : Cardinality(Owners(f)) <= 1

(* Every FID the server still has bound is held by someone on the client: *)
(* every error path of Lookup, Open, OpenDir and Create, FreeCookie,       *)
(* ~Inode and Disconnect clunk what they drop, so the server's FID table   *)
(* does not fill with FIDs the client forgot.                              *)
ServerFidsOwned == \A f \in Slots : srvFids[f] # None => Owners(f) # {}

(* A FID held by the volume, a cached Inode or a cookie is still bound on *)
(* the server: nothing clunks a FID whose owner goes on using it (GetInode *)
(* clunks the new FID, not the cached inode's; ~Inode spares the root).   *)
OwnedFidsBound ==
    \A f \in Slots :
        (\E o \in Owners(f) : o[1] \in {"volume", "inode", "cookie"}) => Known(f)

(* Spec invariant 1 and section 4.5: while the volume is mounted, every   *)
(* FID allocated from the pool, apart from the reserved slot 0, has an     *)
(* owner, so the pool is not drained by FIDs nobody holds.  ~Inode and the *)
(* cached path of Volume::GetInode clunk a FID but never hand it back.     *)
PoolSlotsOwned == phase = "up" => \A f \in fidUsed \ {0} : Owners(f) # {}

(* The client never sends the server a request naming a FID the server    *)
(* does not have (a clunk of an already clunked FID, a getattr of NOFID),  *)
(* nor a walk to a newfid still in use.                                    *)
NoStrayRequests == stray = {}
=============================================================================
