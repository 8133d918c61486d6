------------------------------- MODULE P9Codec -------------------------------
(***************************************************************************)
(* The 9P2000.L wire codec of the client: P9Buffer's bounded writes and    *)
(* reads, the P9Message request builders and reply parsers, the sizing of  *)
(* a received reply in Virtio9PTransport::ReceiveMessage,                 *)
(* P9Client::DoRequest and CheckError, and the open-flag and errno         *)
(* conversions of kernel_interface.cpp.                                    *)
(*                                                                         *)
(* Bytes are the integers 0 .. 255 and a buffer is the sequence of bytes   *)
(* written into it (its length is fWritePos).  Integer fields keep their   *)
(* widths; values stay below 2^31.  A field to be encoded is a record      *)
(* [k |-> kind, v |-> value] with kind "u8", "u16", "u32", "u64", "str"    *)
(* (a string, as a sequence of bytes) or "raw" (Twrite's payload).        *)
(*                                                                         *)
(* Each step is one call of the codec on inputs drawn from small sets; the *)
(* state is that call and its outcome, checked against the reference wire *)
(* format of docs/9P_PROTOCOL.md.                                          *)
(***************************************************************************)
EXTENDS Naturals, Sequences, SequencesExt, Bitwise

CONSTANTS Msizes,     \* capacities a P9Message(msize) is built with
          MaxSize,    \* Virtio9PTransport::fMaxSize (P9_MAX_MSIZE)
          Names,      \* strings (sequences of bytes) passed to builders
          Payloads,   \* data passed to BuildWrite
          StrBufs,    \* sizes of the char buffers parsers copy strings into
          HaikuO,     \* the O_* values of Haiku's <fcntl.h> the client tests
          Errnos      \* errno values an Rlerror carries

Width == [u8 |-> 1, u16 |-> 2, u32 |-> 4, u64 |-> 8]

(* enum P9MessageType.                                                     *)
MsgType == [Tversion |-> 100, Rversion |-> 101, Tattach |-> 104,
            Rattach |-> 105, Twalk |-> 110, Rwalk |-> 111, Tlopen |-> 12,
            Rlopen |-> 13, Tlcreate |-> 14, Rlcreate |-> 15, Tread |-> 116,
            Rread |-> 117, Twrite |-> 118, Rwrite |-> 119, Tclunk |-> 120,
            Tremove |-> 122, Tgetattr |-> 24, Rgetattr |-> 25,
            Tsetattr |-> 26, Treaddir |-> 40, Rreaddir |-> 41, Tmkdir |-> 72,
            Rmkdir |-> 73, Tunlinkat |-> 76, Trenameat |-> 74, Tstatfs |-> 8,
            Rstatfs |-> 9, Tfsync |-> 50, Treadlink |-> 22, Rreadlink |-> 23,
            Tsymlink |-> 16, Rsymlink |-> 17, Tlink |-> 70, Rlerror |-> 7]

(* B_HOST_TO_LENDIAN_INT*: v as w bytes, least significant first.         *)
RECURSIVE ToLE(_, _)
ToLE(v, w) == IF w = 0 THEN <<>> ELSE <<v % 256>> \o ToLE(v \div 256, w - 1)

(* B_LENDIAN_TO_HOST_INT*.                                                 *)
RECURSIVE FromLE(_)
FromLE(bytes) == IF bytes = <<>> THEN 0 ELSE Head(bytes) + 256 * FromLE(Tail(bytes))

U8(v) == [k |-> "u8", v |-> v]
U16(v) == [k |-> "u16", v |-> v]
U32(v) == [k |-> "u32", v |-> v]
U64(v) == [k |-> "u64", v |-> v]
Str(s) == [k |-> "str", v |-> s]
Raw(d) == [k |-> "raw", v |-> d]

-----------------------------------------------------------------------------
(* P9Buffer on the write side: buf is [data |-> bytes, cap |-> capacity,   *)
(* ok |-> whether every write so far succeeded].  A write that does not   *)
(* fit returns B_BUFFER_OVERFLOW and leaves the buffer as it was; every    *)
(* builder returns at the first failing write, so once ok is FALSE later  *)
(* writes are not made.                                                    *)
Fail(buf) == [buf EXCEPT !.ok = FALSE]
Put(buf, bytes) == [buf EXCEPT !.data = @ \o bytes]

(* Mutant: a write that would exactly fill the buffer is refused.        *)
WriteUintFullRefused(buf, w, v) ==
    IF Len(buf.data) + w >= buf.cap THEN Fail(buf) ELSE Put(buf, ToLE(v, w))

(* WriteUint8/16/32/64.                                                    *)
WriteUint(buf, w, v) ==
    IF Len(buf.data) + w > buf.cap THEN Fail(buf) ELSE Put(buf, ToLE(v, w))

(* WriteString(str, len): the whole string is checked first, then the     *)
(* length is written by WriteUint16 and the bytes copied.                  *)
WriteString(buf, s) ==
    IF Len(buf.data) + 2 + Len(s) > buf.cap THEN Fail(buf)
    ELSE Put(WriteUint(buf, 2, Len(s)), s)

(* BuildWrite's payload: checked against the capacity, then copied (and    *)
(* copied again byte by byte by WriteUint8, to the same place).            *)
WriteRaw(buf, d) ==
    IF Len(buf.data) + Len(d) > buf.cap THEN Fail(buf) ELSE Put(buf, d)

WriteField(buf, f) ==
    IF ~buf.ok THEN buf
    ELSE CASE f.k = "str" -> WriteString(buf, f.v)
           [] f.k = "raw" -> WriteRaw(buf, f.v)
           [] OTHER -> WriteUint(buf, Width[f.k], f.v)

RECURSIVE WriteFields(_, _)
WriteFields(buf, fs) ==
    IF fs = <<>> THEN buf ELSE WriteFields(WriteField(buf, Head(fs)), Tail(fs))

(* P9Message::WriteHeader: a zero size, the type and the tag.              *)
WriteHeader(buf, type, tag) == WriteFields(buf, <<U32(0), U8(type), U16(tag)>>)

(* P9Message::FinalizeHeader: the size field becomes fBuffer.Size().       *)
FinalizeHeader(buf) ==
    [buf EXCEPT !.data = ToLE(Len(buf.data), 4) \o SubSeq(buf.data, 5, Len(buf.data))]

(* A Build* method on a P9Message whose Init gave it cap bytes: Reset,    *)
(* WriteHeader, the method's fields in order, FinalizeHeader; the first    *)
(* failing write is returned and FinalizeHeader is then not reached.       *)
Build(cap, type, tag, fields) ==
    LET written == WriteFields(WriteHeader([data |-> <<>>, cap |-> cap, ok |-> TRUE],
                                           type, tag), fields)
    IN IF written.ok THEN FinalizeHeader(written) ELSE written

-----------------------------------------------------------------------------
(* The fields each Build* method writes after the header, from its         *)
(* arguments, in the order it writes them.                                 *)
BuildVersion(msize, version) == <<U32(msize), Str(version)>>
BuildAttach(fid, afid, uname, aname, nuname) ==
    <<U32(fid), U32(afid), Str(uname), Str(aname), U32(nuname)>>
BuildWalk(fid, newfid, nwname, wnames) ==
    <<U32(fid), U32(newfid), U16(nwname)>> \o [i \in 1 .. nwname |-> Str(wnames[i])]
BuildLopen(fid, flags) == <<U32(fid), U32(flags)>>
BuildLcreate(fid, name, flags, mode, gid) ==
    <<U32(fid), Str(name), U32(flags), U32(mode), U32(gid)>>
BuildRead(fid, offset, count) == <<U32(fid), U64(offset), U32(count)>>
BuildWrite(fid, offset, data) ==
    <<U32(fid), U64(offset), U32(Len(data))>> \o (IF Len(data) > 0 THEN <<Raw(data)>> ELSE <<>>)
BuildClunk(fid) == <<U32(fid)>>
BuildRemove(fid) == <<U32(fid)>>
BuildGetattr(fid, mask) == <<U32(fid), U64(mask)>>
BuildSetattr(fid, valid, mode, uid, gid, size, aSec, aNsec, mSec, mNsec) ==
    <<U32(fid), U32(valid), U32(mode), U32(uid), U32(gid), U64(size),
      U64(aSec), U64(aNsec), U64(mSec), U64(mNsec)>>
BuildReaddir(fid, offset, count) == <<U32(fid), U64(offset), U32(count)>>
BuildMkdir(dfid, name, mode, gid) == <<U32(dfid), Str(name), U32(mode), U32(gid)>>
BuildUnlinkat(dfid, name, flags) == <<U32(dfid), Str(name), U32(flags)>>
BuildRenameat(olddirfid, oldname, newdirfid, newname) ==
    <<U32(olddirfid), Str(oldname), U32(newdirfid), Str(newname)>>
BuildStatfs(fid) == <<U32(fid)>>
BuildFsync(fid, datasync) == <<U32(fid), U32(datasync)>>
BuildReadlink(fid) == <<U32(fid)>>
BuildSymlink(dfid, name, target, gid) ==
    <<U32(dfid), Str(name), Str(target), U32(gid)>>
BuildLink(dfid, fid, name) == <<U32(dfid), U32(fid), Str(name)>>

(* The requests the client can build: every builder, with each integer    *)
(* argument 0 or the value with bytes i, i+1, i+2 (n[i]), and every string *)
(* and payload of the model.                                               *)
Nums(k) == {[i \in 1 .. k |-> 0], [i \in 1 .. k |-> 65793 * i + 131328]}
Requests ==
       {<<"Tversion", BuildVersion(n[1], s)>> : n \in Nums(1), s \in Names}
  \cup {<<"Tattach", BuildAttach(n[1], n[2], s, t, n[3])>> :
            n \in Nums(3), s \in Names, t \in Names}
  \cup {<<"Twalk", BuildWalk(n[1], n[2], Len(w), w)>> :
            n \in Nums(2), w \in {<<>>} \cup {<<s>> : s \in Names} \cup {<<s, t>> : s, t \in Names}}
  \cup {<<"Tlopen", BuildLopen(n[1], n[2])>> : n \in Nums(2)}
  \cup {<<"Tlcreate", BuildLcreate(n[1], s, n[2], n[3], n[4])>> : n \in Nums(4), s \in Names}
  \cup {<<"Tread", BuildRead(n[1], n[2], n[3])>> : n \in Nums(3)}
  \cup {<<"Twrite", BuildWrite(n[1], n[2], d)>> : n \in Nums(2), d \in Payloads}
  \cup {<<"Tclunk", BuildClunk(n[1])>> : n \in Nums(1)}
  \cup {<<"Tremove", BuildRemove(n[1])>> : n \in Nums(1)}
  \cup {<<"Tgetattr", BuildGetattr(n[1], n[2])>> : n \in Nums(2)}
  \cup {<<"Tsetattr", BuildSetattr(n[1], n[2], n[3], n[4], n[5], n[6], n[7], n[8],
                                  n[9], n[10])>> : n \in Nums(10)}
  \cup {<<"Treaddir", BuildReaddir(n[1], n[2], n[3])>> : n \in Nums(3)}
  \cup {<<"Tmkdir", BuildMkdir(n[1], s, n[2], n[3])>> : n \in Nums(3), s \in Names}
  \cup {<<"Tunlinkat", BuildUnlinkat(n[1], s, n[2])>> : n \in Nums(2), s \in Names}
  \cup {<<"Trenameat", BuildRenameat(n[1], s, n[2], t)>> : n \in Nums(2), s, t \in Names}
  \cup {<<"Tstatfs", BuildStatfs(n[1])>> : n \in Nums(1)}
  \cup {<<"Tfsync", BuildFsync(n[1], n[2])>> : n \in Nums(2)}
  \cup {<<"Treadlink", BuildReadlink(n[1])>> : n \in Nums(1)}
  \cup {<<"Tsymlink", BuildSymlink(n[1], s, t, n[2])>> : n \in Nums(2), s, t \in Names}
  \cup {<<"Tlink", BuildLink(n[1], n[2], s)>> : n \in Nums(2), s \in Names}

-----------------------------------------------------------------------------
(* P9Buffer on the read side: rd is [data |-> bytes (fWritePos is their    *)
(* length), pos |-> fReadPos, st |-> status, out |-> what was read].  A    *)
(* read past fWritePos returns B_BUFFER_OVERFLOW; every parser returns at  *)
(* the first failing read.                                                 *)
Stop(rd, st) == [rd EXCEPT !.st = st]
Got(rd, n, v) == [rd EXCEPT !.pos = @ + n, !.out = Append(@, v)]

(* ReadUint8/16/32/64.                                                     *)
ReadUint(rd, w) ==
    IF rd.pos + w > Len(rd.data) THEN Stop(rd, "overflow")
    ELSE Got(rd, w, FromLE(SubSeq(rd.data, rd.pos + 1, rd.pos + w)))

ReadString(rd, size) ==
    LET r == ReadUint(rd, 2)
        len == Last(r.out)
    IN IF r.st # "ok" THEN r
       ELSE IF r.pos + len > Len(r.data) THEN Stop(r, "overflow")
       ELSE IF size > 0 /\ len >= size THEN Stop(r, "name_too_long")
       ELSE [r EXCEPT !.pos = @ + len,
                      !.out = Append(Front(@), SubSeq(r.data, r.pos + 1, r.pos + len))]

(* ParseRead and ParseReaddir: the count, then a pointer to the data at    *)
(* the read position; the count is not compared with what is left.        *)
ReadCountAndData(rd) ==
    LET r == ReadUint(rd, 4)
        count == Last(r.out)
        end == IF r.pos + count > Len(r.data) THEN Len(r.data) ELSE r.pos + count
    IN IF r.st # "ok" THEN r ELSE Got(r, 0, SubSeq(r.data, r.pos + 1, end))

ReadField(rd, kind, size) ==
    IF rd.st # "ok" THEN rd
    ELSE CASE kind = "str" -> ReadString(rd, size)
           [] kind = "data" -> ReadCountAndData(rd)
           [] OTHER -> ReadUint(rd, Width[kind])

RECURSIVE ReadFields(_, _, _)
ReadFields(rd, kinds, size) ==
    IF kinds = <<>> THEN rd
    ELSE ReadFields(ReadField(rd, Head(kinds), size), Tail(kinds), size)

(* P9Buffer::ReadQid.                                                      *)
Qid == <<"u8", "u32", "u64">>

(* ParseWalk: nwqid, refused above maxQids, then nwqid qids.               *)
ParseWalk(rd, maxQids) ==
    LET r == ReadUint(rd, 2)
        n == Last(r.out)
    IN IF r.st # "ok" THEN r
       ELSE IF n > maxQids THEN Stop(r, "overflow")
       ELSE ReadFields(r, FlattenSeq([i \in 1 .. n |-> Qid]), 0)

(* The fields each Parse* method reads, in order.                          *)
Parsers ==
    [Rlerror |-> <<"u32">>,
     Rversion |-> <<"u32", "str">>,
     Rattach |-> Qid,
     Rlopen |-> Qid \o <<"u32">>,
     Rlcreate |-> Qid \o <<"u32">>,
     Rread |-> <<"data">>,
     Rwrite |-> <<"u32">>,
     Rgetattr |-> <<"u64">> \o Qid \o <<"u32", "u32", "u32">>
                    \o [i \in 1 .. 15 |-> "u64"],
     Rreaddir |-> <<"data">>,
     Rstatfs |-> <<"u32", "u32">> \o [i \in 1 .. 6 |-> "u64"] \o <<"u32">>,
     Rmkdir |-> Qid,
     Rsymlink |-> Qid,
     Rreadlink |-> <<"str">>]

-----------------------------------------------------------------------------
(* The conversions of kernel_interface.cpp between Haiku's values and the *)
(* Linux values 9P2000.L carries.                                          *)

(* The P9_O* flags of 9p.h that haiku_to_p9_open_flags sets.              *)
P9Open == [OREAD |-> 0, OWRITE |-> 1, ORDWR |-> 2, OCREATE |-> 64,
           OEXCL |-> 128, OTRUNC |-> 512, OAPPEND |-> 1024]

(* Mutant: the open mode is sent as it is, as the mode bits are.           *)
OpenFlagsPassedThrough(flags) == flags

(* haiku_to_p9_open_flags: the access mode by a switch with no default    *)
(* (p9flags stays 0), then one test per flag Tlopen and Tlcreate carry.    *)
haiku_to_p9_open_flags(flags) ==
    LET acc == flags & HaikuO.ACCMODE
        Carry(h, p) == IF (flags & h) # 0 THEN p ELSE 0
    IN  (CASE acc = HaikuO.RDONLY -> P9Open.OREAD
           [] acc = HaikuO.WRONLY -> P9Open.OWRITE
           [] acc = HaikuO.RDWR -> P9Open.ORDWR
           [] OTHER -> 0)
        | Carry(HaikuO.CREAT, P9Open.OCREATE) | Carry(HaikuO.EXCL, P9Open.OEXCL)
        | Carry(HaikuO.TRUNC, P9Open.OTRUNC) | Carry(HaikuO.APPEND, P9Open.OAPPEND)

(* The P9_E* errno values of 9p.h.                                         *)
P9Errno == [EPERM |-> 1, ENOENT |-> 2, EIO |-> 5, ENXIO |-> 6, EACCES |-> 13,
            EEXIST |-> 17, EXDEV |-> 18, ENODEV |-> 19, ENOTDIR |-> 20,
            EISDIR |-> 21, EINVAL |-> 22, ENFILE |-> 23, EMFILE |-> 24,
            ENOSPC |-> 28, ESPIPE |-> 29, EROFS |-> 30, ENAMETOOLONG |-> 36,
            ENOTEMPTY |-> 39, ENODATA |-> 61, EOVERFLOW |-> 75,
            EOPNOTSUPP |-> 95]

(* The cases of the switch of p9_error_to_haiku.                           *)
ErrorCases == [EPERM |-> "B_PERMISSION_DENIED", ENOENT |-> "B_ENTRY_NOT_FOUND",
               EIO |-> "B_IO_ERROR", ENXIO |-> "B_DEV_NOT_READY",
               EACCES |-> "B_PERMISSION_DENIED", EEXIST |-> "B_FILE_EXISTS",
               EXDEV |-> "B_CROSS_DEVICE_LINK", ENODEV |-> "B_DEV_NOT_READY",
               ENOTDIR |-> "B_NOT_A_DIRECTORY", EISDIR |-> "B_IS_A_DIRECTORY",
               EINVAL |-> "B_BAD_VALUE", ENFILE |-> "B_NO_MORE_FDS",
               EMFILE |-> "B_NO_MORE_FDS", ENOSPC |-> "B_DEVICE_FULL",
               ESPIPE |-> "B_BAD_VALUE", EROFS |-> "B_READ_ONLY_DEVICE",
               ENAMETOOLONG |-> "B_NAME_TOO_LONG",
               ENOTEMPTY |-> "B_DIRECTORY_NOT_EMPTY",
               ENODATA |-> "B_ENTRY_NOT_FOUND", EOVERFLOW |-> "B_BUFFER_OVERFLOW",
               EOPNOTSUPP |-> "B_NOT_SUPPORTED"]

(* Mutant: EACCES is taken for an operation the file system does not allow. *)
ErrorAccessNotAllowed(e) ==
    LET hit == {n \in DOMAIN P9Errno : P9Errno[n] = e} IN
    IF e = 0 THEN "B_OK"
    ELSE IF hit = {} THEN "B_ERROR"
    ELSE [ErrorCases EXCEPT !.EACCES = "B_NOT_ALLOWED"][CHOOSE n \in hit : TRUE]

(* p9_error_to_haiku: 0 is B_OK, a listed errno its case, any other        *)
(* B_ERROR.                                                                *)
p9_error_to_haiku(e) ==
    LET hit == {n \in DOMAIN P9Errno : P9Errno[n] = e} IN
    IF e = 0 THEN "B_OK"
    ELSE IF hit = {} THEN "B_ERROR"
    ELSE ErrorCases[CHOOSE n \in hit : TRUE]

-----------------------------------------------------------------------------
(* A reply arrives for an RPC that expects a reply of type expect:         *)
(* ReceiveMessage reads the size field in the response DMA buffer, refuses *)
(* one above fMaxSize and copies that many bytes into the P9Message of cap *)
(* bytes; DoRequest sets its size; CheckError reads the header and turns   *)
(* an Rlerror into p9_error_to_haiku of its errno, which is B_OK for errno *)
(* 0; a type other than expect is then B_ERROR; then the Parse* method of  *)
(* expect reads the body.                                                  *)
Receive(cap, bytes, expect, size, maxQids) ==
    LET responseSize == FromLE(SubSeq(bytes, 1, 4))
        hdr == ReadFields([data |-> SubSeq(bytes, 1, responseSize), pos |-> 0,
                           st |-> "ok", out |-> <<>>], <<"u32", "u8", "u16">>, 0)
        type == hdr.out[2]
        body == [hdr EXCEPT !.out = <<>>]
    IN IF responseSize > MaxSize THEN [st |-> "overflow", out |-> <<>>]
       ELSE IF responseSize > cap THEN [st |-> "overrun", out |-> <<>>]
       ELSE IF hdr.st # "ok" THEN [st |-> hdr.st, out |-> <<>>]
       ELSE IF type = MsgType.Rlerror
               /\ p9_error_to_haiku(ReadFields(body, Parsers.Rlerror, 0).out[1]) # "B_OK"
            THEN [st |-> "lerror", out |-> ReadFields(body, Parsers.Rlerror, 0).out]
       ELSE IF type # MsgType[expect] THEN [st |-> "error", out |-> <<>>]
       ELSE LET r == IF expect = "Rwalk" THEN ParseWalk(body, maxQids)
                     ELSE ReadFields(body, Parsers[expect], size)
            IN [st |-> r.st, out |-> r.out]

-----------------------------------------------------------------------------
(* The reference wire format, docs/9P_PROTOCOL.md: size[4] type[1] tag[2]  *)
(* then the fields, integers little-endian, a string as len[2] and its    *)
(* bytes, data as its bytes.  For values below 2^31 the bytes past the     *)
(* fourth are zero.                                                        *)
RefLE(v, w) == [i \in 1 .. w |-> IF i > 4 THEN 0 ELSE (v \div (256 ^ (i - 1))) % 256]

RefField(f) ==
    CASE f.k = "str" -> RefLE(Len(f.v), 2) \o f.v
      [] f.k = "raw" -> f.v
      [] OTHER -> RefLE(f.v, Width[f.k])

RefEncode(type, tag, fields) ==
    LET body == FoldLeft(LAMBDA acc, f : acc \o RefField(f), <<>>, fields)
    IN RefLE(7 + Len(body), 4) \o RefLE(type, 1) \o RefLE(tag, 2) \o body

(* Spec section 6: the open flags of Tlopen and Tlcreate are Linux's.      *)
LinuxOpen == [RDONLY |-> 0, WRONLY |-> 1, RDWR |-> 2, CREAT |-> 64, EXCL |-> 128,
              TRUNC |-> 512, APPEND |-> 1024]

(* Whether the power of two b is set in x.                                 *)
Bit(x, b) == (x \div b) % 2 = 1

(* Spec section 7: the kind of each errno its table names, with Linux's    *)
(* errno numbers.                                                          *)
LinuxErrno == [EPERM |-> 1, ENOENT |-> 2, EIO |-> 5, EACCES |-> 13, EEXIST |-> 17,
               ENOTDIR |-> 20, EISDIR |-> 21, EINVAL |-> 22, ENOSPC |-> 28,
               EROFS |-> 30, ENAMETOOLONG |-> 36, ENOTEMPTY |-> 39,
               EOVERFLOW |-> 75, EOPNOTSUPP |-> 95]
SpecKind == [ENOENT |-> "not-found", EROFS |-> "read-only",
             EACCES |-> "permission-denied", EPERM |-> "permission-denied",
             EEXIST |-> "exists", EISDIR |-> "is-directory",
             ENOTDIR |-> "not-a-directory", EINVAL |-> "invalid-argument",
             ENAMETOOLONG |-> "name-too-long", ENOTEMPTY |-> "not-empty",
             ENOSPC |-> "no-space", EIO |-> "io-error",
             EOVERFLOW |-> "buffer-overflow", EOPNOTSUPP |-> "not-supported"]

(* The kind of the spec's taxonomy each Haiku status stands for.           *)
HaikuKind == [B_ENTRY_NOT_FOUND |-> "not-found", B_READ_ONLY_DEVICE |-> "read-only",
              B_PERMISSION_DENIED |-> "permission-denied", B_FILE_EXISTS |-> "exists",
              B_IS_A_DIRECTORY |-> "is-directory",
              B_NOT_A_DIRECTORY |-> "not-a-directory",
              B_BAD_VALUE |-> "invalid-argument", B_NAME_TOO_LONG |-> "name-too-long",
              B_DIRECTORY_NOT_EMPTY |-> "not-empty", B_DEVICE_FULL |-> "no-space",
              B_IO_ERROR |-> "io-error", B_BUFFER_OVERFLOW |-> "buffer-overflow",
              B_NOT_SUPPORTED |-> "not-supported", B_DEV_NOT_READY |-> "device-not-ready",
              B_CROSS_DEVICE_LINK |-> "cross-device", B_NO_MORE_FDS |-> "too-many-fds"]
KindOf(st) == IF st \in DOMAIN HaikuKind THEN HaikuKind[st] ELSE "other"

-----------------------------------------------------------------------------
(* The replies a server following the protocol sends for an RPC expecting *)
(* a reply of type e: that reply, with the fields of the reference format  *)
(* and values as for requests, or Rlerror.                                 *)
QidOf(n) == <<U8(n % 256), U32(n), U64(n)>>
Replies(e) ==
    CASE e = "Rversion" -> {<<U32(n[1]), Str(s)>> : n \in Nums(1), s \in Names}
      [] e = "Rwalk" -> {<<U16(k)>> \o FlattenSeq([i \in 1 .. k |-> QidOf(n[i])]) :
                             k \in 0 .. 2, n \in Nums(2)}
      [] e \in {"Rattach", "Rmkdir", "Rsymlink"} -> {QidOf(n[1]) : n \in Nums(1)}
      [] e \in {"Rlopen", "Rlcreate"} -> {QidOf(n[1]) \o <<U32(n[2])>> : n \in Nums(2)}
      [] e \in {"Rread", "Rreaddir"} -> {<<U32(Len(d)), Raw(d)>> : d \in Payloads}
      [] e = "Rwrite" -> {<<U32(n[1])>> : n \in Nums(1)}
      [] e = "Rgetattr" ->
            {<<U64(n[1])>> \o QidOf(n[2]) \o [i \in 1 .. 18 |-> IF i <= 3 THEN U32(n[i + 2])
                                                              ELSE U64(n[i + 2])] :
                n \in Nums(20)}
      [] e = "Rstatfs" ->
            {<<U32(n[1]), U32(n[2])>> \o [i \in 1 .. 6 |-> U64(n[i + 2])] \o <<U32(n[9])>> :
                n \in Nums(9)}
      [] e = "Rreadlink" -> {<<Str(s)>> : s \in Names}

Tags == {1, 65535}   \* a tag of the TagPool, and P9_NOTAG of Tversion

(* Every call works on a fresh P9Message (each RPC constructs its request *)
(* and DoRequest its response), so nothing carries over from one call to   *)
(* the next: a behaviour is a single call.                                 *)
VARIABLES call,    \* the codec call: its inputs
          result   \* its outcome: status st and what it produced, out

vars == <<call, result>>

Statuses == {"none", "ok", "overflow", "overrun", "name_too_long", "lerror", "error"}

Init ==
    /\ call = [op |-> "none"]
    /\ result = [st |-> "none", out |-> <<>>]

(* The client builds a request in a P9Message of cap bytes.                *)
BuildRequest ==
    call.op = "none" /\ \E r \in Requests, cap \in Msizes, tag \in Tags :
        LET b == Build(cap, MsgType[r[1]], tag, r[2])
        IN /\ call' = [op |-> "build", m |-> r[1], cap |-> cap, tag |-> tag,
                       fields |-> r[2]]
           /\ result' = [st |-> IF b.ok THEN "ok" ELSE "overflow", out |-> b.data]

(* A reply that fits the negotiated msize reaches an RPC expecting e.     *)
ReceiveReply ==
    call.op = "none" /\ \E e \in (DOMAIN Parsers \ {"Rlerror"}) \cup {"Rwalk"}, cap \in Msizes, tag \in Tags,
       size \in StrBufs, maxQids \in 0 .. 2 :
    \E m \in {e, "Rlerror"} :
    \E fields \in IF m = e THEN Replies(e) ELSE {<<U32(n[1])>> : n \in Nums(1)} :
        LET bytes == RefEncode(MsgType[m], tag, fields)
        IN /\ Len(bytes) <= cap
           /\ call' = [op |-> "receive", expect |-> e, m |-> m, cap |-> cap,
                       fields |-> fields, size |-> size, maxQids |-> maxQids]
           /\ result' = Receive(cap, bytes, e, size, maxQids)

(* The open modes the VFS passes: an access mode and any of the flags      *)
(* haiku_to_p9_open_flags tests, with O_CLOEXEC and O_NONBLOCK, whose      *)
(* Haiku values are Linux's O_CREAT and O_EXCL.                            *)
OpenModes ==
    {a + SumSet(fs) : a \in {HaikuO.RDONLY, HaikuO.WRONLY, HaikuO.RDWR},
                      fs \in SUBSET {HaikuO.CREAT, HaikuO.EXCL, HaikuO.TRUNC,
                                     HaikuO.APPEND, HaikuO.CLOEXEC, HaikuO.NONBLOCK}}

(* Inode::Open and Inode::Create convert the VFS's open mode for Tlopen    *)
(* and Tlcreate.                                                           *)
ConvertOpenMode ==
    call.op = "none" /\ \E m \in OpenModes :
        /\ call' = [op |-> "flags", mode |-> m]
        /\ result' = [st |-> "ok", out |-> <<haiku_to_p9_open_flags(m)>>]

(* CheckError and Connect turn the errno of an Rlerror into a status.      *)
ConvertError ==
    call.op = "none" /\ \E e \in Errnos :
        /\ call' = [op |-> "errno", e |-> e]
        /\ result' = [st |-> "ok", out |-> <<p9_error_to_haiku(e)>>]

Next == BuildRequest \/ ReceiveReply \/ ConvertOpenMode \/ ConvertError

Spec == Init /\ [][Next]_vars

-----------------------------------------------------------------------------
(* A Build* method answers B_OK exactly when the reference encoding of its *)
(* request fits in the message, and then the bytes it produced, size      *)
(* field included, are that encoding: the bounds checks of P9Buffer's      *)
(* writes and BuildWrite's payload check neither refuse a request that     *)
(* fits nor let one through that does not.                                 *)
BuildIsWireFormat ==
    call.op = "build" =>
        LET ref == RefEncode(MsgType[call.m], call.tag, call.fields)
        IN /\ result.st = "ok" <=> Len(ref) <= call.cap
           /\ result.st = "ok" => result.out = ref

(* What the caller's limits refuse in a reply: a string that leaves no    *)
(* room for its NUL in the caller's buffer, or more qids than names sent.  *)
Refusable(c) ==
    \/ \E i \in 1 .. Len(c.fields) : c.fields[i].k = "str" /\ Len(c.fields[i].v) >= c.size
    \/ c.m = "Rwalk" /\ c.fields[1].v > c.maxQids

(* An Rlerror whose errno is 0: p9_error_to_haiku makes it B_OK.          *)
ErrnoZero(c) == c.m = "Rlerror" /\ c.fields[1].v = 0

OpenFlagsKeepMeaning ==
    call.op = "flags" =>
        LET p == result.out[1]  h == call.mode IN
        /\ \A a \in {"RDONLY", "WRONLY", "RDWR"} :
              h % 4 = HaikuO[a] => p % 4 = LinuxOpen[a]
        /\ \A f \in {"CREAT", "EXCL", "TRUNC", "APPEND"} :
              Bit(p, LinuxOpen[f]) <=> Bit(h, HaikuO[f])

(* p9_error_to_haiku, through which CheckError and Connect report an       *)
(* Rlerror: each errno the spec's table names becomes a status of the kind *)
(* the table gives.  (For an errno the table does not name the spec says   *)
(* io-error and the code returns B_ERROR; that is not stated here.)        *)
ErrorTableFollowsSpec ==
    call.op = "errno" =>
        \A n \in DOMAIN SpecKind :
           call.e = LinuxErrno[n] => KindOf(result.out[1]) = SpecKind[n]

=============================================================================
