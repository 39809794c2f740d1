------------------------------ MODULE SkFile ------------------------------
(***************************************************************************)
(* The file object of the sleuthkit binding (skfile): skfile_init walks   *)
(* the file's blocks once with getblocks_walk_callback to build the block  *)
(* list and the size; read() serves bytes from readptr through the         *)
(* metadata layer's file-read primitives, optionally extended into slack   *)
(* and, past that, by a raw read of the device ("overread"); seek() moves  *)
(* readptr.                                                                *)
(*                                                                         *)
(* Returned bytes are abstracted to segments: a piece of the buffer, the   *)
(* buffer offset it was written at, and where its bytes came from (a file  *)
(* offset through the file-read primitive, or a device offset through      *)
(* tsk_fs_read_random).                                                    *)
(***************************************************************************)
EXTENDS Integers, Sequences, SequencesExt, InodeStr

CONSTANTS
    Attrs,        \* per attribute: inode, type, id, and the (addr, size,
                  \* res) calls file_walk makes for it
    InodeArgs,    \* inode string arguments: [s, from], where from holds the
                  \* skinode s was rendered from, if any
    BlockSize,    \* fs->block_size
    DeviceBytes,  \* bytes tsk_fs_read_random can read before the end
    SizeArgIsInt, \* LP64 little-endian build: "i" stores an int into the low
                  \* half of the Py_ssize_t readlen (sk.c:1214, 1221)
    IntWidth,     \* bits in a C int (scaled so TLC's integers hold 2^IntWidth)
    Faults,       \* the read primitives may fail (-1) or return short
    ReadSizes,    \* size arguments a caller passes to read()
    Offsets,      \* offset arguments a caller passes to seek()
    MaxPtr,       \* bound on |readptr| reached through seek()
    Overreads,    \* overread arguments (1 stands for True, i.e. 256 bytes)
    None          \* model value: read() called without a size

Whences == {0, 1, 2, 3}     \* 3: an invalid whence

VARIABLES
    blocks,     \* self->blocks: addresses of the non-resident blocks, in order
    size,       \* self->size
    readptr,    \* self->readptr
    last,       \* the last read(): its arguments, readptr before it, result
    opened      \* the inode argument, and the inode, self->type and self->id
                \* skfile_init looked up with it

vars == <<blocks, size, readptr, last, opened>>

Max2(a, b) == IF a > b THEN a ELSE b
Min2(a, b) == IF a < b THEN a ELSE b

-----------------------------------------------------------------------------
(* skfile_init: the inode argument, and the file_walk pass with           *)
(* getblocks_walk_callback.                                                *)

\* The attributes fs->file_walk may walk for (inode, type, id): with id 0
\* the TSK_FS_FILE_FLAG_NOID flag lets it take any id of that type.
Walked(p) == {f \in Attrs : f.inode = p.inode /\ f.type = p.type /\ (p.id = 0 \/ f.id = p.id)}

\* A non-resident callback adds a block; every callback with size > 0 adds
\* its size to self->size.
BlocksOf(cbs) ==
    LET kept == SelectSeq(cbs, LAMBDA c : c.size > 0 /\ ~c.res)
    IN [i \in DOMAIN kept |-> kept[i].addr]

SizeOf(cbs) ==
    FoldLeft(LAMBDA acc, c : IF c.size > 0 THEN acc + c.size ELSE acc, 0, cbs)

-----------------------------------------------------------------------------
(* read() and seek(): the ceiling and the size argument.                   *)

\* Mutant: overread=True taken as one byte, not 256.
MaxSizeRawOverread(slack, overread) ==
    LET base == IF slack THEN Max2(size, Len(blocks) * BlockSize) ELSE size
    IN IF slack /\ overread # 0 THEN base + overread ELSE base

\* maxsize (sk.c:1230-1245, repeated at 1341-1356).
MaxSize(slack, overread) ==
    LET base == IF slack THEN Max2(size, Len(blocks) * BlockSize) ELSE size
    IN IF slack /\ overread # 0
       THEN base + (IF overread = 1 THEN 256 ELSE overread)
       ELSE base

\* The value readlen holds after PyArg_ParseTupleAndKeywords: -1 when the
\* size is omitted; on an LP64 little-endian build an int n lands in the low
\* half of a Py_ssize_t holding -1, so the result is n mod 2^IntWidth minus
\* 2^IntWidth, whatever n is.
ParsedReadLen(arg) ==
    IF arg = None THEN -1
    ELSE IF SizeArgIsInt THEN (arg % (2 ^ IntWidth)) - 2 ^ IntWidth
    ELSE arg

\* Mutant: the clamp of a negative readlen to 0 dropped.
ReadLenUnclamped(arg, maxsize) ==
    LET n == ParsedReadLen(arg)
    IN IF n < 0 \/ readptr + n > maxsize THEN maxsize - readptr ELSE n

\* readlen adjusted (sk.c:1248-1251).
ReadLen(arg, maxsize) ==
    LET n == ParsedReadLen(arg)
        fitted == IF n < 0 \/ readptr + n > maxsize THEN maxsize - readptr ELSE n
    IN Max2(fitted, 0)

-----------------------------------------------------------------------------
(* The metadata layer's read primitives (environment).                     *)

\* tsk_fs_read_file[_noid][_slack]: the bytes of [readptr, readptr+n) that
\* lie below the file's end (its slack end when slack is set); with Faults,
\* also -1 or fewer bytes.
ContentRead(slack, n) ==
    LET stop == IF slack THEN Max2(size, Len(blocks) * BlockSize) ELSE size
        full == Max2(0, Min2(n, stop - readptr))
    IN {full} \cup (IF Faults THEN {-1} \cup 0..full ELSE {})

\* tsk_fs_read_random of n bytes at device offset off.
DeviceRead(off, n) ==
    LET full == Max2(0, Min2(n, DeviceBytes - off))
    IN {full} \cup (IF Faults THEN {-1} \cup 0..full ELSE {})

-----------------------------------------------------------------------------
(* The overread (sk.c:1275-1305).                                          *)

\* Mutant: to_read not cut to what the content read left of readlen.
OverreadLenFull(readlen, written, overread) == overread

\* to_read: what is left of readlen, at most the overread.
OverreadLen(readlen, written, overread) == Min2(readlen - written, overread)

\* Mutant: readptr past the blocks' end not taken into account.
OverreadStartNoSkip(ptr) ==
    LET lastBlock == IF blocks = <<>> THEN 0 ELSE Last(blocks)
    IN (lastBlock + 1) * BlockSize

\* start: the byte after the last block in the list, moved on by how far
\* readptr lies past the blocks' end.
OverreadStart(ptr) ==
    LET lastBlock == IF blocks = <<>> THEN 0 ELSE Last(blocks)
        count == Len(blocks)
    IN (lastBlock + 1) * BlockSize
       + (IF ptr > count * BlockSize THEN ptr - count * BlockSize ELSE 0)

Seg(src, at, from, n) == [src |-> src, at |-> at, from |-> from, len |-> n]

\* One read(size=arg, slack, overread): the whole of skfile_read.
Read(arg, slack, overread) ==
    LET maxsize == MaxSize(slack, overread)
        readlen == ReadLen(arg, maxsize)
        ov == IF overread = 1 THEN 256 ELSE overread
        Done(written, segs) ==
            /\ last' = [arg |-> arg, slack |-> slack, overread |-> overread,
                        ptr |-> readptr, readlen |-> readlen,
                        ok |-> written >= 0, written |-> written, segs |-> segs]
            /\ readptr' = readptr + readlen
    IN /\ \/ readlen = 0 /\ Done(0, <<>>)
          \/ /\ readlen # 0
             /\ \E w \in ContentRead(slack, readlen) :
                  LET cseg == IF w > 0 THEN <<Seg("file", 0, readptr, w)>> ELSE <<>>
                  IN IF slack /\ overread # 0 /\ w < readlen
                     THEN LET toRead == OverreadLen(readlen, w, ov)
                              start == OverreadStart(readptr)
                          IN \E n \in DeviceRead(start, toRead) :
                               IF n > 0
                               THEN Done(w + n, cseg \o <<Seg("dev", w, start, n)>>)
                               ELSE Done(w, cseg)
                     ELSE Done(w, cseg)
       /\ UNCHANGED <<blocks, size, opened>>

\* seek(offset, whence, slack, overread); whence 3 raises and changes nothing.
Seek(offset, whence, slack, overread) ==
    LET target == CASE whence = 0 -> offset
                    [] whence = 1 -> readptr + offset
                    [] whence = 2 -> MaxSize(slack, overread) + offset
                    [] OTHER -> readptr
    IN /\ target \in -MaxPtr..MaxPtr
       /\ readptr' = target
       /\ UNCHANGED <<blocks, size, last, opened>>

NoRead == [arg |-> None, slack |-> FALSE, overread |-> 0, ptr |-> 0,
           readlen |-> 0, ok |-> TRUE, written |-> 0, segs |-> <<>>]

\* skfile_init after a successful parse, inode_lookup and file_walk.
Init ==
    /\ \E a \in InodeArgs, f \in Attrs :
          /\ ParseInodeStr(a.s).ok
          /\ f \in Walked(ParseInodeStr(a.s))
          /\ opened = [arg |-> a, inode |-> ParseInodeStr(a.s).inode,
                       type |-> ParseInodeStr(a.s).type, id |-> ParseInodeStr(a.s).id]
          /\ blocks = BlocksOf(f.cbs)
          /\ size = SizeOf(f.cbs)
    /\ readptr = 0
    /\ last = NoRead

Next ==
    \/ \E a \in ReadSizes \cup {None}, s \in BOOLEAN, o \in Overreads :
          Read(a, s, o)
    \/ \E off \in Offsets, wh \in Whences, s \in BOOLEAN, o \in Overreads :
          Seek(off, wh, s, o)

Spec == Init /\ [][Next]_vars

-----------------------------------------------------------------------------
(* Properties.                                                             *)

Segment == [src: {"file", "dev"}, at: Int, from: Int, len: Nat \ {0}]

TypeOK ==
    /\ blocks \in Seq(Nat)
    /\ size \in Nat
    /\ readptr \in Int
    /\ last.readlen \in Nat
    /\ last.written \in Int
    /\ last.segs \in Seq(Segment)
    /\ opened.type \in 0..(2 ^ UIntWidth - 1)
    /\ opened.id \in 0..(2 ^ UIntWidth - 1)

\* The length a read returns by the documented rule: the ceiling is the
\* size, or the slack end max(size, blocks * block size), plus 256 bytes
\* for overread=True or n bytes for overread=n; a size that is omitted or
\* reaches past the ceiling is cut to it, and past it nothing is returned.
DocumentedLen(r) ==
    LET ceiling == (IF r.slack THEN Max2(size, Len(blocks) * BlockSize) ELSE size)
                   + (IF r.slack /\ r.overread = 1 THEN 256
                      ELSE IF r.slack THEN r.overread ELSE 0)
        want == IF r.arg = None THEN ceiling - r.ptr ELSE Min2(r.arg, ceiling - r.ptr)
    IN Max2(want, 0)

\* skfile_read, its readlen adjustment and its overread together return
\* exactly the documented number of bytes whenever the primitives serve the
\* whole request: never more than the size asked for, and nothing lost
\* between the content read and the overread.
ReadDelivers == last # NoRead /\ last.ok => last.written = DocumentedLen(last)

\* The buffer offset p = readptr + at of the file that an overread segment
\* stands for is read from the device right after the file's last block:
\* (last block + 1) * block size + (p - blocks * block size).  This is what
\* the overread promises (the next block on the filesystem, at the same
\* distance past the file's end), for any readptr a seek left.
OverreadAligned ==
    \A i \in DOMAIN last.segs :
        last.segs[i].src = "dev" =>
            last.segs[i].from =
                ((IF blocks = <<>> THEN 0 ELSE Last(blocks)) + 1) * BlockSize
                + (last.ptr + last.segs[i].at - Len(blocks) * BlockSize)

\* The inode, type and id of an inode record or argument.
Ref(x) == [inode |-> x.inode, type |-> x.type, id |-> x.id]

\* skfile_init opens what an inode string names: a string in the grammar
\* of spec 4.3 ("<inode>[-<type>[-<id>]]", a trailing allocation marker
\* aside) sets the inode looked up, self->type and self->id to its groups,
\* and str() of an skinode opens that skinode's attribute again.  The
\* strtoull/strtoul scan of parse_inode_str must stop at the right dash
\* for every group, leading zeros and the "*" of a reallocated skinode
\* included.
OpensNamedAttribute ==
    /\ InGrammar(Unmarked(opened.arg.s)) => Ref(opened) = Ref(SpecParse(Unmarked(opened.arg.s)))
    /\ \A r \in opened.arg.from : Ref(opened) = Ref(r)

\* The bytes a read wrote lie end to end from the start of the returned
\* buffer, and within the readlen bytes it allocated.
BufferTiled ==
    /\ \A i \in DOMAIN last.segs :
          last.segs[i].at = IF i = 1 THEN 0 ELSE last.segs[i-1].at + last.segs[i-1].len
    /\ \A i \in DOMAIN last.segs :
          last.segs[i].at + last.segs[i].len <= last.readlen

=============================================================================
