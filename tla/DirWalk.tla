------------------------------ MODULE DirWalk ------------------------------
(***************************************************************************)
(* The lazy directory walk of the sleuthkit binding: skfs.walk() builds a  *)
(* skfs_walkiter whose walklist is a stack of directories still to visit;  *)
(* every next() pops one directory, lists it through the metadata layer's  *)
(* dent_walk with listdent_walk_callback_dent, splits the children into    *)
(* dirlist and filelist, and pushes the allocated directories.             *)
(*                                                                         *)
(* The metadata layer (sleuthkit's dent_walk) is the environment: for a    *)
(* directory inode d, Listing[d] is the sequence of entries it reports,    *)
(* and a directory in Unreadable fails after reporting any prefix of them. *)
(* Names are sequences of one-character strings so the code's character   *)
(* tests on them can be stated; paths are built the same way.              *)
(***************************************************************************)
EXTENDS Naturals, Sequences, SequencesExt, Bitwise

CONSTANTS
    Volumes,      \* the filesystems a walk may run on: [ntfs, listing, root, args]
    Unreadable,   \* directory inodes whose dent_walk sets tsk_errno
    NotGiven,     \* model value: an optional argument left out
    MaxSteps,     \* bound on the number of next() calls that yield a step
    NoFsi,        \* model value: an fs_dent without inode (fs_dent->fsi == NULL)
    NoData        \* model value: the NULL fs_data passed to listdent_add_dent

\* Values of sleuthkit's TSK_FS_DENT_TYPE_ENUM (the d_type of a dent).
DT_FIFO == 1
DT_CHR == 2
DT_DIR == 4
DT_BLK == 6
DT_REG == 8
DT_LNK == 10
DT_SOCK == 12
DentTypes == {0, DT_FIFO, DT_CHR, DT_DIR, DT_BLK, DT_REG, DT_LNK, DT_SOCK}

\* NTFS attribute type codes.
ATYPE_DATA == 128
ATYPE_IDXROOT == 144

Attr == [type : {16, ATYPE_DATA, ATYPE_IDXROOT}, id : 0..3,
         inuse : BOOLEAN, name : {"$Data", "$I30", "ads"}]

ASSUME ListingWellFormed ==
    \A v \in Volumes : \A d \in DOMAIN v.listing : \A i \in 1..Len(v.listing[d]) :
        LET dent == v.listing[d][i] IN
        /\ dent.entType \in DentTypes
        /\ dent.fsi = NoFsi \/ \A j \in 1..Len(dent.fsi.attrs) :
                                  dent.fsi.attrs[j] \in Attr

VARIABLES
    start,      \* the root entry skfs_walkiter_init pushed
    walklist,   \* self->walklist: the stack, head first
    flags,      \* self->flags: [alloc, unalloc] passed to dent_walk
    emitted,    \* the (root, dirlist, filelist) results returned so far
    finished,   \* next() has returned NULL (StopIteration)
    vol         \* the filesystem self->skfs has open

vars == <<start, walklist, flags, emitted, finished, vol>>

IsNtfs == vol.ntfs      \* (fs->ftype & TSK_FS_INFO_TYPE_FS_MASK) == NTFS
Listing == vol.listing  \* directory inode -> entries dent_walk reports, in order
RootInum == vol.root    \* fs->root_inum
WalkArgs == vol.args    \* [path, inode] arguments of walk(): path may be NotGiven,
                        \* inode is 0 when not given (skfs_walk's default)

DirInodes == DOMAIN Listing
Inodes == DirInodes \cup {0, RootInum} \cup {a.inode : a \in WalkArgs} \cup
          UNION {{Listing[d][i].inode : i \in DOMAIN Listing[d]} : d \in DirInodes}

-----------------------------------------------------------------------------
(* Helpers on names.                                                       *)

\* TSK_FS_ISDOT: the name is "." or "..".
IsDot(name) == name \in {<<".">>, <<".", ".">>}

\* The test at sk.c:179: name[0] == '.' && name[1] && name[2] == '\0',
\* i.e. exactly the two-character names starting with '.'.
IsTwoCharDotName(name) == Len(name) = 2 /\ name[1] = "."

\* p->path for a promoted directory: "/name" under "/", else "parent/name".
JoinPath(parent, name) ==
    IF parent = <<"/">> THEN <<"/">> \o name ELSE parent \o <<"/">> \o name

-----------------------------------------------------------------------------
(* listdent_add_dent: the struct dentwalk built for one reported entry.    *)

\* Printed with ":name" unless it is the default $Data or $I30 stream.
StreamSuffix(a) ==
    IF a # NoData /\ \/ a.type = ATYPE_DATA /\ a.name # "$Data"
                     \/ a.type = ATYPE_IDXROOT /\ a.name # "$I30"
    THEN <<":", a.name>> ELSE <<>>

\* 1 allocated, 2 unallocated name of an allocated inode, 0 unallocated.
DentAlloc(dent) ==
    IF ~dent.nameUnalloc THEN 1
    ELSE IF dent.fsi # NoFsi /\ dent.fsi.alloc THEN 2 ELSE 0

AddDent(dent, entType, a) ==
    [path    |-> dent.name \o StreamSuffix(a),
     type    |-> IF a = NoData THEN 0 ELSE a.type,
     id      |-> IF a = NoData THEN 0 ELSE a.id,
     alloc   |-> DentAlloc(dent),
     inode   |-> dent.inode,
     entType |-> entType]

-----------------------------------------------------------------------------
(* listdent_walk_callback_dent: the entries added for one fs_dent.         *)

\* The attributes the while loop visits: it stops at the first one that
\* is not TSK_FS_DATA_INUSE.
InUseRun(attrs) ==
    LET stops == {i \in 1..Len(attrs) : ~attrs[i].inuse}
    IN IF stops = {} THEN attrs ELSE SubSeq(attrs, 1, Min(stops) - 1)

\* Mutant: the stream added with the directory's own ent_type.
DataEntTypeKept(dent) == dent.entType

\* The ent_type a $Data stream is added with: a directory's stream is
\* rewritten to TSK_FS_DENT_TYPE_REG for the add (sk.c:174-193).
DataEntType(dent) == IF dent.fsi.dirMode THEN DT_REG ELSE dent.entType

\* Mutant: the trailing add made unconditional.
TrailingAlways(run) == TRUE

\* printed == 0: no $Data or index-root attribute in the run (printed is
\* set for them even when the add is then skipped).
Unprinted(run) == \A i \in DOMAIN run : run[i].type \notin {ATYPE_DATA, ATYPE_IDXROOT}

\* One entry per $Data stream (but none for a stream of a two-character
\* dot name of a directory) and per $I30-type index root (but none for
\* "." or ".."), in attribute order; then, only when nothing was printed,
\* one entry with the attribute the loop stopped at (NULL after the last).
NtfsEntries(dent) ==
    LET attrs == dent.fsi.attrs
        run == InUseRun(attrs)
        stop == IF Len(run) < Len(attrs) THEN attrs[Len(run) + 1] ELSE NoData
        PerAttr(a) ==
            CASE a.type = ATYPE_DATA ->
                    IF dent.fsi.dirMode /\ IsTwoCharDotName(dent.name) THEN <<>>
                    ELSE <<AddDent(dent, DataEntType(dent), a)>>
              [] a.type = ATYPE_IDXROOT ->
                    IF IsDot(dent.name) THEN <<>>
                    ELSE <<AddDent(dent, dent.entType, a)>>
              [] OTHER -> <<>>
    IN FlattenSeq([i \in 1..Len(run) |-> PerAttr(run[i])])
       \o (IF Unprinted(run) THEN <<AddDent(dent, dent.entType, stop)>> ELSE <<>>)

CallbackDent(dent) ==
    IF IsNtfs /\ dent.fsi # NoFsi THEN NtfsEntries(dent)
    ELSE IF IsDot(dent.name) THEN <<>>
    ELSE <<AddDent(dent, dent.entType, NoData)>>

-----------------------------------------------------------------------------
(* dent_walk (environment): the entries shown under the ALLOC / UNALLOC    *)
(* flags, and how many of them reach the callback before an error.         *)

Visible(dent) == IF dent.nameUnalloc THEN flags.unalloc ELSE flags.alloc

Shown(d) == IF d \in DirInodes THEN SelectSeq(Listing[d], Visible) ELSE <<>>

Delivered(d, n) ==
    IF d \in DirInodes \ Unreadable THEN {n} ELSE 0..n

-----------------------------------------------------------------------------
(* PathResolver: lookup_inode and lookup_path.                             *)

\* What root->path holds when lookup_path found no name: talloc leaves the
\* struct uninitialised.  A path no name of the volume has.
UnsetPath == <<"?">>

\* The allocated names of directory d, as dent_walk with ALLOC reports them.
AllocNames(d) ==
    IF d \in DirInodes THEN SelectSeq(Listing[d], LAMBDA e : ~e.nameUnalloc)
    ELSE <<>>

\* dent_walk(fs, root_inum, RECURSE|ALLOC) as lookup_path_cb sees it:
\* each allocated name with fs_dent->path, the path of its directory
\* relative to the root with a trailing "/", and each directory other than
\* "." and ".." followed by its own walk.
RECURSIVE TreeWalk(_, _)
TreeWalk(d, rel) ==
    LET es == AllocNames(d)
        Below(e) == IF e.entType = DT_DIR /\ ~IsDot(e.name)
                    THEN TreeWalk(e.inode, rel \o e.name \o <<"/">>) ELSE <<>>
    IN FlattenSeq([i \in DOMAIN es |-> <<[rel |-> rel, dent |-> es[i]]>> \o Below(es[i])])

DentWalk == TreeWalk(RootInum, <<>>)

\* Mutant: fs_dent->path left out of the name.
LookupPathCbNoDir(item) == <<"/">> \o item.dent.name

\* lookup_path_cb: talloc_asprintf("/%s%s", fs_dent->path, fs_dent->name).
LookupPathCb(item) == <<"/">> \o item.rel \o item.dent.name

\* lookup_path: "/" for the root; otherwise the first name of the walk with
\* the inode (the NTFS ntfs_find_file search has the same first-match
\* result).  A directory that fails to list part-way ends the walk: if
\* that can happen before the match, or there is no match, the path stays
\* unset, and skfs_walkiter_init ignores the return value.
LookupPath(n) ==
    IF n = RootInum THEN {<<"/">>}
    ELSE LET hits == {i \in DOMAIN DentWalk : DentWalk[i].dent.inode = n}
             k == IF hits = {} THEN Len(DentWalk) + 1 ELSE Min(hits)
             cut == \/ RootInum \in Unreadable
                    \/ \E i \in 1..(k - 1) : /\ DentWalk[i].dent.entType = DT_DIR
                                             /\ ~IsDot(DentWalk[i].dent.name)
                                             /\ DentWalk[i].dent.inode \in Unreadable
         IN (IF hits = {} THEN {} ELSE {LookupPathCb(DentWalk[k])})
            \cup (IF hits = {} \/ cut THEN {UnsetPath} ELSE {})

\* Every allocated name below directory d with its absolute path, d's own
\* path being p (with its trailing "/").
RECURSIVE NamesBelow(_, _)
NamesBelow(d, p) ==
    LET es == AllocNames(d) IN
    UNION {{[path |-> p \o es[i].name, inode |-> es[i].inode]} \cup
           (IF es[i].entType = DT_DIR /\ ~IsDot(es[i].name)
            THEN NamesBelow(es[i].inode, p \o es[i].name \o <<"/">>) ELSE {})
           : i \in DOMAIN es}

AllNames == NamesBelow(RootInum, <<"/">>)

\* lookup_inode: tsk_fs_ifind_path descends the path name by name; the
\* inode it names, the root for "/", 0 when no name matches.
LookupInode(p) ==
    IF p = <<"/">> THEN RootInum
    ELSE LET named == {x.inode : x \in {y \in AllNames : y.path = p}}
         IN IF named = {} THEN 0 ELSE CHOOSE n \in named : TRUE

-----------------------------------------------------------------------------
(* skfs_walkiter_iternext.                                                 *)

\* dwtmp->ent_type & TSK_FS_DENT_TYPE_DIR (sk.c:984).
IsDirEntry(e) == (e.entType & DT_DIR) # 0

\* Mutant of Promotable: reallocated names are descended into too.
PromotableRealloc(e) == e.alloc # 0

\* dwtmp->alloc == 1 (sk.c:995).
Promotable(e) == e.alloc = 1

\* Mutants of PushDirs: list_add_tail instead of list_move to the head;
\* list_del(dw) forgotten.
PushDirsAtTail(dw, promoted, rest) == rest \o promoted
PushDirsKeepingDw(dw, promoted, rest) == Reverse(promoted) \o <<dw>> \o rest

\* list_move of each promoted entry to the head, then list_del(dw):
\* the last promoted directory ends on top, dw is gone.
PushDirs(dw, promoted, rest) == Reverse(promoted) \o rest

Step(dw, k) ==
    LET dwlist == FlattenSeq([i \in 1..k |-> CallbackDent(Shown(dw.inode)[i])])
        dirs == SelectSeq(dwlist, IsDirEntry)
        files == SelectSeq(dwlist, LAMBDA e : ~IsDirEntry(e))
        pushable == SelectSeq(dirs, Promotable)
        promoted == [i \in 1..Len(pushable) |->
                        [pushable[i] EXCEPT !.path = JoinPath(dw.path, @)]]
    IN /\ walklist' = PushDirs(dw, promoted, Tail(walklist))
       /\ emitted' = Append(emitted, [root |-> dw, dirs |-> dirs,
                                      files |-> files])

\* Mutant: the listing error propagates and ends the iteration.
WalkNextAbortOnError ==
    /\ walklist # <<>>
    /\ Len(emitted) < MaxSteps
    /\ LET dw == Head(walklist) IN
       \E k \in Delivered(dw.inode, Len(Shown(dw.inode))) :
          IF dw.inode \in DirInodes \ Unreadable
          THEN Step(dw, k) /\ UNCHANGED finished
          ELSE walklist' = <<>> /\ finished' = TRUE /\ UNCHANGED emitted
    /\ UNCHANGED <<start, flags, vol>>

\* One next() that yields: pop dw, list it (an error is reset and the
\* entries reported before it are kept), classify, push, return.
WalkNext ==
    /\ walklist # <<>>
    /\ Len(emitted) < MaxSteps
    /\ LET dw == Head(walklist) IN
       \E k \in Delivered(dw.inode, Len(Shown(dw.inode))) : Step(dw, k)
    /\ UNCHANGED <<start, flags, finished, vol>>

\* next() on an empty stack returns NULL.
WalkEnd ==
    /\ walklist = <<>>
    /\ finished' = TRUE
    /\ UNCHANGED <<start, walklist, flags, emitted, vol>>

\* skfs_walk, then skfs_walkiter_init: skfs_walk always passes inode (0
\* unless given) and passes path only when given; the flags come from
\* alloc/unalloc.  Inode 0 with no path is the SyntaxError exit (modelled in
\* SkFs).  The inode is looked up from the path when 0, the path from the
\* inode when not given, and neither lookup's failure is checked.
Init ==
    /\ vol \in Volumes
    /\ flags \in {f \in [alloc : BOOLEAN, unalloc : BOOLEAN] :
                     f.alloc \/ f.unalloc}
    /\ \E a \in WalkArgs :
          LET ino == IF a.inode = 0 THEN LookupInode(a.path) ELSE a.inode
          IN /\ ~(a.inode = 0 /\ a.path = NotGiven)
             /\ \E p \in IF a.path = NotGiven THEN LookupPath(ino) ELSE {a.path} :
                   start = [path |-> p, type |-> 0, id |-> 0, alloc |-> 1,
                            inode |-> ino, entType |-> DT_DIR]
    /\ walklist = <<start>>
    /\ emitted = <<>>
    /\ finished = FALSE

Next == WalkNext \/ WalkEnd

\* The consumer iterates the generator to exhaustion (a for loop).
Spec == Init /\ [][Next]_vars /\ WF_vars(Next)

-----------------------------------------------------------------------------
(* Properties.                                                             *)

Entry == [path : Seq(STRING), type : {0, 16, ATYPE_DATA, ATYPE_IDXROOT},
          id : 0..3, alloc : 0..2, inode : Inodes, entType : DentTypes]

\* The state has its types, and only allocated entries are ever on the
\* stack (the steal at sk.c:995-1003 is the only push).
TypeOK ==
    /\ vol \in Volumes
    /\ start \in Entry
    /\ flags \in [alloc : BOOLEAN, unalloc : BOOLEAN]
    /\ walklist \in Seq(Entry)
    /\ \A i \in DOMAIN walklist : walklist[i].alloc = 1
    /\ emitted \in Seq([root : Entry, dirs : Seq(Entry), files : Seq(Entry)])
    /\ finished \in BOOLEAN

\* What the spec calls a subdirectory to descend into: a directory entry
\* with an allocated name that is not "." or "..".
SpecSubdir(dent) ==
    dent.entType = DT_DIR /\ ~dent.nameUnalloc /\ ~IsDot(dent.name)

\* The directories a fault-tolerant walk must reach: everything reachable
\* from the start through shown subdirectories of readable directories.
MustVisit ==
    LET Kids(d) == {Shown(d)[i].inode : i \in {j \in DOMAIN Shown(d) :
                                                  SpecSubdir(Shown(d)[j])}}
        RECURSIVE Closure(_)
        Closure(S) ==
            LET T == S \cup UNION {Kids(d) : d \in S \cap (DirInodes \ Unreadable)}
            IN IF T = S THEN S ELSE Closure(T)
    IN Closure({start.inode})

VisitedInodes == {emitted[i].root.inode : i \in DOMAIN emitted}

\* Fault containment (sk.c:958-964): once next() has signalled the end,
\* every directory reachable through readable directories was a step's
\* root, although some directories failed to list part-way.
FaultContainment == finished => MustVisit \subseteq VisitedInodes

\* No descent into unallocated entries (sk.c:995): every step after the
\* first is rooted at a directory an earlier step reported, with alloc 1,
\* under the path that earlier step's root leads to.
NoDescentIntoUnallocated ==
    \A j \in 2..Len(emitted) : \E i \in 1..(j - 1) :
        \E e \in ToSet(emitted[i].dirs) :
            /\ e.alloc = 1
            /\ e.inode = emitted[j].root.inode
            /\ JoinPath(emitted[i].root.path, e.path) = emitted[j].root.path

\* Reference order over the tree the walk saw: depth first from the start,
\* the allocated subdirectories a directory's step reported taken
\* latest-listed first.
StepOf(ino) == {i \in DOMAIN emitted : emitted[i].root.inode = ino}

RECURSIVE PreOrder(_)
PreOrder(ino) ==
    IF StepOf(ino) = {} THEN <<ino>>
    ELSE LET kids == Reverse(SelectSeq(emitted[Min(StepOf(ino))].dirs,
                                       LAMBDA e : e.alloc = 1))
         IN <<ino>> \o FlattenSeq([i \in 1..Len(kids) |-> PreOrder(kids[i].inode)])

\* The walk order (list_move to the head, sk.c:1003, list_del at 1043):
\* the roots of a finished walk are exactly the depth-first order of the
\* directories it listed, also when some listings failed part-way.
DepthFirstOrder ==
    finished =>
        [i \in DOMAIN emitted |-> emitted[i].root.inode] = PreOrder(start.inode)

\* Paths name what is listed: every step whose root path was set (by the
\* walk() argument, by lookup_path in skfs_walkiter_init, or by the joins
\* of promoted subdirectories onto their parents' paths at sk.c:997-1001)
\* lists the directory that path resolves to on the volume.  Paths joined
\* below an unset start path carry its garbage and are left out.
PathsResolve ==
    \A i \in DOMAIN emitted :
        ~IsPrefix(UnsetPath, emitted[i].root.path) =>
            LookupInode(emitted[i].root.path) = emitted[i].root.inode

\* The subdirectories the spec descends into, by inode (none for an inode
\* that is not a directory).
SpecChildren ==
    [d \in Inodes |-> {Shown(d)[i].inode : i \in {j \in DOMAIN Shown(d) :
                                                  SpecSubdir(Shown(d)[j])}}]

Abs == INSTANCE WalkSpec WITH
    pending <- {walklist[i].inode : i \in DOMAIN walklist},
    visited <- VisitedInodes,
    children <- SpecChildren,
    done <- finished

\* The stack walk implements the abstract walk: every next() visits a
\* waiting directory never visited before, replaces it by all its
\* subdirectories (some, if its listing failed), and StopIteration comes
\* exactly when nothing waits.
WalkRefines == Abs!Spec

\* The named data streams a reported name carries in use (the default
\* $Data stream is not suffixed).
NamedStreams(dent) ==
    IF dent.fsi = NoFsi THEN {}
    ELSE {a \in ToSet(dent.fsi.attrs) : a.inuse /\ a.type = ATYPE_DATA /\ a.name # "$Data"}

\* Streams as files (spec 4.5 step 4, sk.c:151-212): on NTFS, a step that
\* listed its directory in full reports every named stream of every
\* name other than "." and ".." as a file entry "name:stream" of that
\* attribute, and every directory name as a directory entry of its own,
\* whatever the mix of $Data, index-root and stale attributes.
StreamsAsFiles ==
    \A i \in DOMAIN emitted :
        LET d == emitted[i].root.inode IN
        IsNtfs /\ d \in DirInodes \ Unreadable =>
            \A dent \in ToSet(Shown(d)) : ~IsDot(dent.name) =>
                /\ \A a \in NamedStreams(dent) :
                      \E e \in ToSet(emitted[i].files) :
                          e.path = dent.name \o <<":", a.name>> /\ e.inode = dent.inode /\ e.id = a.id
                /\ dent.entType = DT_DIR =>
                      \E e \in ToSet(emitted[i].dirs) : e.path = dent.name /\ e.inode = dent.inode

\* The spec (4.5 step 4): synthetic "." and ".." entries are skipped, and
\* a "name:stream" entry stands for a named stream the name carries.  So
\* every suffixed entry a step reports is a stream in use of a name other
\* than "." and ".." of the listed directory.
StreamEntriesNamed ==
    \A i \in DOMAIN emitted :
        \A e \in ToSet(emitted[i].dirs \o emitted[i].files) :
            Len(e.path) >= 2 /\ e.path[Len(e.path) - 1] = ":" =>
                \E dent \in ToSet(Shown(emitted[i].root.inode)) :
                    /\ ~IsDot(dent.name)
                    /\ e.path = dent.name \o <<":", Last(e.path)>>
                    /\ \E a \in NamedStreams(dent) : a.name = Last(e.path)

\* The spec (4.5 step 5): dir_list holds the entries of kind Directory.
DirListOnlyDirectories ==
    \A i \in DOMAIN emitted : \A e \in ToSet(emitted[i].dirs) : e.entType = DT_DIR

=============================================================================
