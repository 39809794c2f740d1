------------------------------- MODULE SkFs -------------------------------
(***************************************************************************)
(* Ownership of the C resources behind the sk module's objects: the image *)
(* (pyfile img_info) and sleuthkit filesystem an skfs opens, the           *)
(* fs_inode each skfile holds, the skfs object itself (kept alive by       *)
(* reference counts from its files and walkers), and the image and        *)
(* partition handles mmls opens.                                           *)
(*                                                                         *)
(* heap[x] is "none" (never allocated), "live" or "freed".  Every step     *)
(* records in bad the handles it dereferenced or freed while they were not *)
(* live.  An uninitialized pointer field (PyObject_New does not zero the  *)
(* object) holds a value of Garbage: Null, or Wild, a handle that is never *)
(* allocated.                                                              *)
(***************************************************************************)
EXTENDS Naturals, FiniteSets

CONSTANTS
    Files,        \* skfile objects skfs.open() may create
    Walkers,      \* skfs_walkiter objects skfs.walk() may create
    Garbage,      \* values an uninitialized pointer field may hold
    InitFaults,   \* pyfile_open, tsk_fs_open, tsk_mm_open and part_walk may fail
    LookupFaults, \* a path or inode to open may not resolve
    Contract,     \* the caller closes the skfs once, after dropping its
                  \* files and walkers, calls nothing on it after that, and
                  \* drops it only after closing
    Null,         \* model value: the NULL pointer
    Wild          \* model value: a pointer to nothing ever allocated

\* Handles: the skfs object's memory, skfs->img, skfs->fs, mmls's img and
\* mm, and each file's fs_inode.
SkfsObj == <<"skfsobj">>
Img == <<"img">>
Fs == <<"fs">>
MmImg == <<"mmimg">>
Mm == <<"mm">>
Ino(f) == <<"ino", f>>
Mem == {SkfsObj, Img, Fs, MmImg, Mm, Wild} \cup {Ino(f) : f \in Files}

VARIABLES
    heap,       \* Mem -> {"none", "live", "freed"}
    bad,        \* handles the last step used while not live
    skfs,       \* the skfs object: state, refcount, user's reference, img, fs
    files,      \* Files -> state and whether the user holds it
    walkers,    \* Walkers -> state and whether the user holds it
    closed,     \* the user has called skfs.close()
    mmlsDone    \* mmls has been called (bound: once)

vars == <<heap, bad, skfs, files, walkers, closed, mmlsDone>>

States == {"unborn", "alive", "dead"}

-----------------------------------------------------------------------------
(* Effects on the heap, composed within one step.                          *)

Begin == [heap |-> heap, bad |-> {}]
Use(e, hs) == [e EXCEPT !.bad = @ \cup {x \in hs : e.heap[x] # "live"}]
Free(e, hs) == [heap |-> [x \in Mem |-> IF x \in hs THEN "freed" ELSE e.heap[x]],
                bad |-> e.bad \cup {x \in hs : e.heap[x] # "live"}]
Alloc(e, hs) == [e EXCEPT !.heap = [x \in Mem |-> IF x \in hs THEN "live" ELSE @[x]]]
Commit(e) == heap' = e.heap /\ bad' = e.bad

\* free() or DECREF of an uninitialized pointer g: nothing if it is NULL.
FreeGarbage(e, g) == IF g = Null THEN e ELSE Free(e, {g})
UseGarbage(e, g) == IF g = Null THEN e ELSE Use(e, {g})

-----------------------------------------------------------------------------
(* skfs.                                                                   *)

\* A call of an skfs method; under the contract none follows close().
Callable == skfs.st = "alive" /\ skfs.user /\ (Contract => ~closed)

\* Mutant: skfs_dealloc calls skfs_close (the commented-out line).
SkfsDeallocClosing(e, obj) == Free(e, {SkfsObj} \cup ({obj.fs, obj.img} \ {Null}))

\* skfs_dealloc: decref root_inum, talloc_free(context), free the object;
\* img and fs are left to skfs_close.
SkfsDealloc(e, obj) == Free(e, {SkfsObj})

\* Py_DECREF of the skfs: the refcount is in the object; at 0 it is
\* deallocated.  Result: [e, obj].
Decref(e, obj) ==
    LET e1 == Use(e, {SkfsObj})
    IN IF obj.refs = 1
       THEN [e |-> SkfsDealloc(e1, obj), obj |-> [obj EXCEPT !.refs = 0, !.st = "dead"]]
       ELSE [e |-> e1, obj |-> [obj EXCEPT !.refs = @ - 1]]

\* Mutant: skfile_init without Py_INCREF(skfs_obj).
FileIncrefMissing(obj) == obj

\* Py_INCREF(skfs_obj) in skfile_init.
FileIncref(obj) == [obj EXCEPT !.refs = @ + 1]

NoObj == [st |-> "unborn", refs |-> 0, user |-> FALSE, img |-> Null, fs |-> Null]

\* pyfile_open(fileobj): img_info is allocated and the file object
\* INCREF'd; when the seek back to 0 fails it returns NULL, leaving both.
\* Result: the effect and whether img was returned.
PyfileOpen(e, h) ==
    {[e |-> Alloc(e, {h}), ok |-> ok] : ok \in IF InitFaults THEN BOOLEAN ELSE {TRUE}}

\* sk.skfs(imgfile): pyfile_open, tsk_fs_open; a failed init is followed
\* by the type call's DECREF, so the object is deallocated at once.
SkfsInit ==
    /\ skfs.st = "unborn"
    /\ \E p \in PyfileOpen(Alloc(Begin, {SkfsObj}), Img) :
         LET obj0 == [NoObj EXCEPT !.refs = 1]
             Fail(obj) == LET d == Decref(p.e, obj)
                          IN Commit(d.e) /\ skfs' = [d.obj EXCEPT !.user = FALSE]
         IN \/ ~p.ok /\ Fail(obj0)
            \/ p.ok /\ InitFaults /\ Fail([obj0 EXCEPT !.img = Img])  \* tsk_fs_open
            \/ /\ p.ok
               /\ Commit(Alloc(p.e, {Fs}))
               /\ skfs' = [st |-> "alive", refs |-> 1, user |-> TRUE, img |-> Img, fs |-> Fs]
    /\ UNCHANGED <<files, walkers, closed, mmlsDone>>

Live(fn) == {x \in DOMAIN fn : fn[x].st = "alive"}

\* skfs.close(): close fs and img if the pointers are set; they stay set.
SkfsClose ==
    /\ skfs.st = "alive" /\ skfs.user
    /\ Contract => ~closed /\ Live(files) = {} /\ Live(walkers) = {}
    /\ Commit(Free(Use(Begin, {SkfsObj}), {skfs.fs, skfs.img} \ {Null}))
    /\ closed' = TRUE
    /\ UNCHANGED <<skfs, files, walkers, mmlsDone>>

\* The user drops its reference to the skfs.
SkfsDrop ==
    /\ skfs.st = "alive" /\ skfs.user
    /\ Contract => closed
    /\ LET d == Decref(Begin, skfs)
       IN Commit(d.e) /\ skfs' = [d.obj EXCEPT !.user = FALSE]
    /\ UNCHANGED <<files, walkers, closed, mmlsDone>>

\* listdir, iwalk, stat, readlink with a path or inode: self->fs is used.
\* stat() and readlink() without arguments test the uninitialized
\* inode_obj: NULL raises SyntaxError, anything else is dereferenced.
SkfsQuery ==
    /\ Callable
    /\ \/ Commit(Use(Begin, {SkfsObj, skfs.fs}))
       \/ \E g \in Garbage : Commit(UseGarbage(Use(Begin, {SkfsObj}), g))
    /\ UNCHANGED <<skfs, files, walkers, closed, mmlsDone>>

-----------------------------------------------------------------------------
(* skfile.                                                                 *)

\* Mutant: skfile_dealloc without tsk_fs_inode_free.
SkfileReleaseKeeping(e, f) == e

\* tsk_fs_inode_free(self->fs_inode) in skfile_dealloc.
SkfileRelease(e, f) == Free(e, {Ino(f)})

\* skfs.open(): PyObject_New (fields not zeroed), skfile_init, and on
\* failure Py_DECREF(file), i.e. skfile_dealloc.
SkfsOpen(f) ==
    /\ Callable
    /\ files[f].st = "unborn"
    /\ LET e0 == Use(Begin, {SkfsObj, skfs.fs})
           held == FileIncref(skfs)
       IN \/ /\ Commit(Alloc(Use(e0, {SkfsObj}), {Ino(f)}))
             /\ skfs' = held
             /\ files' = [files EXCEPT ![f] = [st |-> "alive", user |-> TRUE]]
          \/ /\ LookupFaults    \* no inode for the path, or a bad inode string:
                                \* dealloc frees the uninitialized fs_inode
             /\ \E g \in Garbage : Commit(FreeGarbage(e0, g))
             /\ UNCHANGED skfs
             /\ files' = [files EXCEPT ![f].st = "dead"]
          \/ /\ LookupFaults    \* inode_lookup returns NULL
             /\ Commit(e0)
             /\ UNCHANGED skfs
             /\ files' = [files EXCEPT ![f].st = "dead"]
          \/ /\ LookupFaults    \* file_walk fails after the INCREF
             /\ LET d == Decref(Alloc(Use(e0, {SkfsObj}), {Ino(f)}), held)
                IN Commit(SkfileRelease(d.e, f)) /\ skfs' = d.obj
             /\ files' = [files EXCEPT ![f].st = "dead"]
    /\ UNCHANGED <<walkers, closed, mmlsDone>>

\* read(), seek(), fstat(): self->skfs->fs and self->fs_inode are used.
FileUse(f) ==
    /\ files[f].st = "alive" /\ files[f].user
    /\ Commit(Use(Begin, {SkfsObj, skfs.fs, Ino(f)}))
    /\ UNCHANGED <<skfs, files, walkers, closed, mmlsDone>>

\* The user drops the file: skfile_dealloc.
FileDrop(f) ==
    /\ files[f].st = "alive" /\ files[f].user
    /\ LET d == Decref(Begin, skfs)
       IN Commit(SkfileRelease(d.e, f)) /\ skfs' = d.obj
    /\ files' = [files EXCEPT ![f] = [st |-> "dead", user |-> FALSE]]
    /\ UNCHANGED <<walkers, closed, mmlsDone>>

-----------------------------------------------------------------------------
(* skfs_walkiter.                                                          *)

\* skfs.walk(): PyObject_New, skfs_walkiter_init, and on failure
\* Py_XDECREF(iter).  Without path and inode the init fails before skfs
\* and context are set, and skfs_walkiter_dealloc releases both as found.
SkfsWalk(w) ==
    /\ Callable
    /\ walkers[w].st = "unborn"
    /\ \/ /\ Commit(Use(Begin, {SkfsObj, skfs.fs}))
          /\ skfs' = [skfs EXCEPT !.refs = @ + 1]
          /\ walkers' = [walkers EXCEPT ![w] = [st |-> "alive", user |-> TRUE]]
       \/ /\ \E g \in Garbage : Commit(FreeGarbage(UseGarbage(Begin, g), g))
          /\ UNCHANGED skfs
          /\ walkers' = [walkers EXCEPT ![w].st = "dead"]
    /\ UNCHANGED <<files, closed, mmlsDone>>

\* next(): dent_walk on self->skfs->fs.
WalkUse(w) ==
    /\ walkers[w].st = "alive" /\ walkers[w].user
    /\ Commit(Use(Begin, {SkfsObj, skfs.fs}))
    /\ UNCHANGED <<skfs, files, walkers, closed, mmlsDone>>

\* The user drops the walker: skfs_walkiter_dealloc.
WalkDrop(w) ==
    /\ walkers[w].st = "alive" /\ walkers[w].user
    /\ LET d == Decref(Begin, skfs) IN Commit(d.e) /\ skfs' = d.obj
    /\ walkers' = [walkers EXCEPT ![w] = [st |-> "dead", user |-> FALSE]]
    /\ UNCHANGED <<files, closed, mmlsDone>>

-----------------------------------------------------------------------------
(* mmls.                                                                   *)

\* sk.mmls(imgfile): pyfile_open, tsk_mm_open, part_walk; img is closed
\* when tsk_mm_open fails, mm and img after part_walk whatever it returns.
Mmls ==
    /\ ~mmlsDone
    /\ \E p \in PyfileOpen(Begin, MmImg) :
         \/ ~p.ok /\ Commit(p.e)
         \/ p.ok /\ InitFaults /\ Commit(Free(p.e, {MmImg}))
         \/ p.ok /\ Commit(Free(Alloc(p.e, {Mm}), {Mm, MmImg}))
    /\ mmlsDone' = TRUE
    /\ UNCHANGED <<skfs, files, walkers, closed>>

-----------------------------------------------------------------------------

Init ==
    /\ heap = [x \in Mem |-> "none"]
    /\ bad = {}
    /\ skfs = NoObj
    /\ files = [f \in Files |-> [st |-> "unborn", user |-> FALSE]]
    /\ walkers = [w \in Walkers |-> [st |-> "unborn", user |-> FALSE]]
    /\ closed = FALSE
    /\ mmlsDone = FALSE

Next ==
    \/ SkfsInit \/ SkfsClose \/ SkfsDrop \/ SkfsQuery \/ Mmls
    \/ \E f \in Files : SkfsOpen(f) \/ FileUse(f) \/ FileDrop(f)
    \/ \E w \in Walkers : SkfsWalk(w) \/ WalkUse(w) \/ WalkDrop(w)

Spec == Init /\ [][Next]_vars

-----------------------------------------------------------------------------
(* Properties.                                                             *)

Obj == [st : States, user : BOOLEAN]

TypeOK ==
    /\ heap \in [Mem -> {"none", "live", "freed"}]
    /\ bad \subseteq Mem
    /\ skfs \in [st : States, refs : Nat, user : BOOLEAN,
                 img : {Img, Null}, fs : {Fs, Null}]
    /\ files \in [Files -> Obj]
    /\ walkers \in [Walkers -> Obj]
    /\ closed \in BOOLEAN /\ mmlsDone \in BOOLEAN

\* No step dereferences or frees memory that is not allocated: no use of
\* the skfs object after its last reference went, no double close of fs or
\* img, no use of a closed fs by a file or walker, no free of an
\* uninitialized pointer (skfs_close, the dealloc functions, the failure
\* paths of skfile_init and skfs_walkiter_init).
NoUseAfterFree == bad = {}

\* Once every object is gone, nothing is left allocated: every exit path,
\* failed construction included, releases what it acquired (spec 3,
\* RawSource: "guaranteed release on every exit path").
Quiescent ==
    /\ skfs.st # "alive"
    /\ Live(files) = {} /\ Live(walkers) = {}
NoLeak == Quiescent => \A x \in Mem : heap[x] # "live"

=============================================================================
