# TLA+ models of pyflag's sleuthkit and iosubsys bindings

This directory holds TLA+ models of the C extension modules in `src/`:

* `src/src/filesystems/sleuthkit/python/sk.c`: the `sk` Python module over the Sleuthkit library.
* `src/src/lib/libiosubsys/iosubsys.c`: the `iosubsys` module over pyflag's IO drivers.

TLC checks the models. Each module is written from the C source; `PROJECT.json` "map" gives the source lines of every definition.

## The system

| Part | Code | State | Operations |
|---|---|---|---|
| RawSource | `iosubsys.c` `Open`, `read_random`, `size` | an IOSource driver and the options it owns | open a driver with string options; read a byte range; size |
| Python image adaptor | `sk.c` `pyfile_*` (335-473) | an `img_info` holding a Python file object and its size | the image callbacks sleuthkit calls to read the image |
| Filesystem (`skfs`) | `sk.c` 481-861, 1406-1472 | `img`, `fs` (sleuthkit handles), the root inode, a talloc context | init, close, dealloc, listdir, open, walk, iwalk, stat, fstat, readlink; the module function `mmls` |
| PathResolver | `lookup_inode`, `lookup_path` (263-305) | none (uses `dent_walk`) | path to inode, inode to path |
| InodeRef (`skinode`) | `parse_inode_str` (308-322), `skfs_inode_*` (1051-1086) | inode, type, id, alloc | parse `"inode[-type-id]"`, render it |
| DirWalker (`skfs_walkiter`) | 865-1048 with the callbacks 106-220 | `walklist`, a stack of directories still to visit; the alloc/unalloc flags | `walk()` builds it; each `next()` pops one directory, lists it, returns `(root, dirs, files)` and pushes the allocated subdirectories |
| BlockFile (`skfile`) | 1089-1392 with 239-260 | block list, size, `readptr` | init (runs `file_walk` to collect blocks), `read(size, slack, overread)`, `seek`, `tell`, `blocks` |

How the parts interact:
- `skfs` owns the image and the filesystem handles.
- `skfile` and `skfs_walkiter` keep a reference to the `skfs` and call into its `fs`.
- The walker resolves its start with the PathResolver and lists directories with sleuthkit's `dent_walk`.
- The file reads through sleuthkit's file-read primitives. For the overread it reads directly from the device with `tsk_fs_read_random`.

Everything runs synchronously in one thread. What makes the code hard is elsewhere:
- long sequences of calls (seek, then read with various options; walk steps over a whole tree);
- failures part-way through a call (a directory that fails to list, a read primitive returning -1, a constructor failing half-way);
- arithmetic at boundaries (readptr past the end, a parse that stores an int into a wider variable, block/byte arithmetic in the overread).

## Modules

### `DirWalk` (DirWalker), with `MCDirWalk`

The variables:
- `walklist`: the stack, head first. Entries are the `struct dentwalk` records: path, attribute type/id, alloc (1, 2 or 0), inode, `ent_type`.
- `flags`: the `dent_walk` flags chosen at init.
- `start`: the root entry pushed by `skfs_walkiter_init`.
- `emitted`: the `(root, dirs, files)` steps returned so far.
- `finished`: `next()` returned NULL.

The actions:
- `WalkNext` is one yielding `next()`. It models the whole of `skfs_walkiter_iternext`:
  - pop the head;
  - `dent_walk` with `listdent_walk_callback_dent` (`CallbackDent`, `NtfsEntries`, `AddDent`);
  - reset of a listing error;
  - classification by `ent_type & DIR`;
  - path join and `list_move` to the head for `alloc == 1`;
  - `list_del`.
- `WalkEnd` is `next()` on an empty stack.

The filesystem is part of the state: `vol` is one of the `Volumes`, each a record `[ntfs, listing, root, args]`, chosen by `Init` and never changed. `IsNtfs`, `Listing`, `RootInum` and `WalkArgs` read it, so one run can cover an NTFS volume and a non-NTFS one. The environment is sleuthkit's `dent_walk`:
- `Listing[d]` is the sequence of entries reported for directory `d`, with the "." and ".." entries sleuthkit fabricates.
- `Visible` applies the ALLOC/UNALLOC flags.
- A directory in `Unreadable` (one set for all volumes, whose inode numbers are kept apart) fails after reporting any prefix of its entries (`Delivered`).

NTFS entries carry their attribute list (type, id, in use, name), so the code's loop over attributes is modelled as written. That includes the call to `listdent_add_dent` after the loop at `sk.c:211`. It runs only when nothing was printed (`Unprinted`: no `$Data` or index-root attribute in the in-use run), and it passes the attribute the loop stopped at.

`MCDirWalk` provides two volumes:
- An NTFS volume (inodes from 105) with:
  - directories with and without a named stream;
  - files with a stream;
  - a reallocated directory name and a deleted one;
  - records whose attribute list ends in a stale slot, one of them with no `$Data` at all;
  - two directories that fail to list, one below the other;
  - walks from "/" and by inode of two inner directories.
- A non-NTFS tree three levels deep with:
  - a symlink;
  - a deleted directory;
  - a reallocated directory name;
  - ten `walk()` argument sets: by path (one of a missing name) and by inode (the root, the deleted directory, and directories below the failing ones).

#### The PathResolver and `Init`

`Init` is `skfs_walk` followed by `skfs_walkiter_init`. Each element of `WalkArgs` is the `path` and `inode` arguments of one `walk()` call. `skfs_walk` declares `inode = 0` (`sk.c:654`) and always passes it on (`sk.c:666-670`), so `inode` is 0 when not given. It passes `path` only when given, and `path` may be `NotGiven`. Then:
- inode 0 with a path: the inode is `LookupInode(path)` (`lookup_inode`);
- no path: the path is one of `LookupPath(inode)` (`lookup_path`);
- neither return value is checked.

`LookupPath` models `lookup_path` and `lookup_path_cb` whole:
- the root inode gets `"/"`;
- otherwise `DentWalk` is the recursive ALLOC `dent_walk` from the root as the callback sees it: each allocated name with `fs_dent->path`, then the walk of each subdirectory;
- the first name with the inode gives `"/" + path + name`;
- when there is no match, or a directory in `Unreadable` could fail before the match, the path stays unset: `UnsetPath`, a path no name has.

The NTFS `ntfs_find_file` search is given the same first-match result. `LookupInode` is the collaborator `tsk_fs_ifind_path`: the inode an allocated path names (`AllNames`), and 0 when none does.

Names and paths are sequences of one-character strings, so the code's character tests (`name[0] == '.'`, `name[2] == '\0'`) and the `"/"` special case of the path join can be stated.

#### `WalkSpec`: what a walk promises, and its refinement

`WalkSpec` is the walk without its stack, paths or order (spec 4.5):
- `pending` is the set of directories waiting;
- `visited` is the set already listed;
- `children` gives each directory's subdirectories to descend into;
- `done` says the end has been signalled.

Its step `Visit(d)` takes any pending directory not yet visited and makes all its subdirectories pending. A directory in `Unreadable` may contribute only some of them. `Finish` signals the end once nothing is pending. The specification has weak fairness on `Next`, for the same reason as `DirWalk`.

`DirWalk` implements it through `Abs == INSTANCE WalkSpec WITH ...`, and `WalkRefines == Abs!Spec` is checked as a property. The refinement mapping:
- `pending` is the set of inodes on `walklist`;
- `visited` is the set of inodes of the emitted steps' roots;
- `children` is `SpecChildren`: the allocated directory entries of each directory's full listing under the walk's flags;
- `done` is `finished`.

A `WalkNext` step is a `Visit` of the popped directory, and `WalkEnd` is `Finish`. The check shows three things:
- no directory is pushed twice;
- a readable directory pushes exactly its allocated subdirectories, and a failing one pushes a subset;
- the walk's end comes only when the stack is empty.

`DepthFirstOrder` is the part `WalkSpec` leaves open. It compares the roots of the steps with `PreOrder`, a RECURSIVE reference definition of pre-order over what each step pushed, later-listed subdirectory first.

### `SkFile` (BlockFile), with `MCSkFile`

The variables:
- `blocks`: the addresses collected by `getblocks_walk_callback`;
- `size`: the sum of the callback sizes;
- `readptr`;
- `last`: the arguments of the last `read()`, `readptr` before it, `readlen`, `written`, whether the resize succeeded, and the bytes returned.

The returned bytes are abstracted to segments `[src, at, from, len]`: `len` bytes written at buffer offset `at`, taken from file offset `from` (the content primitive) or device offset `from` (the overread).

The actions:
- `Read` models the whole of `skfile_read`:
  - the argument parse (`ParsedReadLen`);
  - `maxsize`;
  - the `readlen` adjustment;
  - the content read;
  - the overread (`OverreadLen`, `OverreadStart`, `tsk_fs_read_random`);
  - the resize;
  - `readptr += readlen`.
- `Seek` models `skfile_seek`, including the invalid `whence`.
- `Init` is `skfile_init` for a string inode argument:
  - `ParseInodeStr` (from `InodeStr`) reads the argument, and an ERANGE inode is rejected;
  - `Walked` is the attribute `file_walk` follows: the inode and type, and the id unless it is 0 (`TSK_FS_FILE_FLAG_NOID`);
  - the `getblocks_walk_callback` pass over that attribute fills `blocks` and `size`.
- `opened` records the argument and the inode, type and id it was parsed to.

The read primitives are the environment:
- `ContentRead` returns the bytes up to the end of the file (or of its slack).
- `DeviceRead` returns what is left before `DeviceBytes`.
- With `Faults` set, either may also return -1 or fewer bytes.

Two constants cover the build:
- `SizeArgIsInt` is the LP64 little-endian build, where the `"i"` format stores an int into the low half of the `Py_ssize_t readlen`.
- `IntWidth` is the width of `int`. The cfgs scale it to 16 bits so TLC's 32-bit integers hold `2^IntWidth`. On LP64 the stored value is `n mod 2^IntWidth - 2^IntWidth`, which is negative for every `n`, the same outcome as at 32 bits.

`MCSkFile` provides three attributes, all with 4-byte blocks:
- inode 5, type 0: 6 bytes in blocks 7 and 3, with a zero-length callback between them;
- inode 12, type 9, id 1: 4 bytes in block 5;
- inode 12, type 9, id 2: the 6-byte run.

The inode arguments are:
- `str()` of a reallocated stream (`"12-9-1*"`) and of a plain file (`"5-0-0"`);
- `"012-9"`, which has a leading zero and no id, so NOID lets either attribute of type 9 answer it.

### `InodeStr` (InodeRef)

`InodeStr` holds pure operators. There are no variables.
- `InodeStr(r)` is `skfs_inode_str`: `"%llu-%u-%u"` built with the RECURSIVE `Decimal`, plus `"*"` for alloc 2.
- `StrToUL(s, i, w)` is glibc's `strtoul`/`strtoull` at width `w`:
  - leading blanks, an optional sign, the longest run of digits;
  - no digits gives 0, with `end` at the start;
  - a magnitude of `2^w` or more gives the largest value and ERANGE;
  - `-` negates modulo `2^w`.
- `ParseInodeStr(s)` is `parse_inode_str`:
  - `strtoull` for the inode, and a failure only on ERANGE;
  - then `strtoul` for type and id, each only after a `'-'`, stored into a `uint32_t`.

Widths are scaled so that TLC's integers hold them: `ULongWidth` 7 stands for 64 bits and `UIntWidth` 4 for 32. The reference is spec 4.3's grammar: `InGrammar` accepts one to three digit groups, each within its field's width, and `SpecParse` reads them, with missing groups 0. `Groups` is RECURSIVE.

### `SkFs` (Filesystem object lifecycle), with `MCSkFs`

This module models who allocates, uses and frees each C resource:
- the image `img_info` (`pyfile_open`);
- the sleuthkit `fs`;
- each file's `fs_inode`;
- the `skfs` object's own memory, which is released when its reference count reaches zero;
- the `img` and `mm` handles of `mmls`.

The variables:
- `heap` maps each handle to "none", "live" or "freed".
- `bad` is the set of handles the last step dereferenced or freed while they were not live.
- `skfs` holds the object's state, its refcount, whether the user still holds it, and its `img`/`fs` fields.
- `files` and `walkers` hold each slot's state.
- `closed` records that `close()` was called.

Within one step, the effects are composed as the code orders them: `Use`, `Free`, `Alloc`, then `Commit`.

The actions:
- `SkfsInit` is the type call `sk.skfs(img)`. It runs `PyfileOpen` and `tsk_fs_open`. On failure the object is deallocated at once.
- `SkfsClose` closes `fs` and `img` and leaves the pointers set.
- `SkfsDrop` is the user's DECREF.
- `SkfsQuery` covers listdir, iwalk, stat and readlink. It includes the argument-less `stat()`/`readlink()` that read the uninitialized `inode_obj`.
- `SkfsOpen` is `skfs_open` with every exit of `skfile_init`, each followed by `Py_DECREF(file)` on failure.
- `FileUse` and `FileDrop` are read/seek/fstat and `skfile_dealloc`.
- `SkfsWalk` includes the `walk()` whose init fails before `skfs` and `context` are set.
- `WalkUse` and `WalkDrop` are `next()` and `skfs_walkiter_dealloc`.
- `Mmls` is `mmls`.

`PyObject_New` does not zero the object. So the value an uninitialized pointer holds is a choice from the constant `Garbage`: `Null`, or `Wild`, which stands for memory never allocated.

The constant `Contract` restricts the caller to the use the spec describes:
- close once;
- drop files and walkers before `close()`;
- call nothing after `close()`;
- drop the `skfs` only after closing it.

`MCSkFs` provides two file slots and one walker slot. That is enough for one file to outlive another and for a walker and a file to coexist.

### `IOSubsys` (RawSource), with `MCIOSubsys`

The variables:
- `mem` gives the state of each slot's options list (`opts`) and driver (`drv`): none, live or freed.
- `held` is the set of slots whose driver CObject the caller holds.
- `crashed` says the interpreter died in `strcasecmp(NULL, ...)`.
- `last` is the last `read_random`: the parsed len, the driver's count, and the bytes returned.

The actions:
- `Open(d, o)` models `Open` whole. `Exit` gives the exit the code takes, in the order of its checks:
  - no iodriver;
  - no opts;
  - a non-string key or value;
  - a NULL drivername reaching `strcasecmp`;
  - no matching name;
  - a NULL driver;
  - success.

  `OptionsAfter` says what each exit leaves of the options list. The list is not built before line 67. It is freed at 79 and 101, and left allocated on the other exits. On success the driver owns it. The allocation goes to the lowest slot with nothing live.
- `Drop(s)` is the CObject's destructor: `talloc_free(driver)`, which frees the options the driver stole.
- `ReadRandom(s, a)` models `py_read_random`:
  - `ParsedLen` is the low 32 bits of the long.
  - The driver raises, or reports a count up to `SourceSize`.
  - `ResultLen` is the `length < len` test, done in unsigned arithmetic.

## Runs

| Run | Expect | Checks | What it shows |
|---|---|---|---|
| `walk_order` | pass | `TypeOK`, `DepthFirstOrder`, `PathsResolve`, `StreamsAsFiles`, `NoDescentIntoUnallocated`, `FaultContainment`, `WalkRefines` | The run walks both volumes, with directories that fail after any prefix. On NTFS, a step that listed its directory in full reports every named stream as a file `name:stream` and every directory name as a directory. On both volumes, for walks by path and by inode and both flag choices, every step whose path was set lists the directory its path names. That path comes from the argument, from `lookup_path`, or from the joins. From every start, the walk implements `WalkSpec`. Its steps are exactly the reference depth-first order. Every step after the first is rooted at an allocated directory the parent step reported, under the joined path. Every directory reachable through readable ones is visited, and, under the fairness of `WalkSpec`, the walk ends. |
| `walk_streams` | violation | `StreamEntriesNamed` | On NTFS, listing a directory with a named stream reports its "." entry as the file `.:stream`. The dot test at `sk.c:179` only matches two-character names. |
| `walk_socket` | violation | `DirListOnlyDirectories` | A socket is put in `dir_list` and descended into, because `ent_type & 4` also holds for BLK, SOCK, SHAD and WHT. |
| `file_read` | pass | `TypeOK`, `ReadDelivers`, `OverreadAligned`, `BufferTiled`, `OpensNamedAttribute` | A file opened from `str()` of an skinode, or from an in-grammar string, is the attribute the string names. For every sequence of seeks and reads: a read returns exactly the documented number of bytes; overread bytes come from the block after the file at the right distance, for any `readptr` a seek left; the pieces of the buffer lie end to end inside it. |
| `file_lp64` | violation | `ReadDelivers` | On LP64, `read(size=0)` returns the whole file. |
| `file_faults` | violation | `BufferTiled` | A content read that returns -1, followed by an overread, writes at `buf-1`. |
| `raw_io` | pass | `OptionsOwned` | `Open` is called by known names, with valid, empty, non-string and missing options, and with constructors that fail. No options list is ever left allocated outside a live driver, and dropping a driver frees both. `read_random` is exercised, but no property is checked of it: for the counts a driver may return, its resize test only restates min(count, len). |
| `raw_unknown` | violation | `OptionsOwned` | `Open("nosuch", {...})` returns KeyError at `iosubsys.c:96` and leaves the options list allocated, owned by nothing. |
| `life_contract` | pass | `TypeOK`, `NoUseAfterFree`, `NoLeak` | A caller that keeps the contract meets no use after free and no double free, and leaves nothing allocated once every object is gone. That includes every failing exit of `skfile_init` and a failing `walk()`, provided uninitialized pointers are NULL. |
| `life_initleak` | violation | `NoLeak` | A failed `tsk_fs_open` leaves the image open, and a failed `pyfile_open` leaks `img_info`. |
| `life_close` | violation | `NoUseAfterFree` | `close()` twice frees `fs` and `img` twice. Files, walkers and methods used after `close()` use the freed `fs`. |
| `life_uninit` | violation | `NoUseAfterFree` | `stat()` without arguments dereferences the uninitialized `inode_obj`. A failed `open()` frees an uninitialized `fs_inode`, and a failed `walk()` DECREFs an uninitialized `skfs`. |

`PROJECT.json` "findings" says what each violation shows, with the source line. "mutants" lists, for every property of a passing run, a plausible bug in the mapped code that TLC finds:
- a reallocated name promoted;
- a directory's stream added with the directory's own `ent_type`;
- `fs_dent->path` left out of `lookup_path_cb`'s result;
- the id group of `parse_inode_str` never read;
- `list_add_tail` instead of `list_move`;
- `list_del` forgotten;
- the listing error propagated;
- the `readlen` clamp dropped;
- `overread=True` not turned into 256;
- the past-end adjustment of the overread start dropped;
- `to_read` not cut to the remaining length;
- the INCREF of the skfs in `skfile_init` dropped;
- `skfs_close` called from `skfs_dealloc` (the commented-out line);
- `fs_inode` not freed in `skfile_dealloc`;
- the `talloc_free(options)` of a failed constructor dropped.

### Bounds and why they suffice

- **Walk.** `MaxSteps` (9 in `walk_order`) bounds the number of `next()` calls. The non-NTFS tree has nine directories and the NTFS volume five, so every start finishes within the bound, which never cuts a walk short; deadlock is checked. The trees have the shapes the properties depend on:
  - siblings in both orders;
  - depth 3;
  - failures at an inner and a leaf level;
  - every alloc value.
- **File.** Sizes and offsets are chosen so each case of the read logic happens:
  - 4-byte blocks, files of one and two blocks, the last one partial;
  - read sizes 0, 3 and 7 (below, between and past the end);
  - seek offsets -3, 0, 2 and 9, where 9 lies past the blocks' end;
  - overread off, True (256) and 2.

  `MaxPtr` (12) bounds `readptr` through seeks; reads stop at the ceiling by themselves.
- **Inode strings.** `ULongWidth` 7 and `UIntWidth` 4 keep the 64/32-bit split: a type of 25 in `"12-25-1"` is truncated to 9, as a 33-bit one is on the real build. `file_read` takes three inode arguments. Each one multiplies the file states, and the three cover the NOID choice, the `"*"` marker and a leading zero. The other parses (`"x"`, `"-5"`, `"5-x-3"`, truncation) were evaluated on the operators and are recorded as hazards.
- **RawSource.** Two slots of allocations, reused once nothing in them is live. That is enough for two drivers alive at once, and for a failed `Open` next to a live driver. The option arguments cover every exit of the key loop:
  - missing;
  - empty;
  - all strings;
  - a non-string value.

  `IntWidth` 4 scales `uint32_t` so that len -1 wraps to 15. A driver reports counts 0 to 4, so reads can be short, exact and over-delivering against len 0, 2 and 15.
- **Lifecycle.** Each slot is used once, so handles are never reused and a freed handle stays freed. Two files and one walker let the refcount reach 3 and let the last reference come from a file, from a walker or from the user. `mmls` runs at most once: it shares no state with the `skfs`, and one call takes every exit. The lifecycle runs say `CHECK_DEADLOCK FALSE`: once every object is gone the program has nothing left to do.

### Fairness

`DirWalk`'s `Spec` has weak fairness on `Next`. A `for` loop over `skfs.walk()` keeps calling `next()` until it gets StopIteration. `WalkSpec` has the same fairness, so `WalkRefines` says the mapped walk signals its end. No separate termination property is checked, because `WalkRefines` already implies it on these acyclic volumes. `SkFile`, `SkFs` and `IOSubsys` have no liveness property and no fairness: every call is the user's choice.

## Not modelled (yet)

- **Lifecycle details.** A second explicit `__init__` on a live `skfs` is not modelled. It would overwrite `img` and `fs` without closing them. The talloc contexts are left out because every path frees them.
- **RawSource details.**
  - `size()` only reads `driver->size`.
  - The driver type check at lines 125 and 156 needs a non-driver CObject, which nothing in the model produces.
  - An `iodriver` that is not a string crashes in `strcasecmp(NULL, ...)` at line 87. `IOSubsys` models this exit, but no run passes such an argument, because all twelve run slots are used.
  - A driver `read_random` that returns -1 instead of raising would defeat the unsigned resize test. The drivers are outside `src/` and are given spec 4.1's contract instead.
- **InodeRef.**
  - The integer inode argument of `skfile_init` (`PyLong_AsUnsignedLongLong`, with no error check) is not modelled.
  - The skinode getters change no state.
  - `parse_inode_str` accepts malformed strings, contrary to spec 4.3: `"x"` is inode 0, `"-5"` wraps, `"5-x-3"` is 5-0-0, and a 33-bit type is truncated. `InodeStr` computes exactly this, but no violation run is kept for it: all twelve run slots are used.
- **PathResolver failures.** The spec (7) says a failed initial lookup must propagate. `walk_order` reaches both ignored failures:
  - a missing path walks inode 0;
  - an inode without an allocated name, or one below a failing directory, gets `UnsetPath`, and its descendants' paths carry it.

  `PathsResolve` checks only the paths that were set. No violation run is kept for the failures (run slots).
- **Walk root entry type.** `skfs_walkiter_init` never sets `root->ent_type`. The model gives it `DT_DIR`, and no property reads it.
- **Resident files and the overread.** A block-less file overreads device block 1. The spec leaves this case open, so it is listed as a hazard only.
- **Left out for good.** The shape of returned Python objects (`names`/`inodes` flags), `stat`/`fstat`/`readlink` result formatting, `gpt.h` (struct declarations with no operations), `map_exceptions_for_python` (a constant table) and module init.

## Plan

1. `DirWalk`: done.
2. `SkFile`: done for read and seek.
3. `SkFs`: done for construction, close, dealloc and the use of freed or uninitialized pointers.
4. `IOSubsys`: done for `Open` and `read_random`.
5. `WalkSpec` and its refinement by `DirWalk`: done.
6. `InodeStr` and its use in `skfile_init`: done, checked in `file_read`.
7. PathResolver and `skfs_walkiter_init`: done, checked in `walk_order`.
8. NTFS listing (`printed == 0` trailing entry, named streams) and the walk over both volumes: done, checked in `walk_order` and `walk_streams`.
9. Next: the integer inode argument of `skfile_init`. A violation run for the ignored lookup failures needs a run slot; the candidate is merging `life_uninit` into `life_close`.
