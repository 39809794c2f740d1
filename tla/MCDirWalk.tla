----------------------------- MODULE MCDirWalk -----------------------------
(***************************************************************************)
(* Directory trees for checking DirWalk.  Each tree is what dent_walk      *)
(* reports, directory by directory, including the "." and ".." entries     *)
(* sleuthkit fabricates.                                                   *)
(***************************************************************************)
EXTENDS DirWalk

Fsi(alloc, dirMode, attrs) == [alloc |-> alloc, dirMode |-> dirMode, attrs |-> attrs]
Dent(name, inode, entType, nameUnalloc, fsi) ==
    [name |-> name, inode |-> inode, entType |-> entType,
     nameUnalloc |-> nameUnalloc, fsi |-> fsi]

\* NTFS attributes: $STANDARD_INFORMATION, the $I30 index root, the
\* unnamed $Data stream and a named alternate data stream.
STD == [type |-> 16, id |-> 0, inuse |-> TRUE, name |-> "$Data"]
I30 == [type |-> ATYPE_IDXROOT, id |-> 1, inuse |-> TRUE, name |-> "$I30"]
DAT == [type |-> ATYPE_DATA, id |-> 2, inuse |-> TRUE, name |-> "$Data"]
ADS == [type |-> ATYPE_DATA, id |-> 3, inuse |-> TRUE, name |-> "ads"]

DirFsi == Fsi(TRUE, TRUE, <<STD, I30>>)
DirAdsFsi == Fsi(TRUE, TRUE, <<STD, I30, ADS>>)
FileFsi == Fsi(TRUE, FALSE, <<STD, DAT, ADS>>)
\* Records whose attribute list ends in a stale (not in use) slot, as
\* sleuthkit leaves one when an fs_inode is reused: after the default
\* stream, or after $STANDARD_INFORMATION alone (a file without $Data).
StaleFsi == Fsi(TRUE, FALSE, <<STD, DAT, [ADS EXCEPT !.inuse = FALSE]>>)
NoDataFsi == Fsi(TRUE, FALSE, <<STD, [ADS EXCEPT !.inuse = FALSE]>>)

ByPath(path) == [path |-> path, inode |-> 0]
ByInode(inode) == [path |-> NotGiven, inode |-> inode]

(* NTFS volume, its inodes numbered from 100 to keep them apart from the  *)
(* other volume's: root 105 holds directory a (110), directory b (111,    *)
(* with a named stream), file f with a stream, a reallocated directory    *)
(* name d and an unallocated one e.  b holds x, which holds a deleted     *)
(* file and a file n whose only stream slot is stale.                      *)
NtfsListing ==
    (105 :> << Dent(<<".">>, 105, DT_DIR, FALSE, DirFsi),
             Dent(<<".", ".">>, 105, DT_DIR, FALSE, DirFsi),
             Dent(<<"a">>, 110, DT_DIR, FALSE, DirFsi),
             Dent(<<"b">>, 111, DT_DIR, FALSE, DirAdsFsi),
             Dent(<<"f">>, 120, DT_REG, FALSE, FileFsi),
             Dent(<<"d">>, 112, DT_DIR, TRUE, DirFsi),
             Dent(<<"e">>, 113, DT_DIR, TRUE, NoFsi) >>)
    @@ (110 :> << Dent(<<".">>, 110, DT_DIR, FALSE, DirFsi),
                 Dent(<<".", ".">>, 105, DT_DIR, FALSE, DirFsi),
                 Dent(<<"c">>, 115, DT_DIR, FALSE, DirFsi),
                 Dent(<<"g">>, 121, DT_REG, FALSE, FileFsi) >>)
    @@ (111 :> << Dent(<<".">>, 111, DT_DIR, FALSE, DirAdsFsi),
                 Dent(<<".", ".">>, 105, DT_DIR, FALSE, DirFsi),
                 Dent(<<"h">>, 122, DT_REG, FALSE, FileFsi),
                 Dent(<<"x">>, 116, DT_DIR, FALSE, DirFsi) >>)
    @@ (116 :> << Dent(<<".">>, 116, DT_DIR, FALSE, DirFsi),
                 Dent(<<".", ".">>, 111, DT_DIR, FALSE, DirAdsFsi),
                 Dent(<<"k">>, 124, DT_REG, TRUE, FileFsi),
                 Dent(<<"n">>, 125, DT_REG, FALSE, NoDataFsi) >>)
    @@ (115 :> << Dent(<<".">>, 115, DT_DIR, FALSE, DirFsi),
                 Dent(<<".", ".">>, 110, DT_DIR, FALSE, DirFsi),
                 Dent(<<"g">>, 123, DT_REG, FALSE, StaleFsi) >>)
    @@ (112 :> << Dent(<<".">>, 112, DT_DIR, FALSE, DirFsi),
                 Dent(<<".", ".">>, 105, DT_DIR, FALSE, DirFsi) >>)
\* Walks by path of the root and by inode of c (below the failing a) and x.
NtfsWalkArgs == {ByPath(<<"/">>), ByInode(115), ByInode(116)}
NtfsVolume == [ntfs |-> TRUE, listing |-> NtfsListing, root |-> 105, args |-> NtfsWalkArgs]

(* A non-NTFS volume: root 2 holds directories a (10) and b (11), a file,  *)
(* a symlink and a deleted directory d; a holds directories c (15) and e   *)
(* (17), a deleted file and a deleted name r of a reallocated directory;  *)
(* b holds x (16) and z (19); c holds y (18) and z holds w (25).           *)
ExtFsi == Fsi(TRUE, FALSE, <<>>)
Dots(self, parent) == << Dent(<<".">>, self, DT_DIR, FALSE, ExtFsi),
                         Dent(<<".", ".">>, parent, DT_DIR, FALSE, ExtFsi) >>
ExtBase ==
    (2 :> Dots(2, 2) \o << Dent(<<"a">>, 10, DT_DIR, FALSE, ExtFsi),
                           Dent(<<"f">>, 20, DT_REG, FALSE, ExtFsi),
                           Dent(<<"b">>, 11, DT_DIR, FALSE, ExtFsi),
                           Dent(<<"d">>, 12, DT_DIR, TRUE, NoFsi),
                           Dent(<<"l">>, 21, DT_LNK, FALSE, ExtFsi) >>)
    @@ (10 :> Dots(10, 2) \o << Dent(<<"c">>, 15, DT_DIR, FALSE, ExtFsi),
                              Dent(<<"g">>, 22, DT_REG, TRUE, NoFsi),
                              Dent(<<"e">>, 17, DT_DIR, FALSE, ExtFsi),
                              Dent(<<"r">>, 14, DT_DIR, TRUE, ExtFsi) >>)
    @@ (15 :> Dots(15, 10) \o << Dent(<<"y">>, 18, DT_DIR, FALSE, ExtFsi) >>)
    @@ (17 :> Dots(17, 10))
    @@ (18 :> Dots(18, 15))
    @@ (16 :> Dots(16, 11))
    @@ (12 :> Dots(12, 2))
ExtListing ==
    ExtBase @@ (11 :> Dots(11, 2) \o << Dent(<<"x">>, 16, DT_DIR, FALSE, ExtFsi),
                                       Dent(<<"z">>, 19, DT_DIR, FALSE, ExtFsi) >>)
            @@ (19 :> Dots(19, 11) \o << Dent(<<"w">>, 25, DT_DIR, FALSE, ExtFsi) >>)
            @@ (25 :> Dots(25, 19))
\* Walks by path, one of a name the volume lacks, and walks by inode:
\* directories below the failing a and b, the root, and the deleted d,
\* which has no allocated name.
ExtWalkArgs == {ByPath(<<"/">>), ByPath(<<"/", "a">>), ByPath(<<"/", "b", "/", "z">>),
                ByPath(<<"/", "q">>), ByInode(2), ByInode(10), ByInode(15),
                ByInode(16), ByInode(25), ByInode(12)}

ExtVolume == [ntfs |-> FALSE, listing |-> ExtListing, root |-> 2, args |-> ExtWalkArgs]

\* The same volume with a socket in b.
ExtSocketListing ==
    ExtBase @@ (11 :> Dots(11, 2) \o << Dent(<<"s">>, 24, DT_SOCK, FALSE, ExtFsi) >>)
ExtSocketVolume == [ExtVolume EXCEPT !.listing = ExtSocketListing]

\* Directories that fail to list part-way: a and b of the non-NTFS tree,
\* a and c (below a) of the NTFS volume.
MCUnreadable == {10, 11, 110, 115}

MCOrderVolumes == {ExtVolume, NtfsVolume}
\* A walk of the whole NTFS volume from "/".
MCNtfsVolumes == {[NtfsVolume EXCEPT !.args = {ByPath(<<"/">>)}]}
MCSocketVolumes == {ExtSocketVolume}

=============================================================================
