------------------------------ MODULE MCSkFile ------------------------------
(***************************************************************************)
(* Files for checking SkFile, with 4-byte blocks.                         *)
(***************************************************************************)
EXTENDS SkFile

Cb(addr, n, res) == [addr |-> addr, size |-> n, res |-> res]

\* A 6-byte run in blocks 7 and 3 (the second one partly used), with a
\* zero-length callback between them; and a 4-byte run in block 5.
SixBytes == << Cb(7, 4, FALSE), Cb(0, 0, FALSE), Cb(3, 2, FALSE) >>
FourBytes == << Cb(5, 4, FALSE) >>

\* The attributes of two inodes: inode 5 with its default attribute (type
\* 0), inode 12 with two attributes of type 9.
MCAttrs == { [inode |-> 5, type |-> 0, id |-> 0, cbs |-> SixBytes],
             [inode |-> 12, type |-> 9, id |-> 1, cbs |-> FourBytes],
             [inode |-> 12, type |-> 9, id |-> 2, cbs |-> SixBytes] }

\* skinodes a walk or a stat returns: a reallocated stream and a file.
Skinodes == { [inode |-> 12, type |-> 9, id |-> 1, alloc |-> 2],
              [inode |-> 5, type |-> 0, id |-> 0, alloc |-> 1] }

\* A string as a sequence of one-character strings.
Chars(str) == [i \in 1..Len(str) |-> SubSeq(str, i, i)]

\* Inode arguments: str() of each skinode, and a string a caller types with
\* a leading zero and no id, which any attribute of type 9 answers.
MCInodeArgs == { [s |-> InodeStr(r), from |-> {r}] : r \in Skinodes }
    \cup { [s |-> Chars("012-9"), from |-> {}] }

\* seek() offsets, a negative one included.
SeekOffsets == {-3, 0, 2, 9}

=============================================================================
