------------------------------ MODULE InodeStr ------------------------------
(***************************************************************************)
(* The composite inode string of the sleuthkit binding: skfs_inode_str    *)
(* renders an skinode as "<inode>-<type>-<id>", with "*" appended for a   *)
(* reallocated one, and parse_inode_str reads such a string back with     *)
(* strtoull and strtoul.  Strings are sequences of one-character strings; *)
(* the C terminator is "NUL", the position past the end.                  *)
(*                                                                         *)
(* Widths are scaled: ULongWidth stands for the 64 bits of unsigned long  *)
(* long and (on LP64) unsigned long, UIntWidth for the 32 bits of the     *)
(* uint32_t type and id fields.                                            *)
(***************************************************************************)
EXTENDS Integers, Sequences, SequencesExt

CONSTANTS ULongWidth, UIntWidth

DigitChar == <<"0", "1", "2", "3", "4", "5", "6", "7", "8", "9">>
DigitChars == Range(DigitChar)
DigitVal == [c \in DigitChars |-> CHOOSE n \in 0..9 : DigitChar[n + 1] = c]

CharAt(s, i) == IF i \in DOMAIN s THEN s[i] ELSE "NUL"

-----------------------------------------------------------------------------
(* skfs_inode_str: talloc_asprintf "%llu-%u-%u", then "*" if alloc == 2.  *)

RECURSIVE Decimal(_)
Decimal(n) ==
    IF n < 10 THEN <<DigitChar[n + 1]>>
    ELSE Decimal(n \div 10) \o <<DigitChar[(n % 10) + 1]>>

InodeStr(r) ==
    Decimal(r.inode) \o <<"-">> \o Decimal(r.type) \o <<"-">> \o Decimal(r.id)
    \o (IF r.alloc = 2 THEN <<"*">> ELSE <<>>)

-----------------------------------------------------------------------------
(* strtoul / strtoull(s + i, &end, 10) of glibc: leading blanks, an       *)
(* optional sign, the longest run of digits.  No digits: 0, and end is     *)
(* the start.  A magnitude past the width: the largest value and ERANGE.  *)
(* A minus sign negates in unsigned arithmetic.                            *)

RECURSIVE SkipBlanks(_, _)
SkipBlanks(s, i) == IF CharAt(s, i) = " " THEN SkipBlanks(s, i + 1) ELSE i

RECURSIVE DigitsEnd(_, _)
DigitsEnd(s, i) == IF CharAt(s, i) \in DigitChars THEN DigitsEnd(s, i + 1) ELSE i

DecimalValue(ds) == FoldLeft(LAMBDA acc, c : 10 * acc + DigitVal[c], 0, ds)

StrToUL(s, i, w) ==
    LET j   == SkipBlanks(s, i)
        k   == IF CharAt(s, j) \in {"+", "-"} THEN j + 1 ELSE j
        e   == DigitsEnd(s, k)
        mag == DecimalValue(SubSeq(s, k, e - 1))
    IN CASE e = k         -> [val |-> 0, end |-> i, erange |-> FALSE]
         [] mag >= 2 ^ w  -> [val |-> 2 ^ w - 1, end |-> e, erange |-> TRUE]
         [] OTHER         -> [val |-> IF CharAt(s, j) = "-" THEN (2 ^ w - mag) % 2 ^ w
                                      ELSE mag,
                              end |-> e, erange |-> FALSE]

-----------------------------------------------------------------------------
(* parse_inode_str.  type and id keep the caller's value, 0 in every      *)
(* caller, when their group is absent.                                     *)

Rejected == [ok |-> FALSE, inode |-> 0, type |-> 0, id |-> 0]

\* strtoul(ptr+1, &ptr, 10) when *ptr is '-', stored into a uint32_t.
NextGroup(s, at) ==
    IF CharAt(s, at) = "-"
    THEN LET g == StrToUL(s, at + 1, ULongWidth)
         IN [val |-> g.val % 2 ^ UIntWidth, end |-> g.end]
    ELSE [val |-> 0, end |-> at]

\* Mutant: the id group never read.
ParseInodeStrNoId(s) ==
    LET n == StrToUL(s, 1, ULongWidth)
        t == NextGroup(s, n.end)
    IN IF n.erange THEN Rejected
       ELSE [ok |-> TRUE, inode |-> n.val, type |-> t.val, id |-> 0]

ParseInodeStr(s) ==
    LET n == StrToUL(s, 1, ULongWidth)
        t == NextGroup(s, n.end)
        d == NextGroup(s, t.end)
    IN IF n.erange THEN Rejected
       ELSE [ok |-> TRUE, inode |-> n.val, type |-> t.val, id |-> d.val]

-----------------------------------------------------------------------------
(* The reference: the grammar of spec 4.3, digits ['-' digits ['-' digits]], *)
(* missing groups 0, the inode group an unsigned 64-bit value.  The       *)
(* trailing allocation marker of a rendering is not re-parsed.            *)

\* The groups of s between its dashes.
RECURSIVE Groups(_)
Groups(s) ==
    LET dashes == {i \in DOMAIN s : s[i] = "-"}
    IN IF dashes = {} THEN <<s>>
       ELSE LET i == CHOOSE x \in dashes : \A y \in dashes : x <= y
            IN <<SubSeq(s, 1, i - 1)>> \o Groups(SubSeq(s, i + 1, Len(s)))

\* s is in the grammar, with every group within its field's width.
InGrammar(s) ==
    LET g == Groups(s)
    IN /\ Len(g) \in 1..3
       /\ \A i \in DOMAIN g : g[i] # <<>> /\ Range(g[i]) \subseteq DigitChars
       /\ DecimalValue(g[1]) < 2 ^ ULongWidth
       /\ \A i \in 2..Len(g) : DecimalValue(g[i]) < 2 ^ UIntWidth

SpecParse(s) ==
    LET g == Groups(s)
        f(i) == IF i <= Len(g) THEN DecimalValue(g[i]) ELSE 0
    IN [ok |-> TRUE, inode |-> f(1), type |-> f(2), id |-> f(3)]

\* A rendering with its allocation marker taken off.
Unmarked(s) == IF s # <<>> /\ Last(s) = "*" THEN SubSeq(s, 1, Len(s) - 1) ELSE s

=============================================================================
