------------------------------- MODULE Tarfs --------------------------------
(***************************************************************************)
(* The archive in memory and the functions of sys/tarfs.c that search it.  *)
(*                                                                         *)
(* An archive is a sequence of entries with a name, a type flag and data.  *)
(* In memory it is a sequence of blocks of BLOCK characters: a header, the *)
(* data padded with zeros to whole blocks, the next header, and so on.     *)
(* Characters are strings of length one, "NUL" and "EOF".                  *)
(***************************************************************************)
EXTENDS Integers, SequencesExt

CONSTANT BLOCK    \* sizeof(struct posix_header_ustar), 512

ASSUME BlockAssumption == BLOCK \in Nat \ {0}

FileType == 0
DirType  == 5

-----------------------------------------------------------------------------
(***************************************************************************)
(* Mutated forms, used to show that the properties notice such a slip.     *)
(***************************************************************************)
\* The walk forgets that a started block is a whole one.
StrideWithoutRest(size) == IF size > 0 THEN size \div BLOCK + 1 ELSE 1

-----------------------------------------------------------------------------
(***************************************************************************)
(* The layout that tar writes.  Blocks are numbered from 0.                *)
(***************************************************************************)
BlocksOf(e) == (Len(e.data) + BLOCK - 1) \div BLOCK

HeaderBlock(a) ==
    LET at[i \in 1 .. Len(a) + 1] ==
            IF i = 1 THEN 0 ELSE at[i - 1] + 1 + BlocksOf(a[i - 1])
    IN at

CharAt(s, k) == IF k \in DOMAIN s THEN s[k] ELSE "NUL"

\* The k-th character, from 0, after the header of entry i.  Past the blocks
\* of the entry lies the name of the next one.
CharAfter(a, i, k) ==
    IF k < BlocksOf(a[i]) * BLOCK
    THEN CharAt(a[i].data, k + 1)
    ELSE IF i = Len(a) THEN "NUL" ELSE CharAt(a[i + 1].name, k - BlocksOf(a[i]) * BLOCK + 1)

-----------------------------------------------------------------------------
(***************************************************************************)
(* The walk over the headers, the same in all five functions.  A block of  *)
(* data that is taken for a header ends it here; what the code makes of    *)
(* such a block depends on the data.                                       *)
(***************************************************************************)
Stride(size) == IF size > 0 THEN size \div BLOCK + 2 ELSE 1

Walk(a) ==
    LET at    == HeaderBlock(a)
        end   == at[Len(a) + 1]
        IsHeader(s) == \E i \in DOMAIN a : at[i] = s
        Entry(s)    == CHOOSE i \in DOMAIN a : at[i] = s
        from[s \in 0 .. end] ==
            IF ~IsHeader(s) THEN <<>>
            ELSE LET s2 == s + Stride(Len(a[Entry(s)].data))
                 IN <<Entry(s)>> \o (IF s2 <= end THEN from[s2] ELSE <<>>)
    IN from[0]

IsFile(e, name) == e.name = name /\ e.type = FileType
IsDir(e, name) == e.name = name /\ e.type = DirType

\* The first such file on the walk, or 0.
get_file_binary(a, name) ==
    LET walk  == Walk(a)
        found == {k \in DOMAIN walk : IsFile(a[walk[k]], name)}
    IN IF found = {} THEN 0 ELSE walk[Min(found)]

dir_exists(a, name) == \E i \in Range(Walk(a)) : IsDir(a[i], name)

-----------------------------------------------------------------------------
(***************************************************************************)
(* tarfs_read() and get_folder().                                          *)
(***************************************************************************)
EndsRead(c) == c \in {"NUL", "EOF"}

\* How many characters a read at the offset returns.
tarfs_read(a, i, len, offset) ==
    LET ends == {n \in 0 .. len - 1 : EndsRead(CharAfter(a, i, offset + n))}
    IN IF ends = {} THEN len ELSE Min(ends)

\* One of the two strings is a prefix of the other.
substr(s1, s2) == IsPrefix(s1, s2) \/ IsPrefix(s2, s1)

\* The entries that a stream opened for the name lists, and whether the
\* directory exists.
Itself(e, name) == e.name = Append(name, "/")

get_folder(a, name) ==
    LET Listed(i) == substr(name, a[i].name) /\ ~Itself(a[i], name) IN
    [files  |-> SelectSeq(Walk(a), Listed),
     exists |-> \E k \in DOMAIN Walk(a) : Listed(Walk(a)[k]) \/ Itself(a[Walk(a)[k]], name)]
=============================================================================
