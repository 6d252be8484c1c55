--------------------------------- MODULE Ext2 ---------------------------------
(***************************************************************************)
(* The EXT2 file system driver: lsvmutils/ext2.c, the ext2 commands of     *)
(* lsvmtool (ext2main.c) and lsvmload's PatchInitrd.                       *)
(*                                                                         *)
(* The disk holds the superblock's and the groups' free counts, the two    *)
(* bitmaps, the inodes and the blocks.  The handle keeps its own copy of   *)
(* the counts.  An operation is a function from one machine record m to    *)
(* the next: m.d is the disk, m.sb and m.gd the counts of the handle,      *)
(* m.err the error that ends the operation, m.out and m.list what a step   *)
(* hands to the next and m.left the number of writes before one fails.     *)
(* Every write of the code is one write here, in the code's order; so a    *)
(* fault may fall between any two.                                         *)
(*                                                                         *)
(* Sizes count blocks, and names take one or more slots of a directory     *)
(* block (rec_len).                                                        *)
(***************************************************************************)
EXTENDS Naturals, Sequences, SequencesExt, FiniteSets, FiniteSetsExt, TLC

CONSTANTS
    Groups,           \* group_count
    BlocksPerGroup,   \* s_blocks_per_group
    InodesPerGroup,   \* s_inodes_per_group
    Direct,           \* EXT2_SINGLE_INDIRECT_BLOCK: direct pointers of an inode
    PerBlock,         \* block numbers in a block
    Slots,            \* room for directory entries in a block
    Files,            \* names in the root directory at first
    Meta,             \* blocks of the superblock, groups, bitmaps and inodes
    MaxOps,           \* bound on operations, one that fails at a write counts twice
    MaxFaults         \* bound on failing writes

ASSUME Ext2Assumption ==
    /\ Groups \in Nat \ {0} /\ BlocksPerGroup \in Nat \ {0} /\ InodesPerGroup \in Nat \ {0}
    /\ Direct \in Nat \ {0} /\ PerBlock \in Nat \ {0} /\ Slots \in Nat
    /\ Meta \subseteq 0 .. Groups * BlocksPerGroup - 1 /\ 0 \in Meta
    /\ MaxOps \in Nat /\ MaxFaults \in Nat

VARIABLES
    efi,              \* the driver is the one in lsvmload (BUILD_EFI)
    fs,               \* the machine between operations
    last,             \* the last operation: name, path, data, result
    short,            \* blocks or inodes have run out
    ops,              \* operations so far
    faults            \* failing writes so far

vars == <<efi, fs, last, short, ops, faults>>

EXT2_ROOT_INO == 2
EXT2_FIRST_INO == 3
Blocks == 0 .. Groups * BlocksPerGroup - 1
Inos == 1 .. Groups * InodesPerGroup
GroupNos == 0 .. Groups - 1

\* Slots a name takes: sizeof(EXT2DirEntry) - EXT2_PATH_MAX + name_len, rounded.
RecLen(name) == IF name = "g" THEN 2 ELSE 1

-----------------------------------------------------------------------------
(* Numbers of blocks and inodes.                                           *)

MakeBlkno(g, l) == g * BlocksPerGroup + l
_BloknoToGrpno(b) == b \div BlocksPerGroup
_InoToGrpno(i) == IF i = 0 THEN 0 ELSE (i - 1) \div InodesPerGroup
\* The inode that _WriteInode(ino) writes: for 0 the first one.
InodeSlot(i) == IF i = 0 THEN 1 ELSE i
\* A free count is unsigned and wraps: 16 bits in a group, 32 in the superblock
\* (the same width here, far from both ends).
CountWidth == 65536
Up(n) == (n + 1) % CountWidth
Down(n) == (n + CountWidth - 1) % CountWidth
\* The numbers of a set in order.
Ascending(set) ==
    <<>> \o [k \in 1 .. Cardinality(set) |-> CHOOSE x \in set : Cardinality({y \in set : y < x}) = k - 1]

\* At most the first n of a sequence.
Prefix(s, n) == SubSeq(s, 1, IF n < Len(s) THEN n ELSE Len(s))

-----------------------------------------------------------------------------
(* Writes.                                                                 *)

\* One write of the device; d is the disk after it.
Write(m, d) ==
    IF m.err # "none" THEN m
    ELSE IF m.left = 0 THEN [m EXCEPT !.err = "write"]
    ELSE [m EXCEPT !.d = d, !.left = @ - 1]

_WriteSuperBlock(m) == Write(m, [m.d EXCEPT !.sb = m.sb])
_WriteGroup(m, g) == Write(m, [m.d EXCEPT !.gd[g] = m.gd[g]])
EXT2WriteBlock(m, b, content) == Write(m, [m.d EXCEPT !.blk[b] = content])
_WriteInode(m, i, inode) == Write(m, [m.d EXCEPT !.ino[InodeSlot(i)] = inode])

\* A bitmap is the set of its numbers that are in use.
EXT2ReadBlockBitmap(d, g) == {b \in d.bb : _BloknoToGrpno(b) = g}
EXT2WriteBlockBitmap(m, g, used) ==
    Write(m, [m.d EXCEPT !.bb = {b \in @ : _BloknoToGrpno(b) # g} \cup used])
EXT2readReadInodeBitmap(d, g) == {i \in d.ib : _InoToGrpno(i) = g}
_WriteBlockBitmap(m, g, used) ==
    Write(m, [m.d EXCEPT !.ib = {i \in @ : _InoToGrpno(i) # g} \cup used])
_WriteGroubWithBitmap(m, g, used) == EXT2WriteBlockBitmap(_WriteGroup(m, g), g, used)

-----------------------------------------------------------------------------
(* Block numbers of an inode.                                              *)

NoBlock == [none |-> TRUE]
NoInode == [mode |-> "none", size |-> 0, links |-> 0, osd1 |-> 0, block |-> [k \in 1 .. Direct + 3 |-> 0]]
Single == Direct + 1
Double == Direct + 2
Triple == Direct + 3

Ptrs(d, b) == IF "ptrs" \in DOMAIN d.blk[b] THEN d.blk[b].ptrs ELSE <<>>
\* Up to the first zero.
_AppendDirectBlockNumbers(s) ==
    LET zeros == {k \in DOMAIN s : s[k] = 0}
    IN  IF zeros = {} THEN s ELSE SubSeq(s, 1, Min(zeros) - 1)
\* Each of the blocks s is read and gives its numbers; own: with s itself.
_AppendIndirectBlockNumbers(d, s, own) ==
    LET all[k \in 0 .. Len(s)] ==
            IF k = 0 THEN IF own THEN s ELSE <<>>
            ELSE LET before == all[k - 1] IN before \o _AppendDirectBlockNumbers(Ptrs(d, s[k]))
    IN  all[Len(s)]
_AppendDoubleIndirectBlockNumbers(d, s, own) ==
    LET all[k \in 0 .. Len(s)] ==
            IF k = 0 THEN IF own THEN s ELSE <<>>
            ELSE LET before == all[k - 1]
                 IN  before \o _AppendIndirectBlockNumbers(d, _AppendDirectBlockNumbers(Ptrs(d, s[k])), own)
    IN  all[Len(s)]
_LoadBlockNumbersFromInode(d, inode, own) ==
    LET level(k, numbers) ==
            IF inode.block[k] = 0 THEN <<>>
            ELSE (IF own THEN <<inode.block[k]>> ELSE <<>>) \o numbers
        below(k) == _AppendDirectBlockNumbers(Ptrs(d, inode.block[k]))
    IN  _AppendDirectBlockNumbers(SubSeq(inode.block, 1, Direct))
        \o level(Single, below(Single))
        \o level(Double, _AppendIndirectBlockNumbers(d, below(Double), own))
        \o level(Triple, _AppendDoubleIndirectBlockNumbers(d, below(Triple), own))

ReadBlocks(d, s) == [k \in 1 .. Len(s) |-> d.blk[s[k]]]
EXT2LoadFileFromInode(d, inode) == ReadBlocks(d, _LoadBlockNumbersFromInode(d, inode, FALSE))

-----------------------------------------------------------------------------
(* Allocation.  Running out is no error: the caller gets zero.             *)

_GetBlockUnmarked(m) ==
    LET free == Blocks \ m.d.bb
        b == Min(free)
    IN  IF m.err # "none" THEN m
        ELSE IF free = {} THEN [m EXCEPT !.out = 0, !.short = TRUE]
        ELSE [m EXCEPT !.out = b]
_GetBlock(m) ==
    LET free == Blocks \ m.d.bb
        b == Min(free)
        g == _BloknoToGrpno(b)
        group(n) == _WriteGroup([n EXCEPT !.gd[g].fb = IF n.err = "none" THEN Down(@) ELSE @], g)
    IN  IF m.err # "none" THEN m
        ELSE IF free = {} THEN [m EXCEPT !.out = 0, !.short = TRUE]
        ELSE EXT2WriteBlockBitmap(group(_WriteSuperBlock([m EXCEPT !.out = b, !.sb.fb = Down(@)])),
                                  g, EXT2ReadBlockBitmap(m.d, g) \cup {b})

_GetIno(m) ==
    LET free == Inos \ m.d.ib
        i == Min(free)
        g == _InoToGrpno(i)
        group(n) == _WriteGroup([n EXCEPT !.gd[g].fi = IF n.err = "none" THEN Down(@) ELSE @], g)
    IN  IF m.err # "none" THEN m
        ELSE IF free = {} THEN [m EXCEPT !.out = 0, !.short = TRUE]
        ELSE _WriteBlockBitmap(group(_WriteSuperBlock([m EXCEPT !.out = i, !.sb.fi = Down(@)])),
                               g, EXT2readReadInodeBitmap(m.d, g) \cup {i})

\* The blocks s, sorted by number: a group and its bitmap are written when the
\* next block is of another group.
PutSorted(m, s) ==
    LET group(k) == _BloknoToGrpno(s[k])
        open(n, k) == [m |-> n, used |-> EXT2ReadBlockBitmap(n.d, group(k))]
        turn(r, k) ==
            IF group(k - 1) = group(k) THEN r
            ELSE open(_WriteGroubWithBitmap(r.m, group(k - 1), r.used), k)
        clear(r, k) ==
            IF r.m.err # "none" THEN r
            ELSE IF s[k] \notin r.used THEN [r EXCEPT !.m.err = "sanity"]
            ELSE [m |-> [r.m EXCEPT !.sb.fb = Up(@), !.gd[group(k)].fb = Up(@)], used |-> r.used \ {s[k]}]
        put[k \in 1 .. Len(s)] == clear(IF k = 1 THEN open(m, 1) ELSE turn(put[k - 1], k), k)
        close(r) == _WriteSuperBlock(_WriteGroubWithBitmap(r.m, group(Len(s)), r.used))
    IN  close(put[Len(s)])
\* Sorting nothing runs off the list in lsvmload.
_PutBlocks(m, blknos) ==
    IF m.err # "none" THEN m
    ELSE IF blknos = <<>> THEN IF m.efi THEN [m EXCEPT !.err = "wild"] ELSE _WriteSuperBlock(m)
    ELSE PutSorted(m, SortSeq(blknos, LAMBDA a, b : a < b))

\* The free blocks in order, group by group; list are those that got data.
_WriteData(m, data) ==
    LET todo(n) == Len(data) - Len(n.list)
        free(n, g) == Ascending({MakeBlkno(g, l) : l \in 0 .. BlocksPerGroup - 1} \ n.d.bb)
        counted(n, g) == IF n.err # "none" THEN n ELSE [n EXCEPT !.sb.fb = Down(@), !.gd[g].fb = Down(@)]
        write(n, g, b) ==
            counted(EXT2WriteBlock([n EXCEPT !.list = Append(@, b)], b, data[Len(n.list) + 1]), g)
        fill(n, g, s) ==
            LET each[k \in 0 .. Len(s)] == IF k = 0 THEN n ELSE write(each[k - 1], g, s[k])
            IN  IF s = <<>> THEN n
                ELSE _WriteGroubWithBitmap(each[Len(s)], g, EXT2ReadBlockBitmap(n.d, g) \cup Range(s))
        upto[g \in 0 .. Groups] ==
            IF g = 0 THEN [m EXCEPT !.list = <<>>]
            ELSE LET n == upto[g - 1]
                 IN  IF n.err # "none" THEN n ELSE fill(n, g - 1, Prefix(free(n, g - 1), todo(n)))
        finish(n) ==
            IF n.err # "none" THEN n ELSE IF todo(n) > 0 THEN [n EXCEPT !.short = TRUE] ELSE _WriteSuperBlock(n)
    IN  IF m.err # "none" THEN m ELSE finish(upto[Groups])

-----------------------------------------------------------------------------
(* Block pointers of an inode.                                             *)

Chunks(s, n) ==
    [k \in 1 .. (Len(s) + n - 1) \div n |-> SubSeq(s, (k - 1) * n + 1, IF k * n < Len(s) THEN k * n ELSE Len(s))]

_WriteSingleDirectBlockNumbers(m, s) ==
    LET fill(n) == EXT2WriteBlock(n, n.out, [ptrs |-> s]) IN fill(_GetBlock(m))

\* The block is taken before the ones it will point to.
WriteLevel(m, parts, part(_, _)) ==
    LET add(r, n) == [m |-> n, s |-> Append(r.s, n.out)]
        below(got) ==
            LET upto[k \in 0 .. Len(parts)] ==
                    IF k = 0 THEN [m |-> got, s |-> <<>>]
                    ELSE LET r == upto[k - 1] IN add(r, part(r.m, parts[k]))
            IN  upto[Len(parts)]
        fill(r, b) == [EXT2WriteBlock(r.m, b, [ptrs |-> r.s]) EXCEPT !.out = b]
        level(got) == fill(below(got), got.out)
    IN  level(_GetBlock(m))
_WriteIndirectBlockNumbers(m, indirection, s) ==
    LET double(n, t) == WriteLevel(n, Chunks(t, PerBlock), _WriteSingleDirectBlockNumbers)
    IN  IF indirection = 2 THEN double(m, s)
        ELSE WriteLevel(m, Chunks(s, PerBlock * PerBlock), double)

\* Pointers that the new list does not reach stay as they are.
_UpdateInodeBlockPointers(m, i, inode, size, s) ==
    LET cut(a, b) == SubSeq(s, a + 1, IF b < Len(s) THEN b ELSE Len(s))
        one == Direct + PerBlock
        two == one + PerBlock * PerBlock
        direct == [inode EXCEPT !.size = size,
                                !.block = [k \in 1 .. Direct + 3 |-> IF k <= Direct /\ k <= Len(s) THEN s[k] ELSE @[k]]]
        set(r, k, n) == [m |-> n, inode |-> [r.inode EXCEPT !.block[k] = n.out]]
        single(r) == IF Len(s) <= Direct THEN r
                     ELSE set(r, Single, _WriteSingleDirectBlockNumbers(r.m, cut(Direct, one)))
        double(r) == IF Len(s) <= one THEN r
                     ELSE set(r, Double, _WriteIndirectBlockNumbers(r.m, 2, cut(one, two)))
        triple(r) == IF Len(s) <= two THEN r
                     ELSE set(r, Triple, _WriteIndirectBlockNumbers(r.m, 3, cut(two, Len(s))))
        write(r) == _WriteInode(r.m, i, r.inode)
    IN  write(triple(double(single([m |-> m, inode |-> direct]))))

\* osd1: entries and one more for a directory, one for a file.
_UpdateInodeDataBlocks(m, i, inode, data, count) ==
    LET point(n) == _UpdateInodeBlockPointers(n, i, [inode EXCEPT !.osd1 = count + 1], Len(data), n.list)
    IN  point(_WriteData(m, data))

-----------------------------------------------------------------------------
(* Directories.                                                            *)

Ent(name, i, type) == [name |-> name, ino |-> i, type |-> type]
Ents(block) == IF "ents" \in DOMAIN block THEN block.ents ELSE <<>>
\* EXT2OpenDirIno, EXT2ReadDir: the entries in the size of the directory.
EXT2ListDirInode(d, i) ==
    LET inode == d.ino[InodeSlot(i)]
        list(data) == FlattenSeq([k \in 1 .. Len(data) |-> Ents(data[k])])
    IN  IF inode.mode # "dir" THEN <<>> ELSE list(Prefix(EXT2LoadFileFromInode(d, inode), inode.size))

_FindDirectoryEntry(ents, name) == SelectSeq(ents, LAMBDA e : e.name = name)

\* Zero where the path leads nowhere.  All but the last name are directories.
EXT2PathToIno(d, path) ==
    LET found(hits) == IF hits = <<>> THEN 0 ELSE hits[1].ino
        at[k \in 0 .. Len(path)] ==
            IF k = 0 THEN EXT2_ROOT_INO
            ELSE LET dir == at[k - 1]
                 IN  IF dir = 0 THEN 0
                     ELSE found(SelectSeq(EXT2ListDirInode(d, dir),
                                          LAMBDA e : e.name = path[k] /\ (k = Len(path) \/ e.type = "dir")))
    IN  at[Len(path)]
_SplitFullPath(path) == SubSeq(path, 1, Len(path) - 1)

\* Entries one after another, each within a block.  Blocks that are exactly
\* full fail _CheckDirectoryEntries; more than the old size runs off the
\* buffer.
_AppendDirectoryEntry(blocks, e) ==
    LET n == Len(blocks)
        used == FoldSeq(LAMBDA x, sum : RecLen(x.name) + sum, 0, blocks[n])
    IN  IF used + RecLen(e.name) > Slots THEN Append(blocks, <<e>>)
        ELSE [blocks EXCEPT ![n] = Append(@, e)]
_CheckDirectoryEntries(blocks) ==
    FoldSeq(LAMBDA x, sum : RecLen(x.name) + sum, 0, blocks[Len(blocks)]) < Slots
_IndexDirectoryToLinkedListDirectory(ents, size) ==
    LET packed(blocks) ==
            IF Len(blocks) > size THEN [err |-> "overrun"]
            ELSE IF ~_CheckDirectoryEntries(blocks) THEN [err |-> "failed"]
            ELSE [err |-> "none", blocks |-> [k \in 1 .. Len(blocks) |-> [ents |-> blocks[k]]]]
    IN  packed(FoldLeft(_AppendDirectoryEntry, <<<<>>>>, ents))

\* A rewrite that empties the directory before it writes it anew.
RewriteCleared(m, dir, inode, ents) ==
    LET freed == _PutBlocks(m, _LoadBlockNumbersFromInode(m.d, inode, TRUE))
        write(new) ==
            IF new.err # "none" THEN [m EXCEPT !.err = new.err]
            ELSE _UpdateInodeDataBlocks(_WriteInode(freed, dir, [inode EXCEPT !.size = 0]), dir, inode, new.blocks, Len(ents))
    IN  IF m.err # "none" THEN m ELSE write(_IndexDirectoryToLinkedListDirectory(ents, inode.size))
\* The directory's blocks are freed, then written anew.
Rewrite(m, dir, inode, ents) ==
    LET freed == _PutBlocks(m, _LoadBlockNumbersFromInode(m.d, inode, TRUE))
        write(new) ==
            IF new.err # "none" THEN [m EXCEPT !.err = new.err]
            ELSE _UpdateInodeDataBlocks(freed, dir, inode, new.blocks, Len(ents))
    IN  IF m.err # "none" THEN m ELSE write(_IndexDirectoryToLinkedListDirectory(ents, inode.size))

\* A file's data, taken for entries, has no end.
_AddDirectoryEntry(m, dir, inode, e) ==
    LET ents == EXT2ListDirInode(m.d, dir)
    IN  IF m.err # "none" THEN m
        ELSE IF inode.mode # "dir" THEN [m EXCEPT !.err = "overrun"]
        ELSE IF _FindDirectoryEntry(ents, e.name) # <<>> THEN [m EXCEPT !.err = "found"]
        ELSE Rewrite(m, dir, inode, Append(ents, e))
\* A directory is not removed: its name alone is no full path.
RemoveEntry(m, dir, name) ==
    LET ents == EXT2ListDirInode(m.d, dir)
        hits == _FindDirectoryEntry(ents, name)
    IN  IF m.err # "none" \/ hits = <<>> THEN m
        ELSE IF hits[1].type = "dir" THEN [m EXCEPT !.err = "parameter"]
        ELSE Rewrite(m, dir, m.d.ino[dir], SelectSeq(ents, LAMBDA e : e # hits[1]))

-----------------------------------------------------------------------------
(* Operations.                                                             *)

NotFound(m) == [m EXCEPT !.err = "not found"]

\* The file i without its blocks; a directory is left alone.
TruncInode(m, i) ==
    LET inode == m.d.ino[i]
        freed == _PutBlocks(m, _LoadBlockNumbersFromInode(m.d, inode, TRUE))
    IN  IF i = 0 THEN NotFound(m)
        ELSE IF inode.mode = "dir" THEN m
        ELSE _WriteSuperBlock(_WriteInode(freed, i, [inode EXCEPT !.size = 0, !.block = NoInode.block]))
EXT2Trunc(m, path) ==
    IF m.err # "none" THEN m
    ELSE IF EXT2PathToIno(m.d, _SplitFullPath(path)) = 0 THEN NotFound(m)
    ELSE TruncInode(m, EXT2PathToIno(m.d, path))

EXT2Update(m, data, path) ==
    LET write(n, i) == IF n.err # "none" THEN n ELSE _UpdateInodeDataBlocks(n, i, n.d.ino[i], data, 0)
        update(n) == write(n, EXT2PathToIno(n.d, path))
    IN  update(EXT2Trunc(m, path))

EXT2Rm(m, path) ==
    LET remove(n) == RemoveEntry(n, EXT2PathToIno(n.d, _SplitFullPath(path)), Last(path))
    IN  remove(EXT2Trunc(m, path))

_CreateFileInode(m, size, s) ==
    LET inode == [NoInode EXCEPT !.mode = "reg", !.links = 1, !.osd1 = 1]
        create(n) == [_UpdateInodeBlockPointers(n, n.out, inode, size, s) EXCEPT !.out = n.out]
    IN  create(_GetIno(m))

\* A file that is there is left alone, and that is a success; a directory is
\* given to EXT2Rm.
EXT2Put(m, data, path) ==
    LET inode(n) == _CreateFileInode(n, Len(data), n.list)
        enter(n, dir) == _AddDirectoryEntry(n, dir, m.d.ino[dir], Ent(Last(path), n.out, "reg"))
        put(dir, i) ==
            IF dir = 0 THEN NotFound(m)
            ELSE IF i # 0 /\ m.d.ino[i].mode # "dir" THEN m
            ELSE enter(inode(_WriteData(IF i = 0 THEN m ELSE EXT2Rm(m, path), data)), dir)
    IN  IF m.err # "none" THEN m
        ELSE IF data = <<>> THEN [m EXCEPT !.err = "parameter"]
        ELSE put(EXT2PathToIno(m.d, _SplitFullPath(path)), EXT2PathToIno(m.d, path))

_CreateDirInodeAndBlock(m, parent) ==
    LET dots(i) == [ents |-> <<Ent(".", i, "dir"), Ent("..", parent, "dir")>>]
        inode == [NoInode EXCEPT !.mode = "dir", !.links = 2, !.osd1 = 1]
        block(n, i) ==
            [_UpdateInodeBlockPointers(EXT2WriteBlock(n, n.out, dots(i)), i, inode, 1, <<n.out>>) EXCEPT !.out = i]
        create(n) == block(_GetBlock(n), n.out)
    IN  create(_GetIno(m))

EXT2MkDir(m, path) ==
    LET enter(n, dir) ==
            _AddDirectoryEntry(n, dir, [m.d.ino[dir] EXCEPT !.links = @ + 1], Ent(Last(path), n.out, "dir"))
        make(dir) ==
            IF dir = 0 THEN NotFound(m)
            ELSE IF EXT2PathToIno(m.d, path) # 0 THEN m
            ELSE enter(_CreateDirInodeAndBlock(m, dir), dir)
    IN  make(EXT2PathToIno(m.d, _SplitFullPath(path)))

\* lsvmload: the initrd is removed, then put again with the keys in it.
PatchInitrd(m, data, path) == EXT2Put(EXT2Rm(m, path), data, path)

\* What a path shows: its inode number, mode and contents.
EXT2LoadFileFromPath(d, path) ==
    LET show(i) ==
            IF i = 0 THEN [ino |-> 0, mode |-> "none"]
            ELSE [ino |-> i, mode |-> d.ino[i].mode, size |-> d.ino[i].size,
                  data |-> IF d.ino[i].mode = "dir" THEN EXT2ListDirInode(d, i)
                           ELSE EXT2LoadFileFromInode(d, d.ino[i])]
    IN  show(EXT2PathToIno(d, path))

-----------------------------------------------------------------------------
(* Commands of lsvmtool and calls of lsvmload.                             *)

Never == 99                      \* more writes than any operation makes: no fault

Machine(k) ==
    [d |-> fs.d, sb |-> fs.sb, gd |-> fs.gd, err |-> "none", out |-> 0, list |-> <<>>, left |-> k,
     efi |-> efi, short |-> FALSE]

\* One operation; a fault stops it at the write it falls on.
Operation(op, path, data, run(_)) ==
    /\ ops < MaxOps
    /\ last.res \notin {"wild", "overrun"}
    /\ \E k \in (IF faults < MaxFaults /\ ops + 2 <= MaxOps THEN 0 .. Never - run(Machine(Never)).left - 1 ELSE {}) \cup {Never} :
          LET m == run(Machine(k))
          IN  /\ fs' = [d |-> m.d, sb |-> m.sb, gd |-> m.gd]
              /\ last' = [op |-> op, path |-> path, data |-> data, res |-> m.err]
              /\ short' = (short \/ m.short)
              /\ faults' = IF k = Never THEN faults ELSE faults + 1
              /\ ops' = IF k = Never THEN ops + 1 ELSE ops + 2
    /\ UNCHANGED efi

_put_command(path, data) == Operation("put", path, data, LAMBDA m : EXT2Put(m, data, path))
_rm_command(path) == Operation("rm", path, <<>>, LAMBDA m : EXT2Rm(m, path))
_mkdir_command(path) == Operation("mkdir", path, <<>>, LAMBDA m : EXT2MkDir(m, path))
_trunc_command(path) == ~efi /\ Operation("trunc", path, <<>>, LAMBDA m : EXT2Trunc(m, path))
\* Given a directory, EXT2Update writes the data over its entries: the model
\* gives it files only.
_update_command(path, data) ==
    /\ ~efi
    /\ EXT2LoadFileFromPath(fs.d, path).mode # "dir"
    /\ Operation("update", path, data, LAMBDA m : EXT2Update(m, data, path))
Patch(path, data) == efi /\ Operation("patch", path, data, LAMBDA m : PatchInitrd(m, data, path))

\* The next command or boot opens the file system again.
EXT2New ==
    /\ last.res # "none"
    /\ fs' = [fs EXCEPT !.sb = fs.d.sb, !.gd = fs.d.gd]
    /\ last' = [op |-> "new", path |-> <<>>, data |-> <<>>, res |-> "none"]
    /\ UNCHANGED <<efi, short, ops, faults>>

Paths == {<<"f">>, <<"g">>, <<"d">>, <<"d", "f">>}
DataSet == {[k \in 1 .. n |-> [data |-> k]] : n \in {1, Direct + PerBlock + 1}}

\* A file system as mkfs and Linux leave it: the files of the root directory,
\* one block each, after the blocks of the directory.
InitBlocks == FoldLeft(_AppendDirectoryEntry, <<<<Ent(".", 2, "dir"), Ent("..", 2, "dir")>>>>,
                       [k \in 1 .. Len(Files) |-> Ent(Files[k], 2 + k, "reg")])
InitDisk ==
    LET n == Len(InitBlocks)
        used == SubSeq(Ascending(Blocks \ Meta), 1, n + Len(Files))
        bb == Meta \cup Range(used)
        ib == 1 .. 2 + Len(Files)
        fb(g) == Cardinality({b \in Blocks \ bb : _BloknoToGrpno(b) = g})
        fi(g) == Cardinality({i \in Inos \ ib : _InoToGrpno(i) = g})
        inode(mode, s, links) ==
            [NoInode EXCEPT !.mode = mode, !.size = Len(s), !.links = links, !.osd1 = 1,
                            !.block = [k \in 1 .. Direct + 3 |-> IF k <= Len(s) THEN s[k] ELSE 0]]
    IN  [bb |-> bb, ib |-> ib,
         sb |-> [fb |-> Cardinality(Blocks \ bb), fi |-> Cardinality(Inos \ ib)],
         gd |-> [g \in GroupNos |-> [fb |-> fb(g), fi |-> fi(g)]],
         ino |-> [i \in Inos |-> CASE i = 2 -> inode("dir", SubSeq(used, 1, n), 2)
                                   [] i > 2 /\ i <= 2 + Len(Files) -> inode("reg", <<used[n + i - 2]>>, 1)
                                   [] OTHER -> NoInode],
         blk |-> [b \in Blocks |->
                     IF b \in Range(SubSeq(used, 1, n)) THEN [ents |-> InitBlocks[CHOOSE k \in 1 .. n : used[k] = b]]
                     ELSE IF b \in Range(used) THEN [data |-> 0] ELSE NoBlock]]

Init ==
    /\ efi \in BOOLEAN
    /\ fs = [d |-> InitDisk, sb |-> InitDisk.sb, gd |-> InitDisk.gd]
    /\ last = [op |-> "new", path |-> <<>>, data |-> <<>>, res |-> "none"]
    /\ short = FALSE
    /\ ops = 0
    /\ faults = 0

Next ==
    \/ EXT2New
    \/ \E path \in Paths : _rm_command(path) \/ _trunc_command(path)
    \/ \E path \in Paths, data \in DataSet : _put_command(path, data) \/ _update_command(path, data)
    \/ \E data \in DataSet : Patch(<<"f">>, data)
    \/ _mkdir_command(<<"d">>)

Spec == Init /\ [][Next]_vars

-----------------------------------------------------------------------------
(* Reading.                                                                *)

\* The check command: the free counts of the handle against the groups' and
\* the bitmaps, and that every inode in use looks used.
EXT2Check ==
    LET sum(f) == FoldFunction(LAMBDA x, n : x + n, 0, f)
    IN  /\ fs.sb.fb = sum([g \in GroupNos |-> fs.gd[g].fb])
        /\ fs.sb.fb = Cardinality(Blocks) - Cardinality(fs.d.bb)
        /\ fs.sb.fi = Cardinality(Inos) - Cardinality(fs.d.ib)
        /\ fs.sb.fi = sum([g \in GroupNos |-> fs.gd[g].fi])
        /\ \A i \in fs.d.ib : i = EXT2_ROOT_INO \/ i >= EXT2_FIRST_INO =>
              /\ fs.d.ino[i].mode # "none"
              /\ fs.d.ino[i].size > 0 => fs.d.ino[i].block[1] # 0

-----------------------------------------------------------------------------
(* Properties.                                                             *)

Live(d) == {i \in d.ib : d.ino[i].mode # "none"}
EXT2GetBlockNumbers(d, i) == _LoadBlockNumbersFromInode(d, d.ino[i], TRUE)
Clean == faults = 0 /\ ~short

\* The variables hold what their comments say.
TypeOK ==
    /\ fs.d.bb \subseteq Blocks /\ fs.d.ib \subseteq Inos
    /\ fs.d.sb.fb \in 0 .. CountWidth - 1 /\ fs.d.sb.fi \in 0 .. CountWidth - 1
    /\ \A i \in Inos : fs.d.ino[i].mode \in {"none", "reg", "dir"}
                       /\ \A k \in 1 .. Direct + 3 : fs.d.ino[i].block[k] \in Blocks
    /\ last.res \in {"none", "write", "failed", "sanity", "wild", "overrun", "parameter", "not found", "found"}
    /\ ops \in 0 .. MaxOps /\ faults \in 0 .. MaxFaults

\* Without faults and with room, no block belongs to two files or twice to
\* one, the file system's own blocks belong to none, and what a file lists is
\* marked as used, indirect blocks too (_PutBlocks, _GetBlock, _WriteData).
BlocksOwned ==
    Clean =>
        /\ \A i \in Live(fs.d) :
              LET s == EXT2GetBlockNumbers(fs.d, i)
              IN  IsInjective(s) /\ Range(s) \subseteq fs.d.bb \ Meta
        /\ \A i, j \in Live(fs.d) :
              i # j => Range(EXT2GetBlockNumbers(fs.d, i)) \cap Range(EXT2GetBlockNumbers(fs.d, j)) = {}

\* Without faults and with room, the counts are right after every operation,
\* and those on the disk are those of the handle: the check command passes,
\* and passes again after a reopen.
Accounting ==
    Clean => EXT2Check /\ fs.sb = fs.d.sb /\ fs.gd = fs.d.gd

\* lsvmload never sorts an empty list of blocks (_Sort in _PutBlocks), as
\* long as no write failed: only a fault in EXT2Rm leaves an empty file.
SortsSomething == efi /\ faults = 0 => last.res # "wild"

\* An operation, even one that a fault stops or that runs out of room,
\* changes no other file or directory: their inodes and the blocks they list
\* are as they were.
OthersKept ==
    [][Clean /\ ops' > ops =>
         LET path == last'.path
             own == {EXT2PathToIno(fs.d, path), EXT2PathToIno(fs.d, Front(path))}
         IN  \A i \in Live(fs.d) \ own :
                /\ fs'.d.ino[i] = fs.d.ino[i]
                /\ EXT2LoadFileFromInode(fs'.d, fs'.d.ino[i]) = EXT2LoadFileFromInode(fs.d, fs.d.ino[i])]_vars

\* What a successful operation promises: the file holds the data, or is gone,
\* or is empty, or the directory is there.  Nothing is promised of a name that
\* a put or a mkdir finds in use: see ExistingReplaced.  All other names are as
\* they were.
Promised(old, new, op, data) ==
    CASE op \in {"put", "mkdir"} /\ old.ino # 0 -> TRUE
      [] op \in {"put", "patch", "update"} -> new.ino # 0 /\ new.data = data /\ new.size = Len(data)
      [] op = "rm" -> new.ino = 0
      [] op = "trunc" -> IF old.mode = "dir" THEN new = old ELSE new.ino = old.ino /\ new.data = <<>>
      [] op = "mkdir" -> new.ino # 0 /\ Len(new.data) = 2 /\ new.data[2].ino = EXT2_ROOT_INO

\* What the comments of EXT2Put and EXT2MkDir say of a name that is in use:
\* "Disallow overwriting of directory", "Delete the file if it exists" and "Fail
\* if the directory already exists".  A put that reports success found no
\* directory and left its own data behind, and no mkdir reports success.  The
\* code does not do this (the test at ext2.c:4608 is negated, and EXT2MkDir
\* leaves with the result of the lookup): its run shows how.
ExistingReplaced ==
    [][Clean /\ ops' > ops /\ last'.res = "none" /\ ~short' =>
         LET old == EXT2LoadFileFromPath(fs.d, last'.path)
             new == EXT2LoadFileFromPath(fs'.d, last'.path)
         IN  /\ last'.op = "put" /\ old.ino # 0 => old.mode # "dir" /\ new.data = last'.data
             /\ last'.op = "mkdir" => old.ino = 0]_vars

\* A fault leaves every other name leading to the file it led to: a directory
\* of one block is the old or the new one.
FaultKeepsNames ==
    [][Clean /\ faults' > faults =>
         \A q \in Paths \ {last'.path} : EXT2PathToIno(fs'.d, q) = EXT2PathToIno(fs.d, q)]_vars

\* The file system after every operation (EXT2Put, EXT2Rm, EXT2Trunc, EXT2Update,
\* EXT2MkDir): blocks have one owner, counts and bitmaps agree, and no operation
\* of lsvmload met an empty list.
FileSystemInv == TypeOK /\ BlocksOwned /\ Accounting /\ SortsSomething

\* What an operation may never do to others, stopped by a failing write or not:
\* change another file, or where another name leads (_AddDirectoryEntry,
\* EXT2Rm).
OthersUntouched == OthersKept /\ FaultKeepsNames
================================================================================
