---------------------------------- MODULE Vfat ----------------------------------
(***************************************************************************)
(* The VFAT file system of lsvmutils/vfat.c, as lsvmtool's vfat commands    *)
(* use it on the EFI system partition and as lsvmload fills the embedded    *)
(* image of efivfatfs.c (MapEFIVFAT).                                       *)
(*                                                                          *)
(* A command reads the file allocation table and the root directory into    *)
(* memory (VFATInit), changes them there and writes file, directory and     *)
(* both tables in that order; any write can fail, which ends the command.   *)
(* Names are 8.3 names: paths are sequences of them, Upper folds their      *)
(* case.  A cluster holds ClusterSize units of data or DirEnts entries.     *)
(***************************************************************************)
EXTENDS Naturals, Sequences, SequencesExt, FiniteSets, FiniteSetsExt

CONSTANTS
    FATTypes,                  \* the types of file system to start from
    Names, Upper,              \* path elements; Toupper
    Vendor, LoaderDirs,        \* globals.efiVendorDir, directories of lsvmload
    CountOfClusters, ClusterSize, DirEnts, RootEnts,
    Half,                      \* numbers that fstClusLO tells apart (2^16)
    Paths, Sizes,              \* what the commands are given
    MaxOps, MaxFaults

ASSUME VfatAssumption ==
    /\ FATTypes \subseteq {"FAT12", "FAT16", "FAT32"}
    /\ Upper \in [Names -> Names]
    /\ {CountOfClusters, ClusterSize, DirEnts, RootEnts, Half} \subseteq Nat \ {0}

VARIABLES disk, last, faults

vars == <<disk, last, faults>>

Clusters == 2 .. CountOfClusters + 1
EofMark == 1000                  \* 0x0FF8, 0xFFF8, 0x0FFFFFF8
RootClus == 2

\* An entry is free, deleted (0xE5), part of a long name, or in use.
Ent(name, isDir, clus, size) == [name |-> name, isDir |-> isDir, clus |-> clus, size |-> size]
Free == Ent("", FALSE, 0, 0)
Deleted == Ent("E5", FALSE, 0, 0)
LongName == Ent("long", FALSE, 0, 0)
InUse(e) == e.name \in Names

Zero == <<>>                      \* a unit of zeros
Directory(ents) == [ents |-> ents]
Data(units) == [units |-> units]
Zeros == Directory([i \in 1 .. DirEnts |-> Free])
IsDirectory(block) == "ents" \in DOMAIN block
Units(block) == IF IsDirectory(block) THEN [i \in 1 .. ClusterSize |-> Zero] ELSE block.units
Ents(block) == IF IsDirectory(block) THEN block.ents ELSE <<>>

-----------------------------------------------------------------------------
(* The file allocation table.                                               *)

\* GetEOC: for FAT16 a number that IsEOF takes for a cluster, 0x0FF8; the last
\* cluster stands for it.
GetEOC(v) == IF v.type = "FAT16" THEN CountOfClusters + 1 ELSE EofMark
IsEOF(x) == x >= EofMark
GetFATEntry(v, c) == IF c \in Clusters THEN v.fat[c] ELSE 0
SetFATEntry(v, c, x) == [v EXCEPT !.fat[c] = x]

\* The clusters a loop "while (clustno && !IsEOF(vfat, clustno))" visits; more
\* than there are means that it does not end.
Chain(v, c) ==
    LET upTo[n \in 0 .. CountOfClusters + 1] ==
            IF n = 0 THEN [seq |-> <<>>, next |-> c]
            ELSE LET p == upTo[n - 1]
                 IN  IF p.next = 0 \/ IsEOF(p.next) THEN p
                     ELSE [seq |-> Append(p.seq, p.next), next |-> GetFATEntry(v, p.next)]
    IN  upTo[CountOfClusters + 1].seq
Endless(v, c) == Len(Chain(v, c)) > CountOfClusters

\* The buffers of a chain; Nil stands for no data.  Cluster 1, which an entry may
\* name by mistake, lies before the first: spare sectors of the second table.
Nil == <<"nil">>
ReadCluster(d, c) == IF c \in Clusters THEN d.data[c] ELSE Zeros
ReadClusters(v, d, c) == [i \in DOMAIN Chain(v, c) |-> ReadCluster(d, Chain(v, c)[i])]

FreeClusters(v) == SelectSeq([i \in 1 .. CountOfClusters |-> i + 1],
                             LAMBDA c : GetFATEntry(v, c) = 0)

\* Mutant of _AllocateFATChain: the last entry of the chain is not set.
_AllocateFATChainUnended(v, n) ==
    LET seq == FreeClusters(v)
    IN  IF Len(seq) < n THEN [ok |-> FALSE, v |-> v, clustno |-> 0]
        ELSE IF n = 0 THEN [ok |-> TRUE, v |-> v, clustno |-> 0]
        ELSE [ok |-> TRUE, clustno |-> seq[1],
              v |-> [v EXCEPT !.fat = [c \in Clusters |->
                        IF \E i \in 1 .. n - 1 : seq[i] = c
                        THEN seq[1 + CHOOSE i \in 1 .. n - 1 : seq[i] = c] ELSE @[c]]]]

\* The first n free clusters, linked in order.
_AllocateFATChain(v, n) ==
    LET seq == FreeClusters(v)
        link[i \in 0 .. n] ==
            IF i = 0 THEN v
            ELSE SetFATEntry(link[i - 1], seq[i], IF i = n THEN GetEOC(v) ELSE seq[i + 1])
    IN  IF Len(seq) < n THEN [ok |-> FALSE, v |-> v, clustno |-> 0]
        ELSE [ok |-> TRUE, v |-> link[n], clustno |-> IF n = 0 THEN 0 ELSE seq[1]]

-----------------------------------------------------------------------------
(* Reading.  v is the VFAT structure in memory, d the disk.                 *)

InternShortname(name) == Upper[name]

DirectoryOf(v, d, c) == FlattenSeq([i \in DOMAIN Chain(v, c) |-> Ents(ReadClusters(v, d, c)[i])])

\* VFATInit: both tables, which have to agree, and the root directory.
Mountable(d) == d.fats[1] = d.fats[2]
VFATInit(d) ==
    LET v == [type |-> d.type, fat |-> d.fats[1], rootdir |-> <<>>,
              rootdirClustno |-> IF d.type = "FAT32" THEN RootClus ELSE 0]
    IN  [v EXCEPT !.rootdir =
            IF d.type = "FAT32" THEN DirectoryOf(v, d, RootClus) ELSE d.root]

\* Up to the first free entry.
FindDirectoryEntry(ents, name) ==
    LET hits == {i \in DOMAIN ents : /\ ents[i].name = InternShortname(name)
                                     /\ \A j \in 1 .. i : ents[j].name # ""}
    IN  IF hits = {} THEN Free ELSE ents[Min(hits)]

\* Every element but the last is taken for a directory.
VFATStatFile(v, d, path) ==
    LET upTo[n \in 1 .. Len(path)] ==
            IF n = 1 THEN FindDirectoryEntry(v.rootdir, path[1])
            ELSE IF upTo[n - 1] = Free \/ Endless(v, upTo[n - 1].clus) THEN Free
            ELSE FindDirectoryEntry(DirectoryOf(v, d, upTo[n - 1].clus), path[n])
    IN  IF path = <<>> THEN Free ELSE upTo[Len(path)]

LoadFileFromDirectoryEntry(v, d, e) ==
    LET got == FlattenSeq([i \in DOMAIN Chain(v, e.clus) |-> Units(ReadClusters(v, d, e.clus)[i])])
    IN  IF Endless(v, e.clus) \/ Len(got) < e.size THEN Nil
        ELSE IF e.isDir THEN got ELSE SubSeq(got, 1, e.size)

VFATGetFile(d, path) ==
    LET v == VFATInit(d)
        e == VFATStatFile(v, d, path)
    IN  IF e = Free THEN Nil ELSE LoadFileFromDirectoryEntry(v, d, e)

\* The entries and the first cluster of a directory.
_LoadDir(v, d, path) ==
    IF path = <<>> THEN [ok |-> TRUE, ents |-> v.rootdir, clustno |-> v.rootdirClustno]
    ELSE LET e == VFATStatFile(v, d, path)
         IN  IF e = Free \/ ~e.isDir \/ Endless(v, e.clus)
             THEN [ok |-> FALSE, ents |-> <<>>, clustno |-> 0]
             ELSE [ok |-> TRUE, ents |-> DirectoryOf(v, d, e.clus), clustno |-> e.clus]

VFATDir(d, path) ==
    LET dir == _LoadDir(VFATInit(d), d, path)
        n == Cardinality({i \in DOMAIN dir.ents : \A j \in 1 .. i : dir.ents[j].name # ""})
    IN  {dir.ents[i].name : i \in {j \in 1 .. n : InUse(dir.ents[j])}}

-----------------------------------------------------------------------------
(* Writing.  m is a command under way: disk, memory, and how many writes    *)
(* are left before one fails.                                               *)

Machine(d, v, k) == [disk |-> d, v |-> v, left |-> k, ok |-> TRUE]
Failed(m) == [m EXCEPT !.ok = FALSE]
Write(m, d) ==
    IF ~m.ok THEN m ELSE IF m.left = 0 THEN Failed(m)
    ELSE [m EXCEPT !.disk = d, !.left = @ - 1]

\* Written over, the second table is not like the first.
Spoiled == [c \in Clusters |-> EofMark + 1]
WriteCluster(m, c, block) ==
    Write(m, IF c \in Clusters THEN [m.disk EXCEPT !.data[c] = block]
             ELSE [m.disk EXCEPT !.fats[2] = Spoiled])

\* Mutant of WriteClusters: the same data are written each time.
WriteClustersStuck(m, c, blocks) ==
    LET chain == Chain(m.v, c)
        upTo[i \in 0 .. Len(blocks)] ==
            IF i = 0 THEN m ELSE WriteCluster(upTo[i - 1], chain[i], blocks[1])
    IN  upTo[Len(blocks)]

\* blocks: the data cut into clusters.  When the data end with a cluster and
\* the chain does not, one of zeros is written before the loop stops.
WriteClusters(m, c, blocks) ==
    LET chain == Chain(m.v, c)
        n == Len(blocks)
        upTo[i \in 0 .. Len(chain)] ==
            IF i = 0 THEN m
            ELSE IF i <= n THEN WriteCluster(upTo[i - 1], chain[i], blocks[i])
            ELSE IF i = n + 1 THEN WriteCluster(upTo[i - 1], chain[i], Zeros)
            ELSE upTo[i - 1]
        partial == n > 0 /\ ~IsDirectory(blocks[n]) /\ Zero \in ToSet(blocks[n].units)
    IN  IF Len(chain) < n THEN Failed(upTo[Len(chain)])
        ELSE IF partial THEN upTo[n] ELSE upTo[Len(chain)]

_FlushFAT(m) ==
    LET second(n) == Write(n, [n.disk EXCEPT !.fats[2] = n.v.fat])
    IN  second(Write(m, [m.disk EXCEPT !.fats[1] = m.v.fat]))

\* Mutant of _FlushRoot: the directory is erased and then written.
_FlushRootErased(m, ents) ==
    LET e == Write(m, [m.disk EXCEPT !.root = [i \in DOMAIN ents |-> Free]])
    IN  Write(e, [e.disk EXCEPT !.root = ents])
_FlushRoot(m, ents) == Write(m, [m.disk EXCEPT !.root = ents])
Blocks(ents) == [i \in 1 .. Len(ents) \div DirEnts |->
                    Directory(SubSeq(ents, (i - 1) * DirEnts + 1, i * DirEnts))]
_FlushFile(m, blocks, c) == IF blocks = <<>> \/ ~m.ok THEN m ELSE WriteClusters(m, c, blocks)
_FlushDir(m, ents, c) == IF c = 0 THEN _FlushRoot(m, ents) ELSE _FlushFile(m, Blocks(ents), c)

\* A file's data as clusters, the last one filled with zeros.
Cut(units) ==
    [i \in 1 .. (Len(units) + ClusterSize - 1) \div ClusterSize |->
        Data([j \in 1 .. ClusterSize |->
            IF (i - 1) * ClusterSize + j <= Len(units) THEN units[(i - 1) * ClusterSize + j] ELSE Zero])]

\* The first deleted or free entry; the last place of a directory stays free.
Slot(ents) == LET s == {i \in DOMAIN ents : ents[i] \in {Free, Deleted}}
              IN  IF s = {} THEN Len(ents) + 1 ELSE Min(s)
NoRoom(ents) == Slot(ents) >= Len(ents)

\* Entries "." and ".." of a new directory: not entries of a name, and nothing
\* follows their clusters, but they take two places.
Dot == Ent(".", TRUE, 0, 0)
NewDirectory == Directory(<<Dot, Dot>> \o [i \in 1 .. DirEnts - 2 |-> Free])

\* What fstClusHI and fstClusLO keep of a first cluster: the high half is shifted
\* up and out.  Only FAT32 has clusters that need it.
FirstClus(v, c) == IF v.type = "FAT32" THEN c % Half ELSE c

\* _PutFile up to the entry: the directory, the clusters (taken in memory only)
\* and the new entry.
NewEntry(m, isDir, path, units) ==
    LET entry(c) == Ent(InternShortname(Last(path)), isDir, FirstClus(m.v, c), IF isDir THEN 0 ELSE Len(units))
        made(dir, blocks, chain) ==
            IF ~dir.ok \/ ~chain.ok THEN [ok |-> FALSE]
            ELSE [ok |-> TRUE, dir |-> dir, blocks |-> blocks, clustno |-> chain.clustno,
                  held |-> [m EXCEPT !.v = chain.v], room |-> ~NoRoom(dir.ents),
                  ents |-> [dir.ents EXCEPT ![Slot(dir.ents)] = entry(chain.clustno)]]
        blocks == IF isDir THEN <<NewDirectory>> ELSE Cut(units)
    IN  IF VFATStatFile(m.v, m.disk, path) # Free THEN [ok |-> FALSE]
        ELSE made(_LoadDir(m.v, m.disk, Front(path)), blocks, _AllocateFATChain(m.v, Len(blocks)))

\* File, directory, tables; the root directory in memory before that on disk.
FlushAll(m, e) ==
    LET cached(n) == IF n.ok /\ e.dir.clustno = n.v.rootdirClustno
                     THEN [n EXCEPT !.v.rootdir = e.ents] ELSE n
    IN  _FlushFAT(_FlushDir(cached(_FlushFile(m, e.blocks, e.clustno)), e.ents, e.dir.clustno))

_PutFile(m, isDir, path, units) ==
    LET put(e) == IF ~e.ok THEN Failed(m)
                  ELSE IF ~e.room THEN Failed(e.held)
                  ELSE FlushAll(e.held, e)
    IN  put(NewEntry(m, isDir, path, units))

VFATMkdir(m, path) == IF m.ok THEN _PutFile(m, TRUE, path, <<>>) ELSE m
VFATPutFile(m, path, units) == IF m.ok THEN _PutFile(m, FALSE, path, units) ELSE m

\* The parents of the path that are not to be skipped, then grub.cfg.
_AddCwdGrubcfg(m, dir, skip, units) ==
    LET upTo[n \in 0 .. Len(dir)] ==
            IF n = 0 THEN m
            ELSE IF SubSeq(dir, 1, n) \in skip THEN upTo[n - 1]
            ELSE VFATMkdir(upTo[n - 1], SubSeq(dir, 1, n))
    IN  VFATPutFile(upTo[Len(dir)], Append(dir, "grub.cfg"), units)

\* The part of MapEFIVFAT that fills the embedded image; dir: where lsvmload is.
FillEFIVFAT(m, dir, units) ==
    LET made == VFATMkdir(VFATMkdir(m, <<"EFI">>), <<"EFI", Vendor>>)
        cwd(n) == IF n.ok THEN _AddCwdGrubcfg(n, dir, {<<"EFI">>, <<"EFI", Vendor>>}, units) ELSE n
    IN  cwd(VFATPutFile(made, <<"EFI", Vendor, "GRUB.CFG">>, units))

-----------------------------------------------------------------------------
(* Commands.                                                                *)

Never == 1000                       \* no write fails

\* A file's content is told by its path.
Content(path, n) == [i \in 1 .. n |-> <<path, i>>]

NoOp == [op |-> "none", path |-> <<>>, units |-> <<>>, ok |-> TRUE, n |-> 0]
Command(op, path, units, run(_)) ==
    /\ last.n < MaxOps
    /\ \E k \in {Never} \cup 0 .. 5 :
        /\ k # Never => faults > 0
        /\ LET m == IF Mountable(disk) THEN run(Machine(disk, VFATInit(disk), k))
                    ELSE Failed(Machine(disk, VFATInit(disk), k))
           IN  /\ k # Never => m.left = 0 /\ ~m.ok
               /\ disk' = m.disk
               /\ faults' = IF k = Never THEN faults ELSE faults - 1
               /\ last' = IF m.ok \/ op = "map"
                          THEN [op |-> op, path |-> path, units |-> units, ok |-> m.ok, n |-> last.n + 1]
                          ELSE [NoOp EXCEPT !.ok = FALSE, !.n = last.n + 1]

_put_command(path, n) ==
    Command("put", path, Content(path, n), LAMBDA m : VFATPutFile(m, path, Content(path, n)))
_mkdir_command(path) ==
    Command("mkdir", path, <<>>, LAMBDA m : VFATMkdir(m, path))

EmptyRoot == [i \in 1 .. RootEnts |-> Free]
EmbeddedImage == disk.type = "FAT12" /\ disk.root = EmptyRoot /\ last.n = 0
MapEFIVFAT(dir, n) ==
    /\ EmbeddedImage
    /\ Command("map", dir, Content(dir, n), LAMBDA m : FillEFIVFAT(m, dir, Content(dir, n)))

\* mkfs (external): an empty file system; a root with a deleted and a long name.
UsedRoot == [EmptyRoot EXCEPT ![1] = LongName, ![2] = Deleted, ![3] = LongName]
Mkfs(type, root) ==
    LET fat == [c \in Clusters |-> IF type = "FAT32" /\ c = RootClus THEN EofMark ELSE 0]
    IN  [type |-> type, fats |-> <<fat, fat>>, root |-> root,
         data |-> [c \in Clusters |-> Zeros]]

Init ==
    /\ disk \in {Mkfs(t, r) : t \in FATTypes, r \in {EmptyRoot, UsedRoot}}
    /\ last = NoOp /\ faults = MaxFaults

Next ==
    \/ \E p \in Paths, n \in Sizes : _put_command(p, n)
    \/ \E p \in Paths : _mkdir_command(p)
    \/ \E d \in LoaderDirs, n \in Sizes \ {0} : MapEFIVFAT(d, n)

Spec == Init /\ [][Next]_vars

-----------------------------------------------------------------------------
(* Properties.                                                              *)

Canonical == {n \in Names : Upper[n] = n}
AllPaths == {<<n>> : n \in Canonical} \cup {<<m, n>> : m \in {"EFI", "BOOT"}, n \in Canonical}
            \cup {<<"EFI", n, "GRUB.CFG">> : n \in Canonical}
Fold(path) == [i \in DOMAIN path |-> Upper[path[i]]]
Stat(d, path) == VFATStatFile(VFATInit(d), d, path)
Tree(d) == {p \in AllPaths : Stat(d, p) # Free /\ (Len(p) > 1 => Stat(d, Front(p)).isDir)}

\* The clusters of an entry: what its size asks for.
Need(e) == IF e.isDir THEN 1 ELSE (e.size + ClusterSize - 1) \div ClusterSize
Own(d, e) == LET chain == Chain(VFATInit(d), e.clus)
             IN  {chain[i] : i \in 1 .. IF Need(e) < Len(chain) THEN Need(e) ELSE Len(chain)}
RootOwn(d) == IF d.type = "FAT32" THEN {RootClus} ELSE {}

\* In FAT16, cluster 0x0FF8 also ends every chain that this code writes; in FAT32
\* an entry cannot name a first cluster from Half on.  What is said below holds
\* as long as no file has reached such a cluster.
Reached(d) ==
    LET fat == d.fats[1]
    IN  \/ d.type = "FAT16" /\ fat[CountOfClusters + 1] # 0
        \/ d.type = "FAT32" /\ \E c \in Clusters : c >= Half /\ fat[c] # 0 /\ \A b \in Clusters : fat[b] # c

\* The tables and the entries have the shape VFATInit expects: the root never
\* loses its last entry, which ends every search.
TypeOK ==
    /\ disk.type \in FATTypes
    /\ \A i \in 1 .. 2 : disk.fats[i] \in [Clusters -> {0, EofMark} \cup Clusters] \cup {Spoiled}
    /\ Len(disk.root) = RootEnts /\ disk.root[RootEnts] = Free
    /\ \A c \in Clusters :
        LET b == disk.data[c] IN  IF IsDirectory(b) THEN Len(b.ents) = DirEnts /\ b.ents[DirEnts] = Free
                                  ELSE Len(b.units) = ClusterSize
    /\ faults \in 0 .. MaxFaults /\ last.n \in 0 .. MaxOps

\* _AllocateFATChain and the order of the flushes: while no write has failed, the
\* tables agree, no cluster belongs to two entries, every entry has the
\* clusters its size asks for and no other cluster is marked used.
ClustersOwned ==
    faults = MaxFaults /\ ~Reached(disk) =>
        /\ Mountable(disk)
        /\ LET ents == {<<p, Stat(disk, p)>> : p \in Tree(disk)}
               own == {<<pe[1], Own(disk, pe[2]), Need(pe[2])>> : pe \in ents}
           IN  /\ \A p, q \in own : p # q => p[2] \cap q[2] = {}
               /\ \A p \in own : Cardinality(p[2]) = p[3]
               /\ {c \in Clusters : disk.fats[1][c] # 0}
                     = RootOwn(disk) \cup UNION {p[2] : p \in own}

\* A command that reports success has done it (VFATPutFile, VFATMkdir): the file
\* reads back, the directory is listed, whatever the case of the name; before
\* any write has failed.
DoneAsTold ==
    [][last'.ok /\ faults = MaxFaults /\ ~Reached(disk') =>
        CASE last'.op = "put" -> VFATGetFile(disk', last'.path) = last'.units
          [] last'.op = "mkdir" -> /\ Stat(disk', last'.path).isDir
                                   /\ Upper[Last(last'.path)] \in VFATDir(disk', Front(last'.path))
          [] OTHER -> TRUE]_vars

\* A command, also the first that fails at one of its writes, leaves every other
\* file as it was, unless the tables differ now, which VFATInit refuses.  (A
\* directory is written before the tables: one that is left without its cluster
\* shares it with the next file, so this is not said of what comes later.)
OthersKept ==
    [][faults = MaxFaults /\ Mountable(disk') /\ ~Reached(disk') =>
        \A p \in Tree(disk) :
            ~Stat(disk, p).isDir => VFATGetFile(disk', p) = VFATGetFile(disk, p)]_vars

\* A command that is refused (no room, no such directory, the name exists) after
\* it has changed table and directory in memory has written nothing.
RefusedUnchanged ==
    [][~last'.ok /\ last'.op # "map" /\ faults' = faults => disk' = disk]_vars

\* MapEFIVFAT: when it succeeds, GRUB.CFG is in the vendor directory and in the
\* directory lsvmload was started from ("SUSE uses the current directory to find
\* the grub.cfg"), and it succeeds unless that is the vendor directory.
GrubCfgMapped ==
    last.op = "map" /\ faults = MaxFaults =>
        IF Fold(last.path) = Fold(<<"EFI", Vendor>>) THEN ~last.ok
        ELSE /\ last.ok
             /\ VFATGetFile(disk, <<"EFI", Vendor, "GRUB.CFG">>) = last.units
             /\ VFATGetFile(disk, last.path \o <<"GRUB.CFG">>) = last.units

\* The disk after any commands: directories that can be searched, clusters with
\* one owner while no write has failed, and grub.cfg where MapEFIVFAT put it.
VfatInv == TypeOK /\ ClustersOwned /\ GrubCfgMapped

\* The commands of vfatmain.c report what they did: success for what is there
\* afterwards, and a refusal for a disk they did not touch.
ReportsTrue == DoneAsTold /\ RefusedUnchanged
================================================================================
