------------------------------- MODULE DiskHooks -------------------------------
(***************************************************************************)
(* How lsvmload starts shim: StartShim (lsvmload/shim.c) wraps the EFI     *)
(* system partition's file interface (espwrap.c), replaces the disk's      *)
(* block I/O functions (diskbio.c), adds a pseudo partition that holds the *)
(* decrypted boot partition (bootbio.c, devpath.c) and maps the built-in   *)
(* VFAT image over the system partition (efivfat.c).  Shim and GRUB then   *)
(* read and write the disk and the files through the hooks.                *)
(*                                                                         *)
(* A block is a record that says where its contents come from; requests    *)
(* count whole blocks.  Firmware calls that can fail do so at most         *)
(* MaxFaults times.  A failure of InstallRootBIO, WrapBootBIO or           *)
(* MapEFIVFAT is only logged: shim is run with what was installed.         *)
(***************************************************************************)
EXTENDS Integers, Sequences, FiniteSetsExt

CONSTANTS
    GptBlocks,        \* blocks that the cached GPT covers (64)
    MaxEntries,       \* GPT_MAX_ENTRIES
    Nodes,            \* hard drive nodes of all block I/O handles: [pun, number, start, size]
    BootPart,         \* number of the LUKS boot partition
    PayloadOffset,    \* its header's payload_offset
    VfatBlocks,       \* blocks of the built-in image (efivfat_size / 512)
    LastLBA,          \* last block of the disk
    LastUsable,       \* last usable block that its GPT header names
    GrubSize,         \* pieces of the GRUB image
    MaxLen,           \* bound on the blocks of a request
    MaxRequests,      \* bound on the requests of shim and GRUB
    MaxFaults         \* bound on failing firmware calls

\* The partitions of the first disk: numbered from one without a gap.
Partitions == {p \in Nodes : p.pun = 0}
Numbers == {p.number : p \in Partitions}
Part(k) == CHOOSE p \in Partitions : p.number = k

ASSUME SizesAssumption ==
    /\ GptBlocks \in Nat \ {0} /\ MaxEntries \in Nat /\ PayloadOffset \in Nat
    /\ LastLBA \in Nat /\ LastUsable \in GptBlocks - 1 .. LastLBA /\ VfatBlocks \in Nat /\ GrubSize \in Nat
    /\ MaxLen \in Nat /\ MaxRequests \in Nat /\ MaxFaults \in Nat

\* No two partitions overlap each other or the GPT, and the GPT has an entry to
\* spare: AddPartition does not report that it found none.
ASSUME PartitionsAssumption ==
    /\ \E n \in 1 .. MaxEntries - 1 : Numbers = 1 .. n
    /\ \A p \in Partitions :
          /\ p.start \in Nat /\ p.size \in Nat
          /\ p.start >= GptBlocks /\ p.size > 0 /\ p.start + p.size - 1 <= LastLBA
          /\ \A q \in Partitions : p = q \/ p.start + p.size <= q.start \/ q.start + q.size <= p.start

\* The LUKS header leaves more than one block of the boot partition.
ASSUME BootAssumption == BootPart \in Numbers /\ PayloadOffset + 1 < Part(BootPart).size

VARIABLES
    stage,            \* how far StartShim is
    enableIOHooks,    \* globals.enableIOHooks
    _enableIOHooks,   \* the flag that espwrap.c saves
    grubData,         \* globals.grubData is set
    wrapped,          \* OpenVolume is the hook
    hooked,           \* the disk's block I/O functions are the hooks
    _bio,             \* _bio is set: InstallRootBIO has succeeded
    gpt,              \* cached GPT: entries, last usable block
    mediaLast,        \* the disk's Media->LastBlock
    regions,          \* _regions
    pseudo,           \* device path of the pseudo partition
    disk,             \* blocks of the disk
    boot,             \* blocks of the decrypted boot device, with cached writes
    file,             \* the GRUB file that shim has open
    last,             \* the last request and its answer
    requests, faults

early == <<enableIOHooks, _enableIOHooks, disk, boot, file, last, requests>>    \* as they are until shim runs
tables == <<gpt, mediaLast, regions, pseudo>>
wraps == <<grubData, wrapped, hooked, _bio>>
vars == <<stage, early, wraps, tables, faults>>

NoEntry == [first |-> 0, last |-> 0]
NoPseudo == [number |-> 0, first |-> 0, last |-> 0]
\* The cached GPT before it is read, and when it is.
NoGPT == [entries |-> [k \in 1 .. MaxEntries |-> NoEntry], lastUsable |-> 0]
DiskGPT ==
    [entries |-> [k \in 1 .. MaxEntries |->
                     IF k \in Numbers
                     THEN [first |-> Part(k).start, last |-> Part(k).start + Part(k).size - 1]
                     ELSE NoEntry],
     lastUsable |-> LastUsable]
NoFile == [open |-> FALSE, offset |-> 0, taken |-> <<>>]
Nothing == [op |-> "none", lba |-> 0, n |-> 0, got |-> <<>>, res |-> "success"]
Zero == [of |-> "zero", i |-> 0, v |-> 0]
Block(of, i, v) == [of |-> of, i |-> i, v |-> v]
\* Blocks of the decrypted boot partition: Media->LastBlock + 1, less the header.
BootBlocks == Part(BootPart).size - PayloadOffset

-----------------------------------------------------------------------------
(* Regions and partitions.                                                 *)

\* A used entry; GetGPTEntry fails for another.
GetGPTEntry(k) == gpt.entries[k]
HasGPTEntry(k) == GetGPTEntry(k) # NoEntry

\* AddRegion raises the last block of the GPT header, g, and of the media if it
\* is smaller; next is the stage after it.  Without a _bio the second assignment
\* goes through a null pointer: the machine stops, or the write lands elsewhere.
AddRegion(g, r, next) ==
    LET raise == r.last > gpt.lastUsable
    IN  /\ regions' = Append(regions, r)
        /\ gpt' = [g EXCEPT !.lastUsable = IF r.last > @ THEN r.last ELSE @]
        /\ mediaLast' = IF raise /\ _bio THEN r.last ELSE mediaLast
        /\ stage' \in IF raise /\ ~_bio THEN {next, "crashed"} ELSE {next}

\* The first free entry, from the second on; none free is no error.  (In a table
\* that was not read the entry stays one of no type; nothing looks at it again.)
AddPartition(g, first, lst) ==
    LET free == {i \in 2 .. MaxEntries : g.entries[i] = NoEntry}
    IN  IF free = {} THEN g
        ELSE [entries |-> [g.entries EXCEPT ![Min(free)] = [first |-> first, last |-> lst]],
              lastUsable |-> IF lst > g.lastUsable THEN lst ELSE g.lastUsable]

\* The first region that holds the block, if one does.
Holding(lba) == {j \in DOMAIN regions : regions[j].first <= lba /\ lba <= regions[j].last}
_FindRegion(lba) == regions[Min(Holding(lba))]

\* After the partition of the first disk that starts last.
DevPathCreatePseudoPartition(size) ==
    LET hd == CHOOSE p \in Partitions : \A q \in Partitions : q.start <= p.start
        first == hd.start + hd.size
    IN  [number |-> Max(Numbers) + 1, first |-> first, last |-> first + size - 1]

-----------------------------------------------------------------------------
(* Block I/O.  An access returns what it read or the devices it left, and  *)
(* whether it failed; at says which firmware access of the request fails.  *)

\* The saved functions, which are the firmware's.
DiskFails(lba, n, at) == at = "disk" \/ lba + n - 1 > LastLBA
_EFI_BLOCK_IO_ReadBlocks(lba, n, at) ==
    IF DiskFails(lba, n, at) THEN [res |-> "error", got |-> <<>>]
    ELSE [res |-> "success", got |-> [k \in 1 .. n |-> disk[lba + k - 1]]]
_EFI_BLOCK_IO_WriteBlocks(s, lba, data, at) ==
    IF DiskFails(lba, Len(data), at) THEN [s EXCEPT !.res = "error"]
    ELSE [s EXCEPT !.disk = [b \in DOMAIN @ |-> IF b \in lba .. lba + Len(data) - 1 THEN data[b - lba + 1] ELSE @[b]]]

\* One block of a region.
RegionBlockOneMore(r, l) ==
    IF r.id = "boot" THEN boot[l] ELSE IF l <= r.numBlocks THEN Block(r.id, l, 0) ELSE Zero
RegionBlock(r, l) ==
    IF r.id = "boot" THEN boot[l] ELSE IF l < r.numBlocks THEN Block(r.id, l, 0) ELSE Zero

\* The blocks in the region, then the rest from the disk, whatever is there.  A
\* disk that is not hooked has the firmware's function.
ReadThroughRegion(lba, n, at) ==
    LET r == _FindRegion(lba)
        here == IF r.last - lba + 1 < n THEN r.last - lba + 1 ELSE n
        inside == [k \in 1 .. here |-> RegionBlock(r, lba + k - 1 - r.first)]
        rest == _EFI_BLOCK_IO_ReadBlocks(lba + here, n - here, at)
    IN  IF ~hooked \/ ~enableIOHooks \/ Holding(lba) = {} THEN _EFI_BLOCK_IO_ReadBlocks(lba, n, at)
        ELSE IF r.id = "boot" /\ at = "boot" THEN [res |-> "error", got |-> <<>>]
        ELSE IF here = n THEN [res |-> "success", got |-> inside]
        ELSE [res |-> rest.res, got |-> inside \o rest.got]

\* The flag is off meanwhile, and back at the end, whatever happened.
ReadBlocksHookReturns(lba, n, at) ==
    LET a == ReadThroughRegion(lba, n, at) IN [res |-> a.res, got |-> a.got, on |-> enableIOHooks /\ a.res = "success"]
_EFI_BLOCK_IO_ReadBlocksHook(lba, n, at) ==
    LET a == ReadThroughRegion(lba, n, at) IN [res |-> a.res, got |-> a.got, on |-> enableIOHooks]

\* Mutated: a write into a read-only region goes to the disk.
WriteBlocksHookDelegates(lba, data, at, done) ==
    LET s == [res |-> "success", disk |-> disk, boot |-> boot, on |-> enableIOHooks]
    IN  _EFI_BLOCK_IO_WriteBlocks(s, lba, data, at)
\* Blocks of a read-only region are refused; those past the blocks that a
\* region has are dropped.  A failure in the boot device comes after done
\* blocks are written.
_EFI_BLOCK_IO_WriteBlocksHook(lba, data, at, done) ==
    LET n == Len(data)
        r == _FindRegion(lba)
        here == IF r.last - lba + 1 < n THEN r.last - lba + 1 ELSE n
        put(m) == [l \in DOMAIN boot |->
                      IF l + r.first \in lba .. lba + m - 1 THEN data[l + r.first - lba + 1] ELSE boot[l]]
        s == [res |-> "success", disk |-> disk, boot |-> boot, on |-> enableIOHooks]
    IN  IF ~hooked \/ ~enableIOHooks \/ Holding(lba) = {} THEN _EFI_BLOCK_IO_WriteBlocks(s, lba, data, at)
        ELSE IF r.readOnly THEN [s EXCEPT !.res = "write protected"]
        ELSE IF at = "boot" THEN [s EXCEPT !.res = "error", !.boot = put(IF done < here THEN done ELSE here)]
        ELSE IF here = n THEN [s EXCEPT !.boot = put(n)]
        ELSE _EFI_BLOCK_IO_WriteBlocks([s EXCEPT !.boot = put(here)], lba + here, SubSeq(data, here + 1, n), at)

-----------------------------------------------------------------------------
(* StartShim, one firmware call at a time.  A failure of the first three   *)
(* calls ends it and the boot; one of the next three is logged, and shim   *)
(* is run all the same.                                                    *)

Failing == faults < MaxFaults /\ faults' = faults + 1
Fail ==
    /\ stage' = "failed"
    /\ Failing
    /\ UNCHANGED <<early, wraps, tables>>

\* Shim's image, then GRUB's, are read from the boot file system.
LoadShim ==
    /\ stage = "start"
    /\ \/ Fail
       \/ /\ stage' = "shim loaded"
          /\ UNCHANGED <<early, wraps, tables, faults>>

_LoadGRUB ==
    /\ stage = "shim loaded"
    /\ \/ Fail
       \/ /\ stage' = "grub loaded"
          /\ grubData' = TRUE
          /\ UNCHANGED <<early, wrapped, hooked, _bio, tables, faults>>

WrapESPFileIO ==
    /\ stage = "grub loaded"
    /\ \/ Fail
       \/ /\ stage' = "esp wrapped"
          /\ wrapped' = TRUE
          /\ UNCHANGED <<early, grubData, hooked, _bio, tables, faults>>

\* The functions are replaced before the GPT is read through the saved ones: it
\* fails before, or in the read, which may leave the header or all of the GPT.
InstallRootBIO ==
    /\ stage = "esp wrapped"
    /\ stage' = "root tried"
    /\ \/ Failing /\ UNCHANGED <<hooked, _bio, gpt, regions>>
       \/ /\ Failing
          /\ hooked' = TRUE
          /\ gpt' \in {NoGPT, [NoGPT EXCEPT !.lastUsable = LastUsable], DiskGPT}
          /\ UNCHANGED <<_bio, regions>>
       \/ /\ hooked' = TRUE /\ _bio' = TRUE
          /\ gpt' = DiskGPT
          /\ regions' = <<[id |-> "gpt", first |-> 0, last |-> GptBlocks - 1, numBlocks |-> GptBlocks, readOnly |-> TRUE]>>
          /\ UNCHANGED faults
    /\ UNCHANGED <<early, grubData, wrapped, mediaLast, pseudo>>

\* The size is the media's last block, less the header: one block is left out.
WrapBootBIO ==
    /\ stage = "root tried"
    /\ \/ Failing /\ stage' = "boot tried" /\ UNCHANGED tables
       \/ LET dp == DevPathCreatePseudoPartition(BootBlocks - 1)
          IN  /\ pseudo' = dp
              /\ AddRegion(AddPartition(gpt, dp.first, dp.last),
                           [id |-> "boot", first |-> dp.first, last |-> dp.last, numBlocks |-> BootBlocks - 1, readOnly |-> FALSE],
                           "boot tried")
              /\ UNCHANGED faults
    /\ UNCHANGED <<early, wraps>>

\* The built-in image gets the patched grub.cfg and covers the first partition,
\* if the cached GPT has one.
MapEFIVFAT ==
    /\ stage = "boot tried"
    /\ \/ /\ Failing \/ (~HasGPTEntry(1) /\ UNCHANGED faults)
          /\ stage' = "esp tried"
          /\ UNCHANGED tables
       \/ LET e == GetGPTEntry(1)
          IN  /\ HasGPTEntry(1)
              /\ AddRegion(gpt, [id |-> "esp", first |-> e.first, last |-> e.last, numBlocks |-> VfatBlocks, readOnly |-> TRUE],
                           "esp tried")
              /\ UNCHANGED <<pseudo, faults>>
    /\ UNCHANGED <<early, wraps>>

Exec ==
    /\ stage = "esp tried"
    /\ stage' = "shim"
    /\ enableIOHooks' = TRUE
    /\ UNCHANGED <<_enableIOHooks, wraps, tables, disk, boot, file, last, requests, faults>>

\* Shim comes back: with a failure the hooks are switched off; with success they
\* stay on when lsvmload ends.
ExecReturns ==
    /\ stage = "shim"
    /\ \/ stage' = "failed" /\ enableIOHooks' = FALSE
       \/ stage' = "returned" /\ enableIOHooks' = enableIOHooks
    /\ UNCHANGED <<_enableIOHooks, wraps, tables, disk, boot, file, last, requests, faults>>

-----------------------------------------------------------------------------
(* Requests of shim and GRUB, and of lsvmload itself.                      *)

Request == stage = "shim" /\ requests < MaxRequests /\ requests' = requests + 1
Fault(at) == IF at = "none" THEN UNCHANGED faults ELSE Failing

ReadBlocks(lba, n) ==
    /\ Request
    /\ lba + n - 1 <= mediaLast
    /\ \E at \in {"none", "disk", "boot"} :
          LET a == _EFI_BLOCK_IO_ReadBlocksHook(lba, n, at)
          IN  /\ Fault(at)
              /\ at # "none" => a.res # "success"
              /\ last' = [op |-> "read", lba |-> lba, n |-> n, got |-> a.got, res |-> a.res]
              /\ enableIOHooks' = a.on
    /\ UNCHANGED <<stage, _enableIOHooks, wraps, tables, disk, boot, file>>

WriteBlocks(lba, n) ==
    /\ Request
    /\ lba + n - 1 <= mediaLast
    /\ \E at \in {"none", "disk", "boot"}, done \in 0 .. n - 1 :
          LET data == [k \in 1 .. n |-> Block("new", lba + k - 1, requests + 1)]
              a == _EFI_BLOCK_IO_WriteBlocksHook(lba, data, at, done)
          IN  /\ Fault(at)
              /\ at = "boot" \/ done = 0
              /\ at # "none" => a.res = "error"
              /\ boot' = a.boot /\ disk' = a.disk /\ enableIOHooks' = a.on
              /\ last' = [op |-> "write", lba |-> lba, n |-> n, got |-> <<>>, res |-> a.res]
    /\ UNCHANGED <<stage, _enableIOHooks, wraps, tables, file>>

\* Any file but GRUB's is not found.  _Suspend and _Resume put back the flag.
_EFI_FILE_OpenHook(name) ==
    /\ Request
    /\ wrapped
    /\ IF name = "grub" /\ grubData
       THEN file' = [NoFile EXCEPT !.open = TRUE] /\ last' = [Nothing EXCEPT !.op = "open"]
       ELSE UNCHANGED file /\ last' = [Nothing EXCEPT !.op = "open", !.res = "not found"]
    /\ _enableIOHooks' = enableIOHooks
    /\ enableIOHooks' = _enableIOHooks'
    /\ UNCHANGED <<stage, wraps, tables, disk, boot, faults>>

_EFI_FILE_ReadHook(n) ==
    /\ Request
    /\ file.open
    /\ LET rem == GrubSize - file.offset
           m == IF rem < n THEN rem ELSE n
       IN  IF rem = 0
           THEN UNCHANGED file /\ last' = [Nothing EXCEPT !.op = "file", !.res = "end of file"]
           ELSE /\ file' = [file EXCEPT !.offset = @ + m, !.taken = @ \o [k \in 1 .. m |-> file.offset + k]]
                /\ last' = [Nothing EXCEPT !.op = "file", !.n = m]
    /\ UNCHANGED <<stage, enableIOHooks, _enableIOHooks, wraps, tables, disk, boot, faults>>

Init ==
    /\ stage = "start"
    /\ enableIOHooks = FALSE
    /\ _enableIOHooks = FALSE
    /\ grubData = FALSE
    /\ wrapped = FALSE
    /\ hooked = FALSE
    /\ _bio = FALSE
    /\ gpt = NoGPT
    /\ mediaLast = LastLBA
    /\ regions = <<>>
    /\ pseudo = NoPseudo
    /\ disk = [b \in 0 .. LastLBA |-> Block("disk", b, 0)]
    /\ boot = [l \in 0 .. BootBlocks - 1 |-> Block("boot", l, 0)]
    /\ file = NoFile
    /\ last = Nothing
    /\ requests = 0
    /\ faults = 0

StartShim == LoadShim \/ _LoadGRUB \/ WrapESPFileIO \/ InstallRootBIO \/ WrapBootBIO \/ MapEFIVFAT \/ Exec \/ ExecReturns

Next ==
    \/ StartShim
    \/ \E lba \in 0 .. mediaLast, n \in 1 .. MaxLen : ReadBlocks(lba, n) \/ WriteBlocks(lba, n)
    \/ \E name \in {"grub", "other"} : _EFI_FILE_OpenHook(name)
    \/ \E n \in 1 .. GrubSize : _EFI_FILE_ReadHook(n)

Spec == Init /\ [][Next]_vars

-----------------------------------------------------------------------------
(* Properties.                                                             *)

\* The variables hold what their comments say.
TypeOK ==
    /\ stage \in {"start", "shim loaded", "grub loaded", "esp wrapped", "root tried", "boot tried", "esp tried",
                  "shim", "returned", "failed", "crashed"}
    /\ enableIOHooks \in BOOLEAN /\ _enableIOHooks \in BOOLEAN
    /\ \A k \in DOMAIN regions : regions[k].first <= regions[k].last
    /\ DOMAIN disk = 0 .. LastLBA /\ DOMAIN boot = 0 .. BootBlocks - 1
    /\ last.res \in {"success", "error", "write protected", "not found", "end of file"}
    /\ requests \in 0 .. MaxRequests /\ faults \in 0 .. MaxFaults

\* The hooks are on exactly while shim and GRUB run, or have returned success: a
\* request that fails, in whatever place, leaves them as it found them.
FlagFollowsShim == enableIOHooks <=> stage \in {"shim", "returned"}

\* When shim starts, whatever failed before, no two regions overlap.  If the root
\* disk is hooked, the partition table shim reads and what is behind it agree: no
\* two partitions overlap, the pseudo partition, if there is one, has the entry
\* its number says, and the media reaches to the end of every region.
TableTrue ==
    stage = "shim" =>
        /\ \A j, k \in DOMAIN regions :
              j = k \/ regions[j].last < regions[k].first \/ regions[k].last < regions[j].first
        /\ _bio =>
              /\ pseudo # NoPseudo =>
                    gpt.entries[pseudo.number] = [first |-> pseudo.first, last |-> pseudo.last]
              /\ \A j, k \in 1 .. MaxEntries :
                    LET d == gpt.entries[j]
                        e == gpt.entries[k]
                    IN  j = k \/ d = NoEntry \/ e = NoEntry \/ d.last < e.first \/ e.last < d.first
              /\ \A j \in DOMAIN regions : regions[j].last <= mediaLast

\* The regions that the disk's functions look at, and the one, or the disk, that
\* all blocks of a request belong to.
Active == IF hooked THEN DOMAIN regions ELSE {}
Within(r, lba, n) == r.first <= lba /\ lba + n - 1 <= r.last
Outside(lba, n) == \A k \in Active : lba + n - 1 < regions[k].first \/ regions[k].last < lba

\* A read that stays in one of the regions that were installed, or outside all,
\* shows shim the GPT with the pseudo partition, the built-in image and then
\* zeros, the boot partition decrypted with the writes made to it, or the disk
\* as it is.
ReadsCoherent ==
    [][last'.op = "read" /\ last'.res = "success" /\ requests' > requests =>
         LET lba == last'.lba
             n == last'.n
         IN  /\ Outside(lba, n) => last'.got = [k \in 1 .. n |-> disk[lba + k - 1]]
             /\ \A j \in Active :
                   LET r == regions[j]
                   IN  Within(r, lba, n) =>
                          \A k \in 1 .. n :
                             last'.got[k] = (IF r.id = "boot" THEN boot[lba + k - 1 - pseudo.first]
                                             ELSE IF lba + k - 1 - r.first < r.numBlocks
                                             THEN Block(r.id, lba + k - 1 - r.first, 0) ELSE Zero)]_vars

\* If the root disk is hooked, no write of shim or GRUB, even one that runs past
\* the end of a region, reaches the partition table on the disk.  Whatever is
\* installed, one inside a region changes no block of the disk, and one outside
\* all regions none of the boot device.
WritesConfined ==
    [][last'.op = "write" /\ requests' > requests =>
         LET lba == last'.lba
             n == last'.n
         IN  /\ _bio => \A b \in 0 .. GptBlocks - 1 : disk'[b] = disk[b]
             /\ (\E j \in Active : Within(regions[j], lba, n)) => disk' = disk
             /\ Outside(lba, n) => boot' = boot
             /\ \A b \in DOMAIN disk \ (lba .. lba + n - 1) : disk'[b] = disk[b]]_vars

\* The GRUB that shim reads from its file is the one of the encrypted boot
\* partition, in order and without a gap, and it ends only at the end.
GrubWhole ==
    /\ file.taken = [k \in 1 .. file.offset |-> k]
    /\ last.op = "file" /\ last.res = "end of file" => Len(file.taken) = GrubSize

\* What shim and GRUB find at any time: hooks that are on just while they run, a
\* table that agrees with what is behind it, and GRUB's image in order.
HooksInv == TypeOK /\ FlagFollowsShim /\ TableTrue /\ GrubWhole
================================================================================
