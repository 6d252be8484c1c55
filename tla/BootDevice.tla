----------------------------- MODULE BootDevice ------------------------------
(***************************************************************************)
(* The boot device of lsvmload as GetBootDevice (lsvmload/bootfs.c) stacks *)
(* it, "bootdev -> cachedev -> rawdev -> bio", under the sector accesses   *)
(* of the EXT2 code (ext2.c: _ReadPartialBlock, _WritePartialBlock), over  *)
(* the boots that use it.                                                  *)
(*                                                                         *)
(*   bootdev   luksblkdev.c: block b is block payload_offset + b below,    *)
(*             encrypted with b as the initialisation vector.  A block     *)
(*             below is a record of the vector and the plain sector.       *)
(*   cachedev  cacheblkdev.c, see CacheBlkdev.  It has at most one node    *)
(*             per block (CacheBlkdevProofs), so it is a partial function. *)
(*   rawdev    efiblkdev.c, see EfiBlkdev: the read-ahead window.          *)
(*                                                                         *)
(* A boot first accesses the device with caching off (main.c: from         *)
(* OpenBootFS to LoadDecryptCopySpecializeFile), then turns caching on.    *)
(* ApplyDBXUpdate turns it off to remove its file and resets the machine;  *)
(* without an update the initrd is patched and the kernel started.         *)
(***************************************************************************)
EXTENDS Integers

CONSTANTS
    NBlocks,         \* blocks of the boot file system
    payload_offset,  \* blocks of the LUKS header
    CACHE_SIZE,      \* blocks of the read-ahead window
    Vals,            \* contents of a part of a sector
    Key              \* another one: a disk key, as PatchInitrd stores it

ASSUME SizesAssumption ==
    /\ NBlocks \in Nat \ {0} /\ payload_offset \in Nat \ {0}
    /\ CACHE_SIZE \in Nat \ {0}

\* The key is told from other contents, and both from what a sector decrypted
\* with another vector gives (-1).
ASSUME ValuesAssumption == Key \notin Vals /\ -1 \notin Vals \cup {Key}

Blknos == 0 .. NBlocks - 1
RawBlknos == 0 .. payload_offset + NBlocks - 1
LastBlock == payload_offset + NBlocks - 1

\* A sector holds two structures the EXT2 code rewrites separately, such as
\* two inodes.
Parts == {0, 1}
Sectors == [Parts -> Vals]
PatchedSectors == [Parts -> Vals \cup {Key}]
Window == 0 .. CACHE_SIZE - 1

VARIABLES
    disk,    \* [RawBlknos -> cipher blocks], what survives a reset
    ahead,   \* the window of rawdev: [cached, blkno, data]
    cache,   \* the cached blocks of cachedev
    flags,   \* its flags: 1 when caching
    phase,   \* what lsvmload is doing with the device
    fs,      \* history: what the EXT2 code has stored, sector by sector
    stored,  \* history: the part of it that was written with caching off
    stale,   \* history: the blocks whose copy in memory is not the disk's: the
             \* disk was written below it, or a failed refill wrote over it
    lost     \* history: the sectors rewritten in part on the disk from such a
             \* copy, so that the other part is not what was stored

history == <<fs, stored, stale, lost>>
vars == <<disk, ahead, cache, flags, phase, fs, stored, stale, lost>>

Phases == {"mounted", "caching", "removing", "patching"}

-----------------------------------------------------------------------------
(* LUKS: LUKSCrypt with the sector number as initialisation vector.        *)

Raw(b) == payload_offset + b
Encrypt(b, d) == [iv |-> b, plain |-> d]
Garbage == [p \in Parts |-> -1]
Decrypt(b, c) == IF c.iv = b THEN c.plain ELSE Garbage
Header == [iv |-> -1, plain |-> Garbage]

(* rawdev.                                                                 *)

InWindow(w, r) == w.cached /\ w.blkno <= r /\ r < w.blkno + CACHE_SIZE
Ahead(r) == InWindow(ahead, r)
RawData(r) == IF Ahead(r) THEN ahead.data[r - ahead.blkno] ELSE disk[r]

\* _Get of r reads a new window; otherwise it copies from the old one or, near
\* the end of the disk, reads the block alone.
Refills(r) == ~Ahead(r) /\ r + CACHE_SIZE <= LastBlock

\* The window after a successful _Get of r.
AheadAfter(r) ==
    IF Refills(r)
    THEN [cached |-> TRUE, blkno |-> r, data |-> [i \in Window |-> disk[r + i]]]
    ELSE ahead

NoWindow == [cached |-> FALSE, blkno |-> 0, data |-> [i \in Window |-> Header]]

(* cachedev.                                                               *)

Caching == flags = 1
Cached(r) == r \in DOMAIN cache
DevData(r) == IF Cached(r) THEN cache[r] ELSE RawData(r)

\* cachedev's GetN of block r that succeeds: what it does to the window, and
\* the blocks whose copy is out of date after it.
Fetch(r) == ahead' = IF Cached(r) THEN ahead ELSE AheadAfter(r)
StaleAfter(r) ==
    IF ~Cached(r) /\ Refills(r) THEN stale \cap DOMAIN cache ELSE stale
WithBlock(r, c) ==
    [x \in DOMAIN cache \cup {r} |-> IF x = r THEN c ELSE cache[x]]

\* The sector the EXT2 code gets when it reads b.
Sector(b) == Decrypt(b, DevData(Raw(b)))

-----------------------------------------------------------------------------

\* Mutants of Put: the disk is written although caching is on; a cached copy is
\* not updated.
PutThrough(b, d) ==
    /\ cache' = IF Caching THEN WithBlock(Raw(b), Encrypt(b, d)) ELSE cache
    /\ disk' = [disk EXCEPT ![Raw(b)] = Encrypt(b, d)]
PutKeepsCopy(b, d) ==
    IF Caching
    THEN /\ cache' = IF Cached(Raw(b)) THEN cache ELSE WithBlock(Raw(b), Encrypt(b, d))
         /\ disk' = disk
    ELSE /\ disk' = [disk EXCEPT ![Raw(b)] = Encrypt(b, d)]
         /\ cache' = cache

\* cachedev's PutN of block b with plain sector d.
Put(b, d) ==
    IF Caching
    THEN /\ cache' = WithBlock(Raw(b), Encrypt(b, d))
         /\ disk' = disk
    ELSE /\ disk' = [disk EXCEPT ![Raw(b)] = Encrypt(b, d)]
         /\ cache' = cache

\* The EXT2 code stored d as sector b: the history of it.
Stored(b, d) ==
    /\ fs' = [fs EXCEPT ![b] = d]
    /\ stored' = IF Caching THEN stored ELSE [stored EXCEPT ![b] = d]

\* A write of r with caching off leaves the copies in the cache and in window w
\* as they were.
WrittenBelow(w, r) == ~Caching /\ (Cached(r) \/ InWindow(w, r))

\* Who writes, and what: LoadDecryptCopySpecializeFile, EXT2Rm of the DBX
\* update, and PatchInitrd, which alone writes the keys.
MayWrite(vs) ==
    \/ phase = "mounted" /\ vs \subseteq Vals
    \/ phase = "removing" /\ vs \subseteq Vals
    \/ phase = "patching"

Init ==
    /\ fs \in [Blknos -> Sectors]
    /\ stored = fs
    /\ stale = {} /\ lost = {}
    /\ disk = [r \in RawBlknos |->
                 IF r < payload_offset THEN Header
                 ELSE Encrypt(r - payload_offset, fs[r - payload_offset])]
    /\ ahead = NoWindow
    /\ cache = << >>
    /\ flags = 0
    /\ phase = "mounted"

\* LUKSReadHeader and the key slots: a read below the payload.
ReadHeader(r) ==
    /\ phase = "mounted"
    /\ Fetch(r)
    /\ stale' = StaleAfter(r)
    /\ UNCHANGED <<disk, cache, flags, phase, fs, stored, lost>>

\* _ReadPartialBlock, and any read of a whole sector.
_ReadPartialBlock(b) ==
    /\ Fetch(Raw(b))
    /\ cache' = IF Caching THEN WithBlock(Raw(b), DevData(Raw(b))) ELSE cache
    /\ stale' = StaleAfter(Raw(b))
    /\ UNCHANGED <<disk, flags, phase, fs, stored, lost>>

\* The read reaches the window but _PutCache cannot allocate: it fails.
ReadAllocFails(b) ==
    /\ Caching /\ ~Cached(Raw(b))
    /\ Fetch(Raw(b))
    /\ stale' = StaleAfter(Raw(b))
    /\ UNCHANGED <<disk, cache, flags, phase, fs, stored, lost>>

\* A read, of the header, of a sector or of the one to be rewritten in part,
\* fails in ReadBIO: the first w blocks of the window are overwritten, cached
\* and blkno describe the old one.
RefillFails(r, w) ==
    /\ r < payload_offset => phase = "mounted"
    /\ ~Cached(r) /\ Refills(r)
    /\ ahead' = [cached |-> ahead.cached, blkno |-> ahead.blkno,
                 data |-> [i \in Window |->
                             IF i < w THEN disk[r + i] ELSE ahead.data[i]]]
    /\ stale' = stale \cup
          { x \in RawBlknos : Ahead(x) /\ ~Cached(x) /\ x - ahead.blkno < w }
    /\ UNCHANGED <<disk, cache, flags, phase, fs, stored, lost>>

\* _WritePartialBlock: "Fetch the block", "Replace the specified data in the
\* block", "Rewrite the block".
_WritePartialBlock(b, p, v) ==
    /\ MayWrite({v})
    /\ Fetch(Raw(b))
    /\ Put(b, [Sector(b) EXCEPT ![p] = v])
    /\ Stored(b, [fs[b] EXCEPT ![p] = v])
    /\ stale' = StaleAfter(Raw(b)) \cup
                  (IF WrittenBelow(ahead', Raw(b)) THEN {Raw(b)} ELSE {})
    /\ lost' = IF ~Caching /\ Raw(b) \in stale THEN lost \cup {b} ELSE lost
    /\ UNCHANGED <<flags, phase>>

\* _Write of a whole sector: PutN alone.
WriteSector(b, d) ==
    /\ MayWrite({d[p] : p \in Parts})
    /\ Put(b, d)
    /\ Stored(b, d)
    /\ stale' = IF WrittenBelow(ahead, Raw(b)) THEN stale \cup {Raw(b)}
                ELSE stale \ {Raw(b)}
    /\ lost' = IF Caching THEN lost ELSE lost \ {b}
    /\ UNCHANGED <<ahead, flags, phase>>

\* main.c: "Disable writes to boot device".
EnableCaching ==
    /\ phase = "mounted"
    /\ phase' = "caching"
    /\ flags' = 1
    /\ UNCHANGED <<disk, ahead, cache, history>>

\* Mutant of BeginRemove: the update is removed after the initrd was patched.
BeginRemoveLate ==
    /\ phase \in {"caching", "patching"}
    /\ phase' = "removing" /\ flags' = 0
    /\ UNCHANGED <<disk, ahead, cache, history>>

\* dbxupdate.c: "Disable caching (to force writes to disk)", then EXT2Rm.
BeginRemove ==
    /\ phase = "caching"
    /\ phase' = "removing"
    /\ flags' = 0
    /\ UNCHANGED <<disk, ahead, cache, history>>

\* PatchInitrd writes the new initrd into the cached file system.
BeginPatch ==
    /\ phase = "caching"
    /\ phase' = "patching"
    /\ UNCHANGED <<disk, ahead, cache, flags, history>>

\* A reset, wanted (after a DBX update) or not (power), or a running kernel
\* that reboots: memory is gone, the next boot mounts what is on the disk.
Reset ==
    /\ phase' = "mounted"
    /\ ahead' = NoWindow /\ cache' = << >> /\ flags' = 0
    /\ fs' = stored
    /\ stale' = {}
    /\ UNCHANGED <<disk, stored, lost>>

Next ==
    \/ \E r \in 0 .. payload_offset - 1 : ReadHeader(r)
    \/ \E b \in Blknos : _ReadPartialBlock(b) \/ ReadAllocFails(b)
    \/ \E r \in RawBlknos, w \in 0 .. CACHE_SIZE : RefillFails(r, w)
    \/ \E b \in Blknos, p \in Parts, v \in Vals \cup {Key} : _WritePartialBlock(b, p, v)
    \/ \E b \in Blknos, d \in PatchedSectors : WriteSector(b, d)
    \/ EnableCaching \/ BeginRemove \/ BeginPatch \/ Reset

Spec == Init /\ [][Next]_vars

-----------------------------------------------------------------------------
(* Properties.                                                             *)

\* The types of the variables; caching is on exactly in the phases that need it.
TypeOK ==
    /\ DOMAIN disk = RawBlknos
    /\ ahead.cached => ahead.blkno + CACHE_SIZE <= LastBlock + 1
    /\ DOMAIN cache \subseteq RawBlknos
    /\ flags = (IF phase \in {"caching", "patching"} THEN 1 ELSE 0)
    /\ phase \in Phases
    /\ fs \in [Blknos -> PatchedSectors] /\ stored \in [Blknos -> Sectors]
    /\ stale \subseteq RawBlknos /\ lost \subseteq Blknos

\* Reading a sector gives what was last stored in it, whichever of the three
\* layers it comes from, decrypted with the vector it was encrypted with, unless
\* its copy in memory is out of date: the disk was written below the window or
\* the cache, or a failed refill wrote other blocks over it; or the disk's own
\* sector was rebuilt from such a copy.
ReadBack == \A b \in Blknos \ lost : Raw(b) \notin stale => Sector(b) = fs[b]

\* The disk holds exactly what was stored with caching off: rewriting part of
\* a sector brings back nothing older, unless it started from a copy that a
\* write or a failed refill had left out of date.
DiskHoldsStored ==
    \A b \in Blknos \ lost : disk[Raw(b)] = Encrypt(b, stored[b])

\* The keys PatchInitrd puts into the initrd never reach the disk, although the
\* same stack writes the disk in other phases and on other boots.
KeysStayInMemory ==
    \A b \in Blknos, p \in Parts : Decrypt(b, disk[Raw(b)])[p] # Key

\* A copy is out of date only while something holds it: a block that is neither
\* cached nor in the window, as every block after a reset, comes from the disk.
StaleCopies == \A r \in stale : Cached(r) \/ Ahead(r)

\* What the three layers of GetBootDevice give back, in every phase of a boot:
\* the sector last stored, unless a copy is out of date for one of two reasons,
\* and only as long as that copy is there.
StackInv == TypeOK /\ ReadBack /\ StaleCopies
=============================================================================
