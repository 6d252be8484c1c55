-------------------------- MODULE BootDeviceProofs ---------------------------
(***************************************************************************)
(* Proofs about the boot device GetBootDevice stacks (BootDevice), for     *)
(* every size of disk, LUKS header and read-ahead window.                  *)
(*                                                                         *)
(* None of the three invariants is inductive alone: what a sector reads    *)
(* back depends on all layers, and what a partial rewriting puts on the    *)
(* disk depends on what it read back.  StackIInv says of each layer what   *)
(* it may hold:                                                            *)
(*   DiskLayer    the disk no keys, and what was stored unless lost        *)
(*   AheadLayer   the window no keys, and what the disk holds where the    *)
(*                block comes from it and is not out of date               *)
(*   CacheLayer   the cache keys only while the initrd is patched, and     *)
(*                what was stored where it is not out of date              *)
(*   NotYetOnDisk what was stored and is not on the disk is in the cache,  *)
(*                and only PatchInitrd stores such things                  *)
(*   StaleCopies  a block is out of date only where a copy of it is held   *)
(***************************************************************************)
EXTENDS BootDevice, TLAPS

\* What a sector holds that was rewritten over a sector decrypted with another
\* vector: garbage in a part of it.
DiskSectors == [Parts -> Vals \cup {-1}]
CacheSectors == [Parts -> Vals \cup {-1, Key}]

DiskLayer ==
    /\ \A r \in RawBlknos : disk[r].plain \in DiskSectors
    /\ \A b \in Blknos : b \notin lost => disk[Raw(b)] = Encrypt(b, stored[b])

AheadLayer ==
    /\ ahead.cached => ahead.blkno \in RawBlknos
    /\ \A i \in Window : ahead.data[i].plain \in DiskSectors
    /\ \A b \in Blknos :
        Ahead(Raw(b)) /\ ~Cached(Raw(b)) /\ Raw(b) \notin stale =>
            ahead.data[Raw(b) - ahead.blkno] = disk[Raw(b)]

CacheLayer ==
    \A b \in Blknos : Cached(Raw(b)) =>
        /\ cache[Raw(b)].plain \in CacheSectors
        /\ phase # "patching" => cache[Raw(b)].plain \in DiskSectors
        /\ b \notin lost /\ Raw(b) \notin stale => cache[Raw(b)] = Encrypt(b, fs[b])

NotYetOnDisk ==
    /\ phase # "patching" => fs = stored
    /\ \A b \in Blknos : ~Cached(Raw(b)) => fs[b] = stored[b]

StackIInv ==
    TypeOK /\ DiskLayer /\ AheadLayer /\ CacheLayer /\ NotYetOnDisk /\ StaleCopies

-----------------------------------------------------------------------------

\* The LUKS device maps its blocks one to one to blocks of the disk.
LEMMA RawFacts ==
    /\ \A b \in Blknos : Raw(b) \in RawBlknos /\ Raw(b) \in Nat
    /\ \A b, c \in Blknos : Raw(b) = Raw(c) => b = c
    BY SizesAssumption DEF Blknos, RawBlknos, Raw

\* Whatever vector a block was encrypted with, decrypting it gives nothing that
\* is not in it but garbage.
LEMMA DecryptBlock ==
    ASSUME NEW b, NEW c
    PROVE  /\ c.plain \in DiskSectors => Decrypt(b, c) \in DiskSectors
           /\ c.plain \in CacheSectors => Decrypt(b, c) \in CacheSectors
<1>1. Garbage \in DiskSectors /\ Garbage \in CacheSectors
    BY DEF Garbage, DiskSectors, CacheSectors
<1>2. QED
    BY <1>1 DEF Decrypt

\* What Encrypt gives is decrypted with its vector.
LEMMA EncryptBlock ==
    ASSUME NEW b, NEW d
    PROVE  Decrypt(b, Encrypt(b, d)) = d /\ Encrypt(b, d).plain = d
    BY DEF Encrypt, Decrypt

\* The kinds of sectors.
LEMMA SectorKinds ==
    /\ Sectors \subseteq PatchedSectors /\ Sectors \subseteq DiskSectors
    /\ PatchedSectors \subseteq CacheSectors /\ DiskSectors \subseteq CacheSectors
    BY DEF Sectors, PatchedSectors, DiskSectors, CacheSectors

\* Where a block of the file system is in the window.
LEMMA WindowIndex ==
    ASSUME NEW w, NEW r \in RawBlknos, w.blkno \in RawBlknos, InWindow(w, r)
    PROVE  r - w.blkno \in Window /\ w.blkno + (r - w.blkno) = r
    BY SizesAssumption DEF InWindow, Window, RawBlknos

\* Whatever layer cachedev takes a block from, it holds a key only while the
\* initrd is patched, and is what was stored unless it is out of date or lost.
LEMMA DevBlock ==
    ASSUME StackIInv, NEW b \in Blknos
    PROVE  /\ DevData(Raw(b)).plain \in CacheSectors
           /\ phase # "patching" => DevData(Raw(b)).plain \in DiskSectors
           /\ b \notin lost /\ Raw(b) \notin stale =>
                  DevData(Raw(b)) = Encrypt(b, fs[b])
<1> USE DEF StackIInv
<1>1. CASE Cached(Raw(b))
    BY <1>1 DEF DevData, CacheLayer
<1>2. CASE ~Cached(Raw(b))
  <2>1. DevData(Raw(b)) = RawData(Raw(b)) /\ fs[b] = stored[b]
      BY <1>2 DEF DevData, NotYetOnDisk
  <2>2. RawData(Raw(b)).plain \in DiskSectors
    <3>1. CASE Ahead(Raw(b))
        BY <3>1, RawFacts, WindowIndex DEF RawData, AheadLayer, Ahead, InWindow
    <3>2. CASE ~Ahead(Raw(b))
        BY <3>2, RawFacts DEF RawData, DiskLayer
    <3>3. QED
        BY <3>1, <3>2
  <2>3. Raw(b) \notin stale => RawData(Raw(b)) = disk[Raw(b)]
      BY <1>2 DEF RawData, AheadLayer
  <2>4. b \notin lost => disk[Raw(b)] = Encrypt(b, stored[b])
      BY DEF DiskLayer
  <2>5. QED
      BY <2>1, <2>2, <2>3, <2>4, SectorKinds
<1>3. QED
    BY <1>1, <1>2

\* The same of the sector the EXT2 code gets.
LEMMA SectorRead ==
    ASSUME StackIInv, NEW b \in Blknos
    PROVE  /\ Sector(b) \in CacheSectors
           /\ phase # "patching" => Sector(b) \in DiskSectors
           /\ b \notin lost /\ Raw(b) \notin stale => Sector(b) = fs[b]
    BY DevBlock, DecryptBlock, EncryptBlock DEF Sector

\* After a read the window holds what the disk held before the call, or what it
\* held before, and no block is out of date that was not.
LEMMA FetchKeeps ==
    ASSUME StackIInv, NEW r \in RawBlknos, Fetch(r)
    PROVE  /\ ahead'.cached => /\ ahead'.blkno + CACHE_SIZE <= LastBlock + 1
                               /\ ahead'.blkno \in RawBlknos
           /\ \A i \in Window : ahead'.data[i].plain \in DiskSectors
           /\ \A b \in Blknos :
                InWindow(ahead', Raw(b)) /\ ~Cached(Raw(b))
                  /\ Raw(b) \notin StaleAfter(r) =>
                    ahead'.data[Raw(b) - ahead'.blkno] = disk[Raw(b)]
           /\ StaleAfter(r) \subseteq stale
           /\ \A x \in DOMAIN cache : x \in StaleAfter(r) <=> x \in stale
           /\ \A x \in StaleAfter(r) : Cached(x) \/ InWindow(ahead', x)
           /\ r \in stale <=> r \in StaleAfter(r)
<1> USE DEF StackIInv
<1>1. CASE ahead' = ahead /\ StaleAfter(r) = stale
    BY <1>1 DEF AheadLayer, Ahead, TypeOK, StaleCopies
<1>2. CASE /\ ~Cached(r) /\ Refills(r) /\ StaleAfter(r) = stale \cap DOMAIN cache
           /\ ahead' = [cached |-> TRUE, blkno |-> r,
                        data |-> [i \in Window |-> disk[r + i]]]
  <2>1. /\ ahead'.cached /\ ahead'.blkno = r /\ r + CACHE_SIZE <= LastBlock + 1
        /\ \A i \in Window : r + i \in RawBlknos /\ ahead'.data[i] = disk[r + i]
      BY <1>2, SizesAssumption DEF Refills, RawBlknos, LastBlock, Window
  <2>2. \A i \in Window : ahead'.data[i].plain \in DiskSectors
      BY <2>1 DEF DiskLayer
  <2>3. ASSUME NEW b \in Blknos, InWindow(ahead', Raw(b))
        PROVE  ahead'.data[Raw(b) - ahead'.blkno] = disk[Raw(b)]
      BY <2>1, <2>3, RawFacts, WindowIndex
  <2>4. r \notin stale
      BY <1>2 DEF StaleCopies, Refills
  <2>5. QED
      BY <1>2, <2>1, <2>2, <2>3, <2>4 DEF Cached
<1>3. QED
    BY <1>1, <1>2 DEF Fetch, AheadAfter, StaleAfter

\* A step that leaves the disk, the cache and what was stored alone, and after
\* which the window and the blocks out of date still go together.
LEMMA WindowStepKeeps ==
    ASSUME StackIInv, UNCHANGED <<disk, cache, flags, phase, fs, stored, lost>>,
           stale' \subseteq RawBlknos,
           ahead'.cached => /\ ahead'.blkno + CACHE_SIZE <= LastBlock + 1
                            /\ ahead'.blkno \in RawBlknos,
           \A i \in Window : ahead'.data[i].plain \in DiskSectors,
           \A b \in Blknos :
                InWindow(ahead', Raw(b)) /\ ~Cached(Raw(b)) /\ Raw(b) \notin stale' =>
                    ahead'.data[Raw(b) - ahead'.blkno] = disk[Raw(b)],
           \A x \in DOMAIN cache : x \in stale => x \in stale',
           \A x \in stale' : Cached(x) \/ InWindow(ahead', x)
    PROVE  StackIInv'
<1> USE DEF StackIInv
<1>1. TypeOK'
    BY DEF TypeOK
<1>2. DiskLayer'
    BY DEF DiskLayer, Raw, Blknos, Encrypt, RawBlknos
<1>3. AheadLayer'
    BY DEF AheadLayer, Ahead, Cached, Raw, Blknos, Window
<1>4. CacheLayer'
    BY DEF CacheLayer, Cached, Raw, Blknos, Encrypt
<1>5. NotYetOnDisk'
    BY DEF NotYetOnDisk, Cached, Raw, Blknos
<1>6. StaleCopies'
    BY DEF StaleCopies, Cached, Ahead
<1>7. QED
    BY <1>1, <1>2, <1>3, <1>4, <1>5, <1>6

\* A read that leaves nothing in the cache.
LEMMA UncachedReadKeeps ==
    ASSUME StackIInv, NEW r \in RawBlknos, Fetch(r), stale' = StaleAfter(r),
           UNCHANGED <<disk, cache, flags, phase, fs, stored, lost>>
    PROVE  StackIInv'
<1>1. stale' \subseteq RawBlknos
    BY FetchKeeps DEF StackIInv, TypeOK
<1>2. QED
    BY <1>1, FetchKeeps, WindowStepKeeps

\* A refill that fails writes blocks of the disk over part of the window: only
\* blocks that came from the window are out of date by it.
LEMMA RefillFailsKeeps ==
    ASSUME StackIInv, NEW r \in RawBlknos, NEW w \in 0 .. CACHE_SIZE, RefillFails(r, w)
    PROVE  StackIInv'
<1> USE DEF StackIInv
<1>1. /\ ahead'.cached = ahead.cached /\ ahead'.blkno = ahead.blkno
      /\ \A i \in Window :
            ahead'.data[i] = IF i < w THEN disk[r + i] ELSE ahead.data[i]
      /\ UNCHANGED <<disk, cache, flags, phase, fs, stored, lost>>
      /\ stale' = stale \cup
          { x \in RawBlknos : Ahead(x) /\ ~Cached(x) /\ x - ahead.blkno < w }
    BY DEF RefillFails
<1>2. \A i \in Window : r + i \in RawBlknos
    BY SizesAssumption DEF RefillFails, Refills, LastBlock, RawBlknos, Window
<1>3. \A i \in Window : ahead'.data[i].plain \in DiskSectors
    BY <1>1, <1>2 DEF AheadLayer, DiskLayer
<1>4. \A x : InWindow(ahead', x) <=> Ahead(x)
    BY <1>1 DEF Ahead, InWindow
<1>5. ASSUME NEW b \in Blknos, InWindow(ahead', Raw(b)), ~Cached(Raw(b)),
             Raw(b) \notin stale'
      PROVE  ahead'.data[Raw(b) - ahead'.blkno] = disk[Raw(b)]
  <2>1. Ahead(Raw(b)) /\ ahead.blkno \in RawBlknos /\ Raw(b) \in RawBlknos
      BY <1>4, <1>5, RawFacts DEF AheadLayer, Ahead, InWindow
  <2>2. Raw(b) - ahead.blkno \in Window
      BY <2>1, WindowIndex DEF Ahead
  <2>3. ~(Raw(b) - ahead.blkno < w) /\ Raw(b) \notin stale
      BY <1>1, <1>5, <2>1
  <2>4. QED
      BY <1>1, <1>5, <2>1, <2>2, <2>3 DEF AheadLayer
<1>6. /\ stale' \subseteq RawBlknos
      /\ \A x \in stale' : Cached(x) \/ InWindow(ahead', x)
    BY <1>1, <1>4 DEF TypeOK, StaleCopies
<1>7. ahead'.cached => /\ ahead'.blkno + CACHE_SIZE <= LastBlock + 1
                       /\ ahead'.blkno \in RawBlknos
    BY <1>1 DEF TypeOK, AheadLayer
<1>8. QED
    BY <1>1, <1>3, <1>5, <1>6, <1>7, WindowStepKeeps

\* A read with caching on leaves the block it got in the cache.
LEMMA ReadKeeps ==
    ASSUME StackIInv, NEW b \in Blknos, _ReadPartialBlock(b)
    PROVE  StackIInv'
<1> USE DEF StackIInv
<1>0. Raw(b) \in RawBlknos
    BY RawFacts
<1>1. /\ Fetch(Raw(b)) /\ UNCHANGED <<disk, flags, phase, fs, stored, lost>>
      /\ cache' = IF Caching THEN WithBlock(Raw(b), DevData(Raw(b))) ELSE cache
      /\ stale' = StaleAfter(Raw(b))
    BY DEF _ReadPartialBlock
<1>2. CASE ~Caching
    BY <1>0, <1>1, <1>2, UncachedReadKeeps
<1>3. CASE Caching
  <2> DEFINE c == DevData(Raw(b))
  <2>1. /\ DOMAIN cache' = DOMAIN cache \cup {Raw(b)} /\ cache'[Raw(b)] = c
        /\ \A x \in Blknos : x # b =>
              /\ Cached(Raw(x))' <=> Cached(Raw(x))
              /\ Cached(Raw(x)) => cache'[Raw(x)] = cache[Raw(x)]
        /\ \A x \in Blknos : ~Cached(Raw(x))' => ~Cached(Raw(x))
      BY <1>1, <1>3, RawFacts DEF WithBlock, Cached, Raw
  <2>2. TypeOK'
      BY <1>0, <1>1, <2>1, FetchKeeps DEF TypeOK
  <2>3. CacheLayer'
    <3> SUFFICES ASSUME NEW x \in Blknos, Cached(Raw(x))'
                 PROVE  /\ cache'[Raw(x)].plain \in CacheSectors
                        /\ phase # "patching" => cache'[Raw(x)].plain \in DiskSectors
                        /\ x \notin lost /\ Raw(x) \notin stale' =>
                              cache'[Raw(x)] = Encrypt(x, fs[x])
        BY <1>1 DEF CacheLayer, Raw, Blknos, Encrypt
    <3>1. CASE x = b
        BY <1>0, <1>1, <2>1, <3>1, DevBlock, FetchKeeps
    <3>2. CASE x # b
        BY <1>0, <1>1, <2>1, <3>2, FetchKeeps DEF CacheLayer, Cached
    <3>3. QED
        BY <3>1, <3>2
  <2>4. DiskLayer' /\ NotYetOnDisk'
      BY <1>1, <2>1 DEF DiskLayer, NotYetOnDisk, Raw, Blknos, Encrypt, RawBlknos
  <2>5. AheadLayer'
      BY <1>0, <1>1, <2>1, FetchKeeps DEF AheadLayer, Ahead, Raw, Blknos, Window
  <2>6. StaleCopies'
      BY <1>0, <1>1, <2>1, FetchKeeps DEF StaleCopies, Cached, Ahead
  <2>7. QED
      BY <2>2, <2>3, <2>4, <2>5, <2>6
<1>4. QED
    BY <1>2, <1>3

\* What rewriting sector b does to the disk, the cache and the window, when d is
\* put, e is what the EXT2 code meant to store and st are the blocks out of date
\* when d is put: d and e are the same unless the sector was lost or is from now on.
LEMMA WriteKeeps ==
    ASSUME StackIInv, NEW b \in Blknos, NEW d \in CacheSectors,
           NEW e \in PatchedSectors, NEW st \in SUBSET RawBlknos,
           phase # "patching" => ~Caching /\ d \in DiskSectors /\ e \in Sectors,
           ahead'.cached => /\ ahead'.blkno + CACHE_SIZE <= LastBlock + 1
                            /\ ahead'.blkno \in RawBlknos,
           \A i \in Window : ahead'.data[i].plain \in DiskSectors,
           \A c \in Blknos :
                (Caching => c # b) /\ InWindow(ahead', Raw(c)) /\ ~Cached(Raw(c))
                  /\ Raw(c) \notin st =>
                    ahead'.data[Raw(c) - ahead'.blkno] = disk[Raw(c)],
           \A x \in DOMAIN cache : x # Raw(b) /\ x \in stale => x \in st,
           \A x \in st : Cached(x) \/ InWindow(ahead', x),
           stale' = st \cup (IF WrittenBelow(ahead', Raw(b)) THEN {Raw(b)} ELSE {}),
           \A c \in Blknos : c # b => (c \in lost <=> c \in lost'),
           lost' \subseteq Blknos, Caching => lost' = lost,
           ~Caching /\ b \notin lost' => d = e,
           b \notin lost' /\ Raw(b) \notin stale' => d = e,
           Put(b, d), Stored(b, e), UNCHANGED <<flags, phase>>
    PROVE  StackIInv'
<1> USE DEF StackIInv
<1>0. /\ Raw(b) \in RawBlknos
      /\ \A c \in Blknos : Raw(c) \in RawBlknos /\ (c # b => Raw(c) # Raw(b))
    BY RawFacts
<1>1. Encrypt(b, d).plain = d
    BY EncryptBlock
<1>2. CASE Caching
  <2>1. /\ phase = "patching" /\ disk' = disk /\ lost' = lost /\ stale' = st
        /\ cache' = WithBlock(Raw(b), Encrypt(b, d))
        /\ fs' = [fs EXCEPT ![b] = e] /\ stored' = stored
      BY <1>2 DEF Put, Stored, Caching, TypeOK, WrittenBelow
  <2>2. /\ DOMAIN cache' = DOMAIN cache \cup {Raw(b)}
        /\ cache'[Raw(b)] = Encrypt(b, d)
        /\ \A c \in Blknos : c # b =>
              /\ Cached(Raw(c))' <=> Cached(Raw(c))
              /\ Cached(Raw(c)) => cache'[Raw(c)] = cache[Raw(c)]
              /\ fs'[c] = fs[c]
        /\ \A c \in Blknos : ~Cached(Raw(c))' => ~Cached(Raw(c)) /\ c # b
        /\ fs'[b] = e
      BY <1>0, <2>1 DEF WithBlock, Cached, TypeOK, Raw
  <2>3. TypeOK'
      BY <1>0, <2>1, <2>2 DEF TypeOK
  <2>4. DiskLayer'
      BY <2>1 DEF DiskLayer, Raw, Encrypt, Blknos, RawBlknos
  <2>5. AheadLayer'
      BY <2>1, <2>2 DEF AheadLayer, Ahead, Raw, Blknos, Window
  <2>6. CacheLayer'
    <3> SUFFICES ASSUME NEW c \in Blknos, Cached(Raw(c))'
                 PROVE  /\ cache'[Raw(c)].plain \in CacheSectors
                        /\ c \notin lost /\ Raw(c) \notin stale' =>
                              cache'[Raw(c)] = Encrypt(c, fs'[c])
        BY <2>1 DEF CacheLayer, Raw, Blknos, Encrypt
    <3>1. CASE c = b
        BY <1>1, <2>1, <2>2, <3>1
    <3>2. CASE c # b
        BY <1>0, <2>1, <2>2, <3>2 DEF CacheLayer, Cached
    <3>3. QED
        BY <3>1, <3>2
  <2>7. NotYetOnDisk'
      BY <2>1, <2>2 DEF NotYetOnDisk, Blknos, Raw
  <2>8. StaleCopies'
      BY <2>1, <2>2 DEF StaleCopies, Cached, Ahead
  <2>9. QED
      BY <2>3, <2>4, <2>5, <2>6, <2>7, <2>8
<1>3. CASE ~Caching
  <2>1. /\ phase # "patching" /\ d \in DiskSectors /\ e \in Sectors /\ fs = stored
        /\ disk' = [disk EXCEPT ![Raw(b)] = Encrypt(b, d)] /\ cache' = cache
        /\ fs' = [fs EXCEPT ![b] = e] /\ stored' = [stored EXCEPT ![b] = e]
      BY <1>3 DEF Put, Stored, Caching, TypeOK, NotYetOnDisk
  <2>2. /\ DOMAIN disk' = RawBlknos /\ disk'[Raw(b)] = Encrypt(b, d)
        /\ \A r \in RawBlknos : r # Raw(b) => disk'[r] = disk[r]
        /\ \A c \in Blknos : c # b => fs'[c] = fs[c] /\ stored'[c] = stored[c]
        /\ fs'[b] = e /\ stored'[b] = e /\ fs' = stored'
      BY <1>0, <2>1 DEF TypeOK
  <2>3. /\ st \subseteq stale' /\ stale' \subseteq st \cup {Raw(b)}
        /\ Cached(Raw(b)) \/ InWindow(ahead', Raw(b)) => Raw(b) \in stale'
        /\ Raw(b) \in stale' =>
              Raw(b) \in st \/ Cached(Raw(b)) \/ InWindow(ahead', Raw(b))
      BY <1>3 DEF WrittenBelow
  <2>4. TypeOK'
      BY <1>0, <2>1, <2>2, <2>3 DEF TypeOK
  <2>5. DiskLayer'
    <3>1. \A r \in RawBlknos : disk'[r].plain \in DiskSectors
        BY <1>1, <2>1, <2>2 DEF DiskLayer
    <3>2. ASSUME NEW c \in Blknos, c \notin lost'
          PROVE  disk'[Raw(c)] = Encrypt(c, stored'[c])
      <4>1. CASE c = b
          BY <1>3, <2>2, <3>2, <4>1
      <4>2. CASE c # b
          BY <1>0, <2>2, <3>2, <4>2 DEF DiskLayer
      <4>3. QED
          BY <4>1, <4>2
    <3>3. QED
        BY <3>1, <3>2 DEF DiskLayer, Raw, Blknos, Encrypt, RawBlknos
  <2>6. AheadLayer'
    <3>1. ASSUME NEW c \in Blknos, InWindow(ahead', Raw(c)), ~Cached(Raw(c)),
                 Raw(c) \notin stale'
          PROVE  ahead'.data[Raw(c) - ahead'.blkno] = disk'[Raw(c)]
        BY <1>0, <2>2, <2>3, <3>1
    <3>2. QED
        BY <2>1, <3>1 DEF AheadLayer, Ahead, Cached, Raw, Blknos, Window
  <2>7. CacheLayer'
    <3> SUFFICES ASSUME NEW c \in Blknos, Cached(Raw(c))
                 PROVE  /\ cache[Raw(c)].plain \in CacheSectors
                        /\ cache[Raw(c)].plain \in DiskSectors
                        /\ c \notin lost' /\ Raw(c) \notin stale' =>
                              cache[Raw(c)] = Encrypt(c, fs'[c])
        BY <2>1 DEF CacheLayer, Raw, Blknos, Encrypt, Cached
    <3>1. CASE c = b
        BY <2>1, <2>3, <3>1 DEF CacheLayer
    <3>2. CASE c # b
        BY <1>0, <2>1, <2>2, <2>3, <3>2 DEF CacheLayer, Cached
    <3>3. QED
        BY <3>1, <3>2
  <2>8. NotYetOnDisk'
      BY <2>2 DEF NotYetOnDisk
  <2>9. StaleCopies'
      BY <2>1, <2>3 DEF StaleCopies, Cached, Ahead
  <2>10. QED
      BY <2>4, <2>5, <2>6, <2>7, <2>8, <2>9
<1>4. QED
    BY <1>2, <1>3

\* Rewriting part of a sector: the part that is kept comes from what was read.
LEMMA PartialWriteKeeps ==
    ASSUME StackIInv, NEW b \in Blknos, NEW p \in Parts, NEW v \in Vals \cup {Key},
           _WritePartialBlock(b, p, v)
    PROVE  StackIInv'
<1> DEFINE d == [Sector(b) EXCEPT ![p] = v]
           e == [fs[b] EXCEPT ![p] = v]
           st == StaleAfter(Raw(b))
<1>0. Raw(b) \in RawBlknos
    BY RawFacts
<1>1. /\ Fetch(Raw(b)) /\ Put(b, d) /\ Stored(b, e) /\ UNCHANGED <<flags, phase>>
      /\ MayWrite({v})
      /\ stale' = st \cup (IF WrittenBelow(ahead', Raw(b)) THEN {Raw(b)} ELSE {})
      /\ lost' = IF ~Caching /\ Raw(b) \in stale THEN lost \cup {b} ELSE lost
    BY DEF _WritePartialBlock
<1>2. fs[b] \in PatchedSectors /\ (phase # "patching" => fs[b] \in Sectors)
    BY DEF StackIInv, TypeOK, NotYetOnDisk
<1>3. d \in CacheSectors /\ e \in PatchedSectors
    BY <1>2, SectorRead DEF PatchedSectors, CacheSectors
<1>4. phase # "patching" => ~Caching /\ v \in Vals
    BY <1>1 DEF MayWrite, Caching, StackIInv, TypeOK
<1>5. phase # "patching" => d \in DiskSectors /\ e \in Sectors
    BY <1>2, <1>4, SectorRead DEF Sectors, DiskSectors
<1>6. b \notin lost /\ Raw(b) \notin stale => d = e
    BY SectorRead
<1>7. /\ st \in SUBSET RawBlknos /\ st \subseteq stale
      /\ Raw(b) \in stale <=> Raw(b) \in st
    BY <1>0, <1>1, FetchKeeps DEF StackIInv, TypeOK
<1>8. /\ \A c \in Blknos : c # b => (c \in lost <=> c \in lost')
      /\ lost' \subseteq Blknos /\ (Caching => lost' = lost)
      /\ b \notin lost' => b \notin lost
    BY <1>1 DEF StackIInv, TypeOK
<1>9. /\ ~Caching /\ b \notin lost' => d = e
      /\ b \notin lost' /\ Raw(b) \notin stale' => d = e
    BY <1>1, <1>6, <1>7, <1>8
<1>10. /\ \A c \in Blknos :
              InWindow(ahead', Raw(c)) /\ ~Cached(Raw(c)) /\ Raw(c) \notin st =>
                  ahead'.data[Raw(c) - ahead'.blkno] = disk[Raw(c)]
       /\ \A x \in DOMAIN cache : x # Raw(b) /\ x \in stale => x \in st
       /\ \A x \in st : Cached(x) \/ InWindow(ahead', x)
       /\ ahead'.cached => /\ ahead'.blkno + CACHE_SIZE <= LastBlock + 1
                           /\ ahead'.blkno \in RawBlknos
       /\ \A i \in Window : ahead'.data[i].plain \in DiskSectors
    BY <1>0, <1>1, FetchKeeps
<1> HIDE DEF d, e, st
<1>11. QED
    BY <1>1, <1>3, <1>4, <1>5, <1>7, <1>8, <1>9, <1>10, WriteKeeps

\* Writing a whole sector: the window is not read, and a block in the cache is
\* the one stored.
LEMMA WholeWriteKeeps ==
    ASSUME StackIInv, NEW b \in Blknos, NEW d \in PatchedSectors, WriteSector(b, d)
    PROVE  StackIInv'
<1> DEFINE st == IF WrittenBelow(ahead, Raw(b)) THEN stale ELSE stale \ {Raw(b)}
<1>1. phase # "patching" => ~Caching /\ \A p \in Parts : d[p] \in Vals
    BY DEF WriteSector, MayWrite, Caching, StackIInv, TypeOK
<1>2. phase # "patching" => d \in Sectors
    BY <1>1 DEF Sectors, PatchedSectors
<1>3. d \in CacheSectors /\ (phase # "patching" => d \in DiskSectors)
    BY <1>2, SectorKinds
<1>4. /\ ahead' = ahead /\ Put(b, d) /\ Stored(b, d) /\ UNCHANGED <<flags, phase>>
      /\ stale' = st \cup (IF WrittenBelow(ahead', Raw(b)) THEN {Raw(b)} ELSE {})
      /\ lost' = IF Caching THEN lost ELSE lost \ {b}
    BY DEF WriteSector, WrittenBelow
<1>5. /\ \A c \in Blknos : c # b => (c \in lost <=> c \in lost')
      /\ lost' \subseteq Blknos /\ (Caching => lost' = lost)
    BY <1>4 DEF StackIInv, TypeOK
<1>6. /\ ahead'.cached => /\ ahead'.blkno + CACHE_SIZE <= LastBlock + 1
                          /\ ahead'.blkno \in RawBlknos
      /\ \A i \in Window : ahead'.data[i].plain \in DiskSectors
    BY <1>4 DEF StackIInv, TypeOK, AheadLayer
<1>7. /\ st \in SUBSET RawBlknos
      /\ \A x \in DOMAIN cache : x # Raw(b) /\ x \in stale => x \in st
      /\ \A x \in st : Cached(x) \/ InWindow(ahead', x)
    BY <1>4 DEF StackIInv, TypeOK, StaleCopies, Ahead
<1>8. ASSUME NEW c \in Blknos, Caching => c # b, InWindow(ahead', Raw(c)),
             ~Cached(Raw(c)), Raw(c) \notin st
      PROVE  ahead'.data[Raw(c) - ahead'.blkno] = disk[Raw(c)]
  <2>1. Raw(c) \notin stale
      BY <1>4, <1>8, RawFacts DEF WrittenBelow
  <2>2. QED
      BY <1>4, <1>8, <2>1 DEF StackIInv, AheadLayer, Ahead
<1> HIDE DEF st
<1>9. QED
    BY <1>1, <1>2, <1>3, <1>4, <1>5, <1>6, <1>7, <1>8, WriteKeeps

\* Every boot starts from what the disk holds, without a window or a cache.
LEMMA InitStackIInv == ASSUME Init PROVE StackIInv
<1>0. Garbage \in DiskSectors /\ Header.plain = Garbage
    BY DEF Garbage, DiskSectors, Header
<1>1. /\ \A b \in Blknos : disk[Raw(b)] = Encrypt(b, fs[b]) /\ fs[b] \in Sectors
      /\ \A r \in RawBlknos : r < payload_offset \/ r - payload_offset \in Blknos
  <2>1. \A b \in Blknos : /\ Raw(b) \in RawBlknos /\ ~(Raw(b) < payload_offset)
                          /\ Raw(b) - payload_offset = b
      BY SizesAssumption DEF Raw, Blknos, RawBlknos
  <2>2. \A r \in RawBlknos : r < payload_offset \/ r - payload_offset \in Blknos
      BY SizesAssumption DEF Blknos, RawBlknos
  <2>3. QED
      BY <2>1, <2>2 DEF Init
<1>2. DiskLayer
  <2>1. ASSUME NEW r \in RawBlknos
        PROVE  disk[r].plain \in DiskSectors
    <3>1. CASE r < payload_offset
        BY <1>0, <3>1 DEF Init
    <3>2. CASE ~(r < payload_offset)
        BY <1>1, <3>2, SectorKinds DEF Init, Encrypt
    <3>3. QED
        BY <3>1, <3>2
  <2>2. QED
      BY <1>1, <2>1 DEF DiskLayer, Init
<1>3. /\ ~ahead.cached /\ DOMAIN cache = {}
      /\ \A i \in Window : ahead.data[i].plain \in DiskSectors
    BY <1>0 DEF Init, NoWindow
<1>4. TypeOK
    BY <1>3, SectorKinds DEF Init, TypeOK, Phases
<1>5. AheadLayer /\ CacheLayer /\ NotYetOnDisk /\ StaleCopies
    BY <1>3, <1>4 DEF AheadLayer, Ahead, InWindow, CacheLayer, Cached, NotYetOnDisk,
                      StaleCopies, Init
<1>6. QED
    BY <1>2, <1>4, <1>5 DEF StackIInv

\* Every access of the EXT2 code, every change of phase and every reset keep what
\* the layers may hold.
LEMMA NextStackIInv == ASSUME StackIInv, [Next]_vars PROVE StackIInv'
<1>1. ASSUME NEW r \in 0 .. payload_offset - 1, ReadHeader(r)
      PROVE  StackIInv'
  <2>1. r \in RawBlknos
      BY SizesAssumption DEF RawBlknos
  <2>2. QED
      BY <1>1, <2>1, UncachedReadKeeps DEF ReadHeader
<1>2. ASSUME NEW b \in Blknos, ReadAllocFails(b)
      PROVE  StackIInv'
    BY <1>2, RawFacts, UncachedReadKeeps DEF ReadAllocFails
<1>3. CASE EnableCaching \/ BeginRemove \/ BeginPatch
  <2>1. UNCHANGED <<disk, ahead, cache, history>>
      BY <1>3 DEF EnableCaching, BeginRemove, BeginPatch
  <2>2. phase # "patching"
      BY <1>3 DEF EnableCaching, BeginRemove, BeginPatch
  <2>3. TypeOK'
      BY <1>3, <2>1
         DEF EnableCaching, BeginRemove, BeginPatch, history, StackIInv, TypeOK, Phases
  <2>4. AheadLayer' /\ StaleCopies'
      BY <2>1 DEF history, StackIInv, AheadLayer, StaleCopies, Ahead, InWindow,
                  Cached, Raw, Blknos, Window
  <2>5. DiskLayer' /\ CacheLayer' /\ NotYetOnDisk'
      BY <2>1, <2>2 DEF history, StackIInv, DiskLayer, CacheLayer, NotYetOnDisk,
                        Cached, Raw, Blknos, Encrypt, RawBlknos
  <2>6. QED
      BY <2>3, <2>4, <2>5 DEF StackIInv
<1>4. CASE Reset
  <2>1. /\ ~ahead'.cached /\ DOMAIN cache' = {} /\ fs' = stored' /\ stale' = {}
        /\ ahead'.data = [i \in Window |-> Header]
        /\ UNCHANGED <<disk, stored, lost>>
      BY <1>4 DEF Reset, NoWindow
  <2>2. TypeOK'
      BY <1>4, <2>1, SectorKinds DEF Reset, StackIInv, TypeOK, Phases
  <2>3. DiskLayer'
      BY <2>1 DEF StackIInv, DiskLayer, Raw, Blknos, Encrypt, RawBlknos
  <2>4. \A i \in Window : ahead'.data[i].plain \in DiskSectors
      BY <2>1 DEF Header, Garbage, DiskSectors
  <2>5. AheadLayer' /\ CacheLayer' /\ NotYetOnDisk' /\ StaleCopies'
      BY <2>1, <2>4 DEF AheadLayer, Ahead, InWindow, CacheLayer, Cached, NotYetOnDisk,
                        StaleCopies, Window
  <2>6. QED
      BY <2>2, <2>3, <2>5 DEF StackIInv
<1>5. CASE UNCHANGED vars
    BY <1>5 DEF vars, StackIInv, TypeOK, DiskLayer, AheadLayer, CacheLayer, Window,
                NotYetOnDisk, StaleCopies, Ahead, InWindow, Cached, Raw, Blknos,
                Encrypt, RawBlknos
<1>6. QED
    BY <1>1, <1>2, <1>3, <1>4, <1>5, ReadKeeps, RefillFailsKeeps, PartialWriteKeeps,
       WholeWriteKeeps
       DEF Next

\* The layers of the boot device always hold what StackIInv says.
THEOREM StackInductive == Spec => []StackIInv
<1>1. Init => StackIInv
    BY InitStackIInv
<1>2. StackIInv /\ [Next]_vars => StackIInv'
    BY NextStackIInv
<1>3. QED
    BY <1>1, <1>2, PTL DEF Spec

\* In every phase of a boot a sector reads back as stored, unless a write with
\* caching off or a failed refill left the copy it comes from out of date.
THEOREM StackReads == Spec => []StackInv
<1>1. StackIInv => StackInv
    BY SectorRead DEF ReadBack, StackInv, StackIInv
<1>2. QED
    BY <1>1, StackInductive, PTL

\* What the EXT2 code stores with caching off reaches the disk exactly, however
\* the writes, the read-ahead, its failures and the resets fall, unless a sector
\* is rewritten in part from a copy that is out of date.
THEOREM DiskIsStored == Spec => []DiskHoldsStored
<1>1. StackIInv => DiskHoldsStored
    BY DEF StackIInv, DiskLayer, DiskHoldsStored
<1>2. QED
    BY <1>1, StackInductive, PTL

\* The keys PatchInitrd writes into the cached file system never reach the disk.
THEOREM KeysNeverOnDisk == Spec => []KeysStayInMemory
<1>1. StackIInv => KeysStayInMemory
  <2> SUFFICES ASSUME StackIInv, NEW b \in Blknos, NEW p \in Parts
               PROVE  Decrypt(b, disk[Raw(b)])[p] # Key
      BY DEF KeysStayInMemory
  <2>1. Decrypt(b, disk[Raw(b)]) \in DiskSectors
      BY DecryptBlock, RawFacts DEF StackIInv, DiskLayer
  <2>2. QED
      BY <2>1, ValuesAssumption DEF DiskSectors
<1>2. QED
    BY <1>1, StackInductive, PTL
=============================================================================
