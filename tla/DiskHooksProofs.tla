--------------------------- MODULE DiskHooksProofs ---------------------------
(***************************************************************************)
(* Proofs about the hooks that shim and GRUB run on (DiskHooks), for every *)
(* layout of partitions, size of image and number of requests and faults.  *)
(*                                                                         *)
(* Any of the calls that build the tables may have failed when shim runs,  *)
(* so the inductive invariant, Tables, says what holds of whatever was     *)
(* built: the regions are some of three, none twice, and once the root     *)
(* disk is hooked the cached GPT and the media go with them.  What makes   *)
(* TableTrue and the coherence of reads follow is a fact of the layout     *)
(* alone: the pseudo partition starts where the partition that starts last *)
(* ends (PseudoAfterAll), hence the three regions are disjoint             *)
(* (RegionsDisjoint) and _FindRegion has no choice (FoundRegion).          *)
(***************************************************************************)
EXTENDS DiskHooks, SequenceTheorems, WellFoundedInduction, TLAPS

\* What WrapBootBIO and MapEFIVFAT make of the layout.
Pseudo == DevPathCreatePseudoPartition(BootBlocks - 1)
GptRegion ==
    [id |-> "gpt", first |-> 0, last |-> GptBlocks - 1, numBlocks |-> GptBlocks, readOnly |-> TRUE]
BootRegion ==
    [id |-> "boot", first |-> Pseudo.first, last |-> Pseudo.last, numBlocks |-> BootBlocks - 1,
     readOnly |-> FALSE]
EspRegion ==
    [id |-> "esp", first |-> Part(1).start, last |-> Part(1).start + Part(1).size - 1,
     numBlocks |-> VfatBlocks, readOnly |-> TRUE]
Regions == {GptRegion, BootRegion, EspRegion}

DiskEntries ==
    [k \in 1 .. MaxEntries |->
        IF k \in Numbers
        THEN [first |-> Part(k).start, last |-> Part(k).start + Part(k).size - 1]
        ELSE NoEntry]
AllEntries ==
    [DiskEntries EXCEPT ![Pseudo.number] = [first |-> Pseudo.first, last |-> Pseudo.last]]

\* What holds of the tables whatever was built: the regions are among the three,
\* none twice; the first entry of the cached GPT is the disk's or none; and if
\* the root disk is hooked, the GPT is covered, its entries are the disk's with
\* the pseudo partition's, and no region lies behind the last usable block.
Tables ==
    /\ regions \in Seq(Regions)
    /\ \A j, k \in DOMAIN regions : j # k => regions[j] # regions[k]
    /\ mediaLast \in Nat
    /\ DOMAIN gpt = {"entries", "lastUsable"} /\ DOMAIN gpt.entries = 1 .. MaxEntries
    /\ gpt.lastUsable \in Nat /\ gpt.entries[1] \in {NoEntry, DiskEntries[1]}
    /\ pseudo \in {NoPseudo, Pseudo}
    /\ \A j \in DOMAIN regions : regions[j] = BootRegion => pseudo = Pseudo
    /\ _bio => /\ hooked /\ \E j \in DOMAIN regions : regions[j] = GptRegion
               /\ gpt.entries = IF pseudo = NoPseudo THEN DiskEntries ELSE AllEntries
               /\ gpt.lastUsable <= mediaLast
               /\ \A j \in DOMAIN regions : regions[j].last <= gpt.lastUsable

\* What is not built yet.
Pending ==
    /\ stage \in {"start", "shim loaded", "grub loaded", "esp wrapped"} =>
          regions = <<>> /\ gpt = NoGPT /\ mediaLast = LastLBA /\ pseudo = NoPseudo /\ ~_bio
    /\ stage = "root tried" => pseudo = NoPseudo /\ \A j \in DOMAIN regions : regions[j] = GptRegion
    /\ stage = "boot tried" => \A j \in DOMAIN regions : regions[j] # EspRegion

\* The GRUB file is read from its front on.
FileOK ==
    /\ file.offset \in 0 .. GrubSize
    /\ file.taken = [k \in 1 .. file.offset |-> k]
    /\ last.op = "file" /\ last.res = "end of file" => file.offset = GrubSize
    /\ DOMAIN file = {"open", "offset", "taken"}

HooksIInv == TypeOK /\ FlagFollowsShim /\ Tables /\ Pending /\ FileOK

-----------------------------------------------------------------------------
(* The layout of the disk.                                                 *)

\* A set of naturals that is not empty has a least element.
LEMMA LeastElement ==
    ASSUME NEW S, S \subseteq Nat, S # {}
    PROVE  \E x \in S : \A y \in S : x <= y
<1> DEFINE R == OpToRel(<, Nat)
<1>1. IsWellFoundedOn(R, Nat)
    BY NatLessThanWellFounded
<1>2. \A x, y \in Nat : y < x => <<y, x>> \in R
    BY DEF OpToRel
<1> HIDE DEF R
<1>3. PICK x \in S : \A y \in S : ~(<<y, x>> \in R)
    BY <1>1, WFMin
<1>4. \A y \in S : ~(y < x)
    BY <1>2, <1>3, Zenon
<1>5. QED
    BY <1>4

\* The numbers of the partitions and the next one, which the GPT has room for.
LEMMA NumbersFacts ==
    /\ Max(Numbers) \in Nat /\ Max(Numbers) + 1 \in 2 .. MaxEntries
    /\ Numbers = 1 .. Max(Numbers) /\ 1 \in Numbers
<1>1. PICK n \in 1 .. MaxEntries - 1 : Numbers = 1 .. n
    BY PartitionsAssumption
<1>2. n \in Numbers /\ \A k \in Numbers : n >= k
    BY <1>1, SizesAssumption
<1>3. Max(Numbers) \in Numbers /\ \A k \in Numbers : Max(Numbers) >= k
    BY <1>2 DEF Max
<1>4. Max(Numbers) = n
    BY <1>1, <1>2, <1>3, SizesAssumption
<1>5. QED
    BY <1>1, <1>4, SizesAssumption

\* Part finds the partition of a number.
LEMMA PartFacts ==
    ASSUME NEW k \in Numbers
    PROVE  /\ Part(k) \in Partitions /\ Part(k).number = k
           /\ Part(k).start \in Nat /\ Part(k).size \in Nat
           /\ Part(k).start >= GptBlocks /\ Part(k).size > 0
           /\ Part(k).start + Part(k).size - 1 <= LastLBA
<1>1. \E p \in Partitions : p.number = k
    BY DEF Numbers
<1>2. Part(k) \in Partitions /\ Part(k).number = k
    BY <1>1 DEF Part
<1>3. QED
    BY <1>2, PartitionsAssumption

\* Two partitions with different numbers do not overlap.
LEMMA PartsDisjoint ==
    ASSUME NEW j \in Numbers, NEW k \in Numbers, j # k
    PROVE  \/ Part(j).start + Part(j).size <= Part(k).start
           \/ Part(k).start + Part(k).size <= Part(j).start
    BY PartFacts, PartitionsAssumption

\* The decrypted boot partition has a block besides the one that is left out.
LEMMA BootBlocksFacts == BootBlocks \in Nat /\ BootBlocks > 1
    BY BootAssumption, PartFacts, SizesAssumption DEF BootBlocks

\* One partition starts last.
LEMMA LastPartition ==
    \E p \in Partitions : \A q \in Partitions : q.start <= p.start
<1> DEFINE S == {LastLBA - p.start : p \in Partitions}
<1>1. \A p \in Partitions : p.start \in Nat /\ LastLBA - p.start \in Nat
    BY PartitionsAssumption, SizesAssumption
<1>2. S \subseteq Nat
    BY <1>1
<1>3. S # {}
    BY NumbersFacts, PartFacts
<1>4. PICK x \in S : \A y \in S : x <= y
    BY <1>2, <1>3, LeastElement
<1>5. PICK p \in Partitions : x = LastLBA - p.start
    BY <1>4
<1>6. \A q \in Partitions : x <= LastLBA - q.start
    BY <1>4
<1>7. \A q \in Partitions : q.start <= p.start
    BY <1>1, <1>5, <1>6, SizesAssumption
<1>8. QED
    BY <1>7

\* The pseudo partition has the next number and lies behind every partition.
LEMMA PseudoAfterAll ==
    /\ Pseudo.number = Max(Numbers) + 1
    /\ Pseudo.first \in Nat /\ Pseudo.last \in Nat /\ Pseudo.first <= Pseudo.last
    /\ \A p \in Partitions : p.start + p.size <= Pseudo.first
<1> DEFINE hd == CHOOSE p \in Partitions : \A q \in Partitions : q.start <= p.start
<1>1. hd \in Partitions /\ \A q \in Partitions : q.start <= hd.start
    BY LastPartition
<1>2. Pseudo = [number |-> Max(Numbers) + 1, first |-> hd.start + hd.size,
                last |-> (hd.start + hd.size) + (BootBlocks - 1) - 1]
    BY DEF Pseudo, DevPathCreatePseudoPartition
<1> HIDE DEF hd
<1>3. hd.start \in Nat /\ hd.size \in Nat /\ hd.size > 0
    BY <1>1, PartitionsAssumption
<1>4. ASSUME NEW p \in Partitions
      PROVE  p.start + p.size <= hd.start + hd.size
  <2>1. p.start \in Nat /\ p.size \in Nat /\ p.start <= hd.start
      BY <1>1, PartitionsAssumption
  <2>2. p = hd \/ p.start + p.size <= hd.start \/ hd.start + hd.size <= p.start
      BY <1>1, PartitionsAssumption
  <2>3. QED
      BY <1>3, <2>1, <2>2
<1>5. QED
    BY <1>2, <1>3, <1>4, BootBlocksFacts

\* The fields of the three regions.
LEMMA RegionFields ==
    /\ GptRegion.first = 0 /\ GptRegion.last = GptBlocks - 1 /\ GptRegion.readOnly = TRUE
    /\ GptRegion.id = "gpt"
    /\ BootRegion.first = Pseudo.first /\ BootRegion.last = Pseudo.last
    /\ BootRegion.readOnly = FALSE /\ BootRegion.id = "boot"
    /\ EspRegion.first = Part(1).start /\ EspRegion.readOnly = TRUE
    /\ EspRegion.last = Part(1).start + Part(1).size - 1 /\ EspRegion.id = "esp"
    BY DEF GptRegion, BootRegion, EspRegion

\* Each region has a block, and they lie in the order GPT, system partition,
\* pseudo partition.
LEMMA RegionsDisjoint ==
    /\ \A r \in Regions :
          r.first \in Nat /\ r.last \in Nat /\ r.first <= r.last /\ r.last <= Pseudo.last
    /\ GptRegion.last < EspRegion.first /\ EspRegion.last < BootRegion.first
<1>1. /\ Part(1) \in Partitions /\ Part(1).start \in Nat /\ Part(1).size \in Nat
      /\ Part(1).start >= GptBlocks /\ Part(1).size > 0
    BY NumbersFacts, PartFacts
<1>2. Part(1).start + Part(1).size <= Pseudo.first
    BY <1>1, PseudoAfterAll
<1>3. QED
    BY <1>1, <1>2, RegionFields, PseudoAfterAll, SizesAssumption DEF Regions

\* Entries of the GPT as it is on the disk.
LEMMA DiskEntryFacts ==
    ASSUME NEW k \in 1 .. MaxEntries
    PROVE  /\ DiskEntries[k] = NoEntry <=> k \notin Numbers
           /\ k \in Numbers =>
                /\ DiskEntries[k].first = Part(k).start
                /\ DiskEntries[k].last = Part(k).start + Part(k).size - 1
<1>1. k \in Numbers => Part(k).start # 0
    BY PartFacts, SizesAssumption
<1>2. CASE k \notin Numbers
    BY <1>2 DEF DiskEntries
<1>3. CASE k \in Numbers
  <2>1. DiskEntries[k] = [first |-> Part(k).start, last |-> Part(k).start + Part(k).size - 1]
      BY <1>3 DEF DiskEntries
  <2>2. DiskEntries[k].first = Part(k).start /\ NoEntry.first = 0
      BY <2>1 DEF NoEntry
  <2>3. QED
      BY <1>1, <1>3, <2>1, <2>2
<1>4. QED
    BY <1>2, <1>3

\* AddPartition takes the entry that the pseudo partition's number says.
LEMMA FirstFreeEntry ==
    Min({k \in 2 .. MaxEntries : DiskEntries[k] = NoEntry}) = Max(Numbers) + 1
<1> DEFINE free == {k \in 2 .. MaxEntries : DiskEntries[k] = NoEntry}
           n == Max(Numbers) + 1
<1>1. \A k \in 2 .. MaxEntries : k \in free <=> k \notin Numbers
    BY DiskEntryFacts, SizesAssumption
<1>2. n \in free
    BY <1>1, NumbersFacts
<1>3. \A k \in free : k \in Int /\ n <= k
    BY <1>1, NumbersFacts, SizesAssumption
<1>4. n \in Int
    BY NumbersFacts
<1> HIDE DEF free, n
<1>5. Min(free) \in free /\ \A k \in free : Min(free) <= k
    BY <1>2, <1>3 DEF Min
<1>6. Min(free) \in Int /\ n <= Min(free) /\ Min(free) <= n
    BY <1>2, <1>3, <1>5
<1>7. Min(free) = n
    BY <1>4, <1>6
<1>8. QED
    BY <1>7 DEF free, n

\* The table on the disk: no two entries overlap.
LEMMA DiskEntriesDisjoint ==
    ASSUME NEW j \in 1 .. MaxEntries, NEW k \in 1 .. MaxEntries, j # k,
           DiskEntries[j] # NoEntry, DiskEntries[k] # NoEntry
    PROVE  DiskEntries[j].last < DiskEntries[k].first \/ DiskEntries[k].last < DiskEntries[j].first
<1>1. j \in Numbers /\ k \in Numbers
    BY DiskEntryFacts
<1>2. QED
    BY <1>1, DiskEntryFacts, PartFacts, PartsDisjoint

\* The table with the pseudo partition: none overlap, and its entry is there.
LEMMA EntriesDisjoint ==
    /\ AllEntries[Pseudo.number] = [first |-> Pseudo.first, last |-> Pseudo.last]
    /\ \A j, k \in 1 .. MaxEntries :
          \/ j = k \/ AllEntries[j] = NoEntry \/ AllEntries[k] = NoEntry
          \/ AllEntries[j].last < AllEntries[k].first
          \/ AllEntries[k].last < AllEntries[j].first
<1>1. Pseudo.number \in 1 .. MaxEntries /\ Pseudo.number \notin Numbers
    BY NumbersFacts, PseudoAfterAll, SizesAssumption
<1>2. /\ DOMAIN AllEntries = 1 .. MaxEntries
      /\ AllEntries[Pseudo.number] = [first |-> Pseudo.first, last |-> Pseudo.last]
      /\ \A k \in 1 .. MaxEntries : k # Pseudo.number => AllEntries[k] = DiskEntries[k]
    BY <1>1 DEF AllEntries, DiskEntries
<1>3. ASSUME NEW j \in 1 .. MaxEntries, NEW k \in 1 .. MaxEntries, j # k,
             j # Pseudo.number, AllEntries[j] # NoEntry, AllEntries[k] # NoEntry
      PROVE  \/ AllEntries[j].last < AllEntries[k].first
             \/ AllEntries[k].last < AllEntries[j].first
  <2>1. j \in Numbers /\ AllEntries[j] = DiskEntries[j]
      BY <1>2, <1>3, DiskEntryFacts
  <2>2. CASE k = Pseudo.number
    <3>1. AllEntries[k].first = Pseudo.first
        BY <1>2, <2>2
    <3>2. Part(j).start + Part(j).size <= Pseudo.first
        BY <2>1, PartFacts, PseudoAfterAll
    <3>3. QED
        BY <2>1, <3>1, <3>2, DiskEntryFacts, PartFacts, PseudoAfterAll
  <2>3. CASE k # Pseudo.number
      BY <1>2, <1>3, <2>1, <2>3, DiskEntriesDisjoint
  <2>4. QED
      BY <2>2, <2>3
<1>4. QED
    BY <1>2, <1>3, <1>1

-----------------------------------------------------------------------------
(* What StartShim builds.                                                  *)

Stages == {"start", "shim loaded", "grub loaded", "esp wrapped", "root tried", "boot tried", "esp tried",
           "shim", "returned", "failed", "crashed"}

\* A region that was not there, added: still some of the three, none twice.
LEMMA AppendRegion ==
    ASSUME Tables, NEW r \in Regions, \A j \in DOMAIN regions : regions[j] # r
    PROVE  LET rs == Append(regions, r)
           IN  /\ rs \in Seq(Regions)
               /\ \A j, k \in DOMAIN rs : j # k => rs[j] # rs[k]
               /\ \A j \in DOMAIN rs : rs[j] = r \/ \E i \in DOMAIN regions : rs[j] = regions[i]
               /\ \A j \in DOMAIN regions : j \in DOMAIN rs /\ rs[j] = regions[j]
<1> DEFINE rs == Append(regions, r)
<1>1. regions \in Seq(Regions) /\ \A j, k \in DOMAIN regions : j # k => regions[j] # regions[k]
    BY DEF Tables
<1>2. /\ rs \in Seq(Regions) /\ Len(rs) = Len(regions) + 1 /\ rs[Len(regions) + 1] = r
      /\ \A j \in 1 .. Len(regions) : rs[j] = regions[j]
    BY <1>1, AppendProperties
<1>3. /\ Len(regions) \in Nat /\ DOMAIN regions = 1 .. Len(regions)
      /\ DOMAIN rs = 1 .. Len(regions) + 1
    BY <1>1, <1>2
<1> HIDE DEF rs
<1>4. \A j \in DOMAIN rs : j = Len(regions) + 1 \/ j \in DOMAIN regions
    BY <1>3
<1>5. /\ rs \in Seq(Regions)
      /\ \A j, k \in DOMAIN rs : j # k => rs[j] # rs[k]
      /\ \A j \in DOMAIN rs : rs[j] = r \/ \E i \in DOMAIN regions : rs[j] = regions[i]
      /\ \A j \in DOMAIN regions : j \in DOMAIN rs /\ rs[j] = regions[j]
    BY <1>1, <1>2, <1>3, <1>4
<1>6. QED
    BY <1>5 DEF rs

\* Steps that build nothing.
LEMMA TablesStay ==
    ASSUME Tables, UNCHANGED <<hooked, _bio, tables>>
    PROVE  Tables'
    BY DEF Tables, tables

LEMMA PendingStays ==
    ASSUME Pending, UNCHANGED <<stage, _bio, tables>>
    PROVE  Pending'
    BY DEF Pending, tables

\* What a step of StartShim has to show: the stage, the tables and the faults.
LEMMA StageKeeps ==
    ASSUME HooksIInv, stage' \in Stages, Tables', Pending',
           enableIOHooks' \in BOOLEAN, enableIOHooks' <=> stage' \in {"shim", "returned"},
           UNCHANGED <<_enableIOHooks, disk, boot, file, last, requests>>,
           faults' = faults \/ Failing
    PROVE  HooksIInv'
<1> USE DEF HooksIInv
<1>1. faults' \in 0 .. MaxFaults
  <2>1. faults \in 0 .. MaxFaults
      BY DEF TypeOK
  <2>2. QED
      BY <2>1, SizesAssumption DEF Failing
<1>2. \A k \in DOMAIN regions' : regions'[k].first <= regions'[k].last
  <2>1. \A k \in DOMAIN regions' : regions'[k] \in Regions
      BY DEF Tables
  <2>2. QED
      BY <2>1, RegionsDisjoint
<1>3. TypeOK'
    BY <1>1, <1>2 DEF TypeOK, Stages
<1>4. FlagFollowsShim' /\ FileOK'
    BY DEF FlagFollowsShim, FileOK
<1>5. QED
    BY <1>3, <1>4

\* The hooks are off until Exec.
LEMMA HooksOff ==
    ASSUME HooksIInv, stage \notin {"shim", "returned"}, enableIOHooks' = enableIOHooks,
           stage' \notin {"shim", "returned"}
    PROVE  enableIOHooks' \in BOOLEAN /\ (enableIOHooks' <=> stage' \in {"shim", "returned"})
<1>1. enableIOHooks \in BOOLEAN /\ ~enableIOHooks
    BY Zenon DEF HooksIInv, TypeOK, FlagFollowsShim
<1>2. QED
    BY <1>1

\* Reading the images and wrapping the file interface: nothing in the tables.
LEMMA PrepareKeeps ==
    ASSUME HooksIInv, LoadShim \/ _LoadGRUB \/ WrapESPFileIO
    PROVE  HooksIInv'
<1>1. /\ stage \in {"start", "shim loaded", "grub loaded"}
      /\ stage' \in {"shim loaded", "grub loaded", "esp wrapped", "failed"}
      /\ UNCHANGED <<early, hooked, _bio, tables>>
      /\ faults' = faults \/ Failing
    BY DEF LoadShim, _LoadGRUB, WrapESPFileIO, Fail, wraps
<1>2. enableIOHooks' \in BOOLEAN /\ (enableIOHooks' <=> stage' \in {"shim", "returned"})
    BY <1>1, HooksOff DEF early
<1>3. Tables' /\ Pending'
    BY <1>1, TablesStay DEF HooksIInv, Pending, tables
<1>4. QED
    BY <1>1, <1>2, <1>3, StageKeeps DEF early, Stages

\* The GPT as it is on the disk has the disk's entries.
LEMMA DiskGPTFacts ==
    /\ DiskGPT = [entries |-> DiskEntries, lastUsable |-> LastUsable]
    /\ 1 \in 1 .. MaxEntries /\ DOMAIN DiskEntries = 1 .. MaxEntries
<1>1. DiskGPT = [entries |-> DiskEntries, lastUsable |-> LastUsable]
    BY DEF DiskGPT, DiskEntries
<1>2. QED
    BY <1>1, NumbersFacts, SizesAssumption DEF DiskEntries

\* Hooking the disk: the region over the GPT and the GPT as it is on the disk, or
\* no region and what was read of it.
LEMMA InstallRootBIOKeeps == ASSUME HooksIInv, InstallRootBIO PROVE HooksIInv'
<1>1. /\ stage = "esp wrapped" /\ stage' = "root tried"
      /\ UNCHANGED <<early, mediaLast, pseudo>> /\ (faults' = faults \/ Failing)
    BY DEF InstallRootBIO
<1>2. /\ regions = <<>> /\ gpt = NoGPT /\ mediaLast = LastLBA /\ pseudo = NoPseudo /\ ~_bio
    BY <1>1 DEF HooksIInv, Pending
<1>3. /\ LastUsable \in Nat /\ LastUsable <= LastLBA /\ GptBlocks - 1 <= LastUsable
      /\ LastLBA \in Nat /\ GptBlocks \in Nat /\ GptBlocks # 0
    BY SizesAssumption
<1>4. CASE _bio' = _bio /\ regions' = regions
  <2>1. gpt' \in {NoGPT, [NoGPT EXCEPT !.lastUsable = LastUsable], DiskGPT}
      BY <1>2, <1>4 DEF InstallRootBIO
  <2>2. /\ DOMAIN gpt' = {"entries", "lastUsable"} /\ DOMAIN gpt'.entries = 1 .. MaxEntries
        /\ gpt'.lastUsable \in Nat /\ gpt'.entries[1] \in {NoEntry, DiskEntries[1]}
    <3> DEFINE none == [k \in 1 .. MaxEntries |-> NoEntry]
    <3>1. DOMAIN none = 1 .. MaxEntries /\ none[1] = NoEntry
        BY DiskGPTFacts
    <3>2. NoGPT = [entries |-> none, lastUsable |-> 0]
        BY DEF NoGPT
    <3> HIDE DEF none
    <3>3. gpt' = [entries |-> none, lastUsable |-> 0] \/ gpt' = [entries |-> none, lastUsable |-> LastUsable]
          \/ gpt' = [entries |-> DiskEntries, lastUsable |-> LastUsable]
        BY <2>1, <3>2, DiskGPTFacts
    <3>4. PICK es, u : /\ es = none \/ es = DiskEntries
                       /\ u = 0 \/ u = LastUsable
                       /\ gpt' = [entries |-> es, lastUsable |-> u]
        BY <3>3
    <3>5. DOMAIN es = 1 .. MaxEntries /\ es[1] \in {NoEntry, DiskEntries[1]} /\ u \in Nat
      <4>1. DOMAIN es = 1 .. MaxEntries
          BY <3>1, <3>4, DiskGPTFacts, Zenon
      <4>2. es[1] = NoEntry \/ es[1] = DiskEntries[1]
          BY <3>1, <3>4, Zenon
      <4>3. u \in Nat
          BY <1>3, <3>4
      <4>4. QED
          BY <4>1, <4>2, <4>3, Zenon
    <3>6. QED
        BY <3>4, <3>5
  <2>3. DOMAIN regions' = {} /\ regions' \in Seq(Regions)
      BY <1>2, <1>4
  <2>4. Tables' /\ Pending'
      BY <1>1, <1>2, <1>3, <1>4, <2>2, <2>3 DEF Tables, Pending
  <2>5. QED
      BY <1>1, <2>4, HooksOff, StageKeeps DEF early, Stages
<1>5. CASE hooked' /\ gpt' = DiskGPT /\ regions' = <<GptRegion>>
  <2>1. /\ gpt'.entries = DiskEntries /\ gpt'.lastUsable = LastUsable
        /\ DOMAIN gpt' = {"entries", "lastUsable"} /\ DOMAIN gpt'.entries = 1 .. MaxEntries
      BY <1>5, DiskGPTFacts
  <2>2. /\ regions' \in Seq(Regions) /\ DOMAIN regions' = {1} /\ regions'[1] = GptRegion
      BY <1>5 DEF Regions
  <2>3. GptRegion.last = GptBlocks - 1
      BY RegionFields
  <2>4. GptRegion # BootRegion /\ GptRegion # EspRegion
      BY RegionFields
  <2>5. Tables' /\ Pending'
      BY <1>1, <1>2, <1>3, <1>5, <2>1, <2>2, <2>3, <2>4 DEF Tables, Pending
  <2>6. QED
      BY <1>1, <2>5, HooksOff, StageKeeps DEF early, Stages
<1>6. QED
    BY <1>4, <1>5 DEF InstallRootBIO, GptRegion

\* What AddRegion makes of the tables: g is the GPT that is given the region.
LEMMA AddRegionKeeps ==
    ASSUME Tables, NEW g, NEW r \in Regions, NEW next, AddRegion(g, r, next),
           \A j \in DOMAIN regions : regions[j] # r,
           UNCHANGED <<hooked, _bio>>,
           DOMAIN g = {"entries", "lastUsable"}, DOMAIN g.entries = 1 .. MaxEntries,
           g.lastUsable \in Nat, g.entries[1] \in {NoEntry, DiskEntries[1]},
           g.lastUsable = gpt.lastUsable \/ (gpt.lastUsable < r.last /\ g.lastUsable = r.last),
           pseudo' \in {NoPseudo, Pseudo}, r = BootRegion \/ pseudo = Pseudo => pseudo' = Pseudo,
           _bio => g.entries = IF pseudo' = NoPseudo THEN DiskEntries ELSE AllEntries
    PROVE  Tables'
<1>1. /\ regions' = Append(regions, r)
      /\ gpt' = [g EXCEPT !.lastUsable = IF r.last > g.lastUsable THEN r.last ELSE g.lastUsable]
      /\ mediaLast' = IF r.last > gpt.lastUsable /\ _bio THEN r.last ELSE mediaLast
    BY DEF AddRegion
<1>2. /\ regions' \in Seq(Regions)
      /\ \A j, k \in DOMAIN regions' : j # k => regions'[j] # regions'[k]
      /\ \A j \in DOMAIN regions' : regions'[j] = r \/ \E i \in DOMAIN regions : regions'[j] = regions[i]
      /\ \A j \in DOMAIN regions : j \in DOMAIN regions' /\ regions'[j] = regions[j]
  <2>1. regions' = Append(regions, r)
      BY <1>1
  <2>2. QED
      BY <2>1, AppendRegion
<1>3. r.last \in Nat /\ gpt.lastUsable \in Nat /\ mediaLast \in Nat
    BY RegionsDisjoint DEF Tables
<1>4. /\ DOMAIN gpt' = {"entries", "lastUsable"} /\ gpt'.entries = g.entries
      /\ gpt'.lastUsable = IF r.last > g.lastUsable THEN r.last ELSE g.lastUsable
    BY <1>1
<1>5. /\ gpt'.lastUsable \in Nat /\ gpt'.lastUsable >= r.last /\ gpt'.lastUsable >= gpt.lastUsable
      /\ gpt'.lastUsable = IF r.last > gpt.lastUsable THEN r.last ELSE gpt.lastUsable
    BY <1>3, <1>4
<1>6. mediaLast' \in Nat
    BY <1>1, <1>3
<1>7. ASSUME _bio
      PROVE  /\ hooked /\ \E j \in DOMAIN regions' : regions'[j] = GptRegion
             /\ gpt'.lastUsable <= mediaLast'
             /\ \A j \in DOMAIN regions' : regions'[j].last <= gpt'.lastUsable
  <2>1. /\ hooked /\ \E j \in DOMAIN regions : regions[j] = GptRegion
        /\ gpt.lastUsable <= mediaLast
        /\ \A j \in DOMAIN regions : regions[j].last <= gpt.lastUsable
      BY <1>7 DEF Tables
  <2>2. gpt'.lastUsable <= mediaLast'
      BY <1>1, <1>3, <1>5, <1>7, <2>1
  <2>3. \A j \in DOMAIN regions : regions[j].last \in Nat
      BY RegionsDisjoint DEF Tables
  <2>4. \A j \in DOMAIN regions' : regions'[j].last <= gpt'.lastUsable
      BY <1>2, <1>3, <1>5, <2>1, <2>3
  <2>5. QED
      BY <1>2, <2>1, <2>2, <2>4
<1>8. \A j \in DOMAIN regions' : regions'[j] = BootRegion => pseudo' = Pseudo
    BY <1>2 DEF Tables
<1>9. QED
    BY <1>2, <1>4, <1>5, <1>6, <1>7, <1>8 DEF Tables

\* AddPartition changes one entry, not the first, and the last usable block.
LEMMA AddPartitionFacts ==
    ASSUME Tables, NEW first, NEW lst \in Nat, NEW g, g = AddPartition(gpt, first, lst)
    PROVE  /\ DOMAIN g = {"entries", "lastUsable"} /\ DOMAIN g.entries = 1 .. MaxEntries
           /\ g.entries[1] = gpt.entries[1]
           /\ g.lastUsable = gpt.lastUsable \/ (gpt.lastUsable < lst /\ g.lastUsable = lst)
<1> DEFINE free == {i \in 2 .. MaxEntries : gpt.entries[i] = NoEntry}
           e == [first |-> first, last |-> lst]
<1>1. /\ DOMAIN gpt = {"entries", "lastUsable"} /\ DOMAIN gpt.entries = 1 .. MaxEntries
      /\ gpt.lastUsable \in Nat
    BY DEF Tables
<1>2. g = IF free = {} THEN gpt
          ELSE [entries |-> [gpt.entries EXCEPT ![Min(free)] = e],
                lastUsable |-> IF lst > gpt.lastUsable THEN lst ELSE gpt.lastUsable]
    BY DEF AddPartition
<1>3. free # {} => Min(free) # 1
  <2>1. SUFFICES ASSUME free # {} PROVE Min(free) # 1
      OBVIOUS
  <2>2. free \subseteq Nat /\ \A i \in free : i # 1
      BY SizesAssumption
  <2> HIDE DEF free
  <2>3. \E x \in free : \A y \in free : x <= y
      BY <2>1, <2>2, LeastElement
  <2>4. Min(free) \in free
      BY <2>3 DEF Min
  <2>5. QED
      BY <2>2, <2>4
<1>4. 1 \in 1 .. MaxEntries
    BY DiskGPTFacts
<1> HIDE DEF free, e
<1>5. QED
    BY <1>1, <1>2, <1>3, <1>4

\* In the table that is on the disk it takes the pseudo partition's entry.
LEMMA AddsToDisk ==
    ASSUME Tables, gpt.entries = DiskEntries
    PROVE  AddPartition(gpt, Pseudo.first, Pseudo.last).entries = AllEntries
<1> DEFINE free == {i \in 2 .. MaxEntries : gpt.entries[i] = NoEntry}
           e == [first |-> Pseudo.first, last |-> Pseudo.last]
           lst == Pseudo.last
<1>1. Min(free) = Pseudo.number
    BY FirstFreeEntry, PseudoAfterAll
<1>2. free # {}
  <2>1. Max(Numbers) + 1 \in 2 .. MaxEntries /\ Max(Numbers) + 1 \notin Numbers
      BY NumbersFacts
  <2>2. QED
      BY <2>1, DiskEntryFacts, SizesAssumption
<1>3. AddPartition(gpt, Pseudo.first, lst) =
         IF free = {} THEN gpt
         ELSE [entries |-> [gpt.entries EXCEPT ![Min(free)] = e],
               lastUsable |-> IF lst > gpt.lastUsable THEN lst ELSE gpt.lastUsable]
    BY DEF AddPartition
<1> HIDE DEF free, e
<1>4. AddPartition(gpt, Pseudo.first, lst).entries = [gpt.entries EXCEPT ![Pseudo.number] = e]
    BY <1>1, <1>2, <1>3
<1>5. QED
    BY <1>4 DEF AllEntries, e

\* Adding the pseudo partition: its entry, its region, and room for both.
LEMMA WrapBootBIOKeeps == ASSUME HooksIInv, WrapBootBIO PROVE HooksIInv'
<1>1. /\ stage = "root tried" /\ UNCHANGED <<early, hooked, _bio>> /\ (faults' = faults \/ Failing)
    BY DEF WrapBootBIO, wraps
<1>2. /\ Tables /\ pseudo = NoPseudo /\ \A j \in DOMAIN regions : regions[j] = GptRegion
    BY <1>1 DEF HooksIInv, Pending
<1>3. GptRegion # BootRegion /\ GptRegion # EspRegion /\ BootRegion # EspRegion
    BY RegionFields
<1>4. CASE stage' = "boot tried" /\ UNCHANGED tables
  <2>1. Tables' /\ Pending'
      BY <1>1, <1>2, <1>3, <1>4, TablesStay DEF Pending, tables
  <2>2. QED
      BY <1>1, <1>4, <2>1, HooksOff, StageKeeps DEF early, Stages
<1>5. CASE ~(stage' = "boot tried" /\ UNCHANGED tables)
  <2> DEFINE g == AddPartition(gpt, Pseudo.first, Pseudo.last)
  <2>1. pseudo' = Pseudo /\ AddRegion(g, BootRegion, "boot tried")
      BY <1>5 DEF WrapBootBIO, Pseudo, BootRegion
  <2>2. Pseudo.last \in Nat /\ BootRegion.last = Pseudo.last
      BY PseudoAfterAll, RegionFields
  <2>3. /\ DOMAIN g = {"entries", "lastUsable"} /\ DOMAIN g.entries = 1 .. MaxEntries
        /\ g.entries[1] = gpt.entries[1]
        /\ g.lastUsable = gpt.lastUsable \/ (gpt.lastUsable < Pseudo.last /\ g.lastUsable = Pseudo.last)
      BY <1>2, <2>2, AddPartitionFacts
  <2>4. _bio => g.entries = AllEntries
      BY <1>2, AddsToDisk DEF Tables
  <2>5. Pseudo # NoPseudo
    <3>1. Pseudo.number # 0 /\ NoPseudo.number = 0
        BY PseudoAfterAll, NumbersFacts DEF NoPseudo
    <3>2. QED
        BY <3>1
  <2> HIDE DEF g
  <2>6. BootRegion \in Regions /\ \A j \in DOMAIN regions : regions[j] # BootRegion
      BY <1>2, <1>3 DEF Regions
  <2>7. Tables'
    <3>1. gpt.lastUsable \in Nat /\ gpt.entries[1] \in {NoEntry, DiskEntries[1]}
        BY <1>2 DEF Tables
    <3>2. g.lastUsable \in Nat
        BY <2>2, <2>3, <3>1
    <3>3. QED
        BY <1>1, <1>2, <2>1, <2>2, <2>3, <2>4, <2>5, <2>6, <3>1, <3>2, AddRegionKeeps
  <2>8. stage' \in {"boot tried", "crashed"} /\ regions' = Append(regions, BootRegion)
      BY <2>1 DEF AddRegion
  <2>9. Pending'
    <3>1. \A j \in DOMAIN regions' :
             regions'[j] = BootRegion \/ \E i \in DOMAIN regions : regions'[j] = regions[i]
        BY <1>2, <2>6, <2>8, AppendRegion, Zenon
    <3>2. \A j \in DOMAIN regions' : regions'[j] # EspRegion
        BY <1>2, <1>3, <3>1
    <3>3. QED
        BY <2>8, <3>2 DEF Pending
  <2>10. QED
      BY <1>1, <2>7, <2>8, <2>9, HooksOff, StageKeeps DEF early, Stages
<1>6. QED
    BY <1>4, <1>5

\* Mapping the built-in image over the first partition.
LEMMA MapEFIVFATKeeps == ASSUME HooksIInv, MapEFIVFAT PROVE HooksIInv'
<1>1. /\ stage = "boot tried" /\ UNCHANGED <<early, hooked, _bio>> /\ (faults' = faults \/ Failing)
    BY DEF MapEFIVFAT, wraps
<1>2. /\ Tables /\ \A j \in DOMAIN regions : regions[j] # EspRegion
    BY <1>1 DEF HooksIInv, Pending
<1>3. CASE stage' = "esp tried" /\ UNCHANGED tables
  <2>1. Tables' /\ Pending'
      BY <1>1, <1>2, <1>3, TablesStay DEF Pending
  <2>2. QED
      BY <1>1, <1>3, <2>1, HooksOff, StageKeeps DEF early, Stages
<1>4. CASE ~(stage' = "esp tried" /\ UNCHANGED tables)
  <2> DEFINE e == GetGPTEntry(1)
             r == [id |-> "esp", first |-> e.first, last |-> e.last, numBlocks |-> VfatBlocks,
                   readOnly |-> TRUE]
  <2>1. HasGPTEntry(1) /\ AddRegion(gpt, r, "esp tried") /\ pseudo' = pseudo
      BY <1>4 DEF MapEFIVFAT
  <2>2. e = DiskEntries[1]
      BY <1>2, <2>1 DEF HasGPTEntry, GetGPTEntry, Tables
  <2>3. r = EspRegion
    <3>1. 1 \in Numbers /\ 1 \in 1 .. MaxEntries
        BY NumbersFacts, DiskGPTFacts
    <3>2. e.first = Part(1).start /\ e.last = Part(1).start + Part(1).size - 1
        BY <2>2, <3>1, DiskEntryFacts
    <3> HIDE DEF e
    <3>3. QED
        BY <3>2, Zenon DEF EspRegion
  <2> HIDE DEF r, e
  <2>4. AddRegion(gpt, EspRegion, "esp tried")
      BY <2>1, <2>3, Zenon
  <2>5. EspRegion \in Regions /\ BootRegion # EspRegion
      BY RegionFields DEF Regions
  <2>6. Tables'
    <3>1. /\ DOMAIN gpt = {"entries", "lastUsable"} /\ DOMAIN gpt.entries = 1 .. MaxEntries
          /\ gpt.lastUsable \in Nat /\ gpt.entries[1] \in {NoEntry, DiskEntries[1]}
          /\ pseudo \in {NoPseudo, Pseudo}
          /\ (_bio => gpt.entries = IF pseudo = NoPseudo THEN DiskEntries ELSE AllEntries)
        BY <1>2 DEF Tables
    <3>2. QED
        BY <1>1, <1>2, <2>1, <2>4, <2>5, <3>1, AddRegionKeeps
  <2>7. stage' \in {"esp tried", "crashed"}
      BY <2>4 DEF AddRegion
  <2>8. Pending'
      BY <2>7 DEF Pending
  <2>9. QED
      BY <1>1, <2>6, <2>7, <2>8, HooksOff, StageKeeps DEF early, Stages
<1>5. QED
    BY <1>3, <1>4

\* Exec switches the hooks on; they go off when shim comes back with a failure.
LEMMA ExecKeeps == ASSUME HooksIInv, Exec \/ ExecReturns PROVE HooksIInv'
<1>1. /\ stage' \in {"shim", "returned", "failed"}
      /\ UNCHANGED <<hooked, _bio, _enableIOHooks, tables, disk, boot, file, last, requests, faults>>
    BY DEF Exec, ExecReturns, wraps
<1>2. enableIOHooks' \in BOOLEAN /\ (enableIOHooks' <=> stage' \in {"shim", "returned"})
  <2>1. CASE Exec
      BY <2>1 DEF Exec
  <2>2. CASE ExecReturns
    <3>1. enableIOHooks \in BOOLEAN /\ (stage = "shim" => enableIOHooks)
        BY Zenon DEF HooksIInv, TypeOK, FlagFollowsShim
    <3>2. QED
        BY <2>2, <3>1 DEF ExecReturns
  <2>3. QED
      BY <2>1, <2>2
<1>3. Tables' /\ Pending'
    BY <1>1, TablesStay DEF HooksIInv, Pending
<1>4. QED
    BY <1>1, <1>2, <1>3, StageKeeps DEF Stages

-----------------------------------------------------------------------------
(* The region of a block.                                                  *)

\* The regions have numbers for their bounds.
LEMMA RegionBounds ==
    ASSUME Tables
    PROVE  \A j \in DOMAIN regions :
              j \in Nat /\ regions[j] \in Regions
              /\ regions[j].first \in Nat /\ regions[j].last \in Nat /\ regions[j].first <= regions[j].last
<1>1. DOMAIN regions = 1 .. Len(regions) /\ Len(regions) \in Nat
      /\ \A j \in DOMAIN regions : regions[j] \in Regions
    BY DEF Tables
<1>2. QED
    BY <1>1, RegionsDisjoint

\* No two of the regions that were installed overlap.
LEMMA InstalledDisjoint ==
    ASSUME Tables, NEW j \in DOMAIN regions, NEW k \in DOMAIN regions, j # k
    PROVE  regions[j].last < regions[k].first \/ regions[k].last < regions[j].first
<1>1. regions[j] # regions[k] /\ regions[j] \in Regions /\ regions[k] \in Regions
    BY RegionBounds DEF Tables
<1>2. GptRegion.last < BootRegion.first
    BY RegionsDisjoint DEF Regions
<1>3. QED
    BY <1>1, <1>2, RegionsDisjoint DEF Regions

\* While shim runs the hooks are on.
LEMMA InShim == ASSUME HooksIInv, stage = "shim" PROVE enableIOHooks /\ Tables
    BY Zenon DEF HooksIInv, FlagFollowsShim

\* _FindRegion has no choice: the region of a block is the only one.
LEMMA FoundRegion ==
    ASSUME Tables, NEW lba \in Nat,
           NEW j \in DOMAIN regions, regions[j].first <= lba, lba <= regions[j].last
    PROVE  Holding(lba) # {} /\ _FindRegion(lba) = regions[j]
<1>1. \A k \in Holding(lba) : k = j
    BY InstalledDisjoint, RegionBounds DEF Holding
<1>2. j \in Holding(lba) /\ j \in Nat
    BY RegionBounds DEF Holding
<1>3. Min(Holding(lba)) = j
    BY <1>1, <1>2 DEF Min
<1>4. QED
    BY <1>2, <1>3 DEF _FindRegion

\* What _FindRegion finds is one of the regions and holds the block.
LEMMA FoundHolds ==
    ASSUME Tables, NEW lba \in Nat, Holding(lba) # {}
    PROVE  /\ _FindRegion(lba) \in Regions
           /\ _FindRegion(lba).first <= lba /\ lba <= _FindRegion(lba).last
           /\ _FindRegion(lba).first \in Nat /\ _FindRegion(lba).last \in Nat
<1>1. PICK j \in DOMAIN regions : regions[j].first <= lba /\ lba <= regions[j].last
    BY DEF Holding
<1>2. _FindRegion(lba) = regions[j]
    BY <1>1, FoundRegion
<1>3. QED
    BY <1>1, <1>2, RegionBounds

-----------------------------------------------------------------------------
(* Reads.                                                                  *)

\* A read answers with success or an error.
LEMMA ReadAnswers ==
    ASSUME NEW lba, NEW n, NEW at
    PROVE  ReadThroughRegion(lba, n, at).res \in {"success", "error"}
<1>1. \A b, m : _EFI_BLOCK_IO_ReadBlocks(b, m, at).res \in {"success", "error"}
    BY DEF _EFI_BLOCK_IO_ReadBlocks
<1>2. QED
    BY <1>1 DEF ReadThroughRegion

\* A read inside a region that succeeds has the region's blocks.
LEMMA ReadInside ==
    ASSUME HooksIInv, stage = "shim", NEW lba \in Nat, NEW n \in Nat \ {0}, NEW at,
           NEW j \in Active, Within(regions[j], lba, n),
           ReadThroughRegion(lba, n, at).res = "success"
    PROVE  ReadThroughRegion(lba, n, at).got =
               [k \in 1 .. n |-> RegionBlock(regions[j], lba + k - 1 - regions[j].first)]
<1> DEFINE r == _FindRegion(lba)
           here == IF r.last - lba + 1 < n THEN r.last - lba + 1 ELSE n
<1>1. hooked /\ j \in DOMAIN regions /\ regions[j].first \in Nat /\ regions[j].last \in Nat
    BY InShim, RegionBounds DEF Active
<1>2. Holding(lba) # {} /\ r = regions[j]
    BY <1>1, InShim, FoundRegion DEF Within
<1>3. here = n
    BY <1>1, <1>2 DEF Within
<1>4. enableIOHooks
    BY InShim
<1>5. ReadThroughRegion(lba, n, at) =
        IF r.id = "boot" /\ at = "boot" THEN [res |-> "error", got |-> <<>>]
        ELSE [res |-> "success",
              got |-> [k \in 1 .. here |-> RegionBlock(r, lba + k - 1 - r.first)]]
    BY <1>1, <1>2, <1>3, <1>4, Zenon DEF ReadThroughRegion
<1> HIDE DEF r, here
<1>6. ReadThroughRegion(lba, n, at).got = [k \in 1 .. here |-> RegionBlock(r, lba + k - 1 - r.first)]
    BY <1>5
<1>7. QED
    BY <1>2, <1>3, <1>6, Zenon

\* A read outside all regions that succeeds has the disk's blocks.
LEMMA ReadOutside ==
    ASSUME HooksIInv, stage = "shim", NEW lba \in Nat, NEW n \in Nat \ {0}, NEW at,
           Outside(lba, n), ReadThroughRegion(lba, n, at).res = "success"
    PROVE  ReadThroughRegion(lba, n, at).got = [k \in 1 .. n |-> disk[lba + k - 1]]
<1>1. ~hooked \/ Holding(lba) = {}
  <2>1. \A k \in DOMAIN regions : regions[k].first \in Nat /\ regions[k].last \in Nat
      BY InShim, RegionBounds
  <2>2. QED
      BY <2>1 DEF Holding, Outside, Active
<1>2. ReadThroughRegion(lba, n, at) = _EFI_BLOCK_IO_ReadBlocks(lba, n, at)
    BY <1>1, Zenon DEF ReadThroughRegion
<1>3. QED
    BY <1>2 DEF _EFI_BLOCK_IO_ReadBlocks

-----------------------------------------------------------------------------
(* Writes.                                                                 *)

\* The devices as a write finds them.
Devices == [res |-> "success", disk |-> disk, boot |-> boot, on |-> enableIOHooks]

\* What a write of m blocks to the disk may leave.
Wrote(a, dk, bt, flag, lba, m) ==
    /\ a.on = flag /\ a.boot = bt /\ a.res \in {"success", "error"}
    /\ DOMAIN a.disk = DOMAIN dk
    /\ \A b \in DOMAIN dk \ (lba .. lba + m - 1) : a.disk[b] = dk[b]

\* The firmware's write changes the blocks of the request, or fails and changes
\* none.
LEMMA FirmwareWrites ==
    ASSUME NEW dk, NEW bt, NEW flag, NEW lba \in Nat, NEW data, Len(data) \in Nat, NEW at,
           NEW s, s = [res |-> "success", disk |-> dk, boot |-> bt, on |-> flag]
    PROVE  Wrote(_EFI_BLOCK_IO_WriteBlocks(s, lba, data, at), dk, bt, flag, lba, Len(data))
<1> DEFINE a == _EFI_BLOCK_IO_WriteBlocks(s, lba, data, at)
           new == [b \in DOMAIN dk |-> IF b \in lba .. lba + Len(data) - 1
                                       THEN data[b - lba + 1] ELSE dk[b]]
<1>1. CASE DiskFails(lba, Len(data), at)
  <2>1. a = [s EXCEPT !.res = "error"]
      BY <1>1 DEF _EFI_BLOCK_IO_WriteBlocks
  <2> HIDE DEF a
  <2>2. a = [res |-> "error", disk |-> dk, boot |-> bt, on |-> flag]
      BY <2>1
  <2>3. a.on = flag /\ a.boot = bt /\ a.res = "error" /\ a.disk = dk
      BY <2>2
  <2>4. QED
      BY <2>3 DEF Wrote, a
<1>2. CASE ~DiskFails(lba, Len(data), at)
  <2>1. a = [s EXCEPT !.disk = [b \in DOMAIN s.disk |->
                                   IF b \in lba .. lba + Len(data) - 1
                                   THEN data[b - lba + 1] ELSE s.disk[b]]]
      BY <1>2 DEF _EFI_BLOCK_IO_WriteBlocks
  <2>2. s.disk = dk
      OBVIOUS
  <2>3. a = [s EXCEPT !.disk = new]
      BY <2>1, <2>2
  <2> HIDE DEF new, a
  <2>4. a = [res |-> "success", disk |-> new, boot |-> bt, on |-> flag]
      BY <2>3
  <2>5. a.on = flag /\ a.boot = bt /\ a.res = "success" /\ a.disk = new
      BY <2>4
  <2>6. DOMAIN new = DOMAIN dk
      BY DEF new
  <2>7. \A b \in DOMAIN dk \ (lba .. lba + Len(data) - 1) : new[b] = dk[b]
      BY DEF new
  <2>8. QED
      BY <2>5, <2>6, <2>7 DEF Wrote, a
<1>3. QED
    BY <1>1, <1>2

\* What a write through the hook leaves alone.
HookWrote(a, lba, n) ==
    /\ a.on = enableIOHooks /\ a.res \in {"success", "error", "write protected"}
    /\ DOMAIN a.disk = DOMAIN disk /\ DOMAIN a.boot = DOMAIN boot
    /\ \A b \in DOMAIN disk \ (lba .. lba + n - 1) : a.disk[b] = disk[b]
    /\ _bio => \A b \in 0 .. GptBlocks - 1 : b \in DOMAIN disk => a.disk[b] = disk[b]
    /\ (\E j \in Active : Within(regions[j], lba, n)) => a.disk = disk
    /\ Outside(lba, n) => a.boot = boot

\* The hook writes that way: into a GPT it covers never, into a region only there, and
\* with the blocks behind a region at most those of the request.
LEMMA HookWrites ==
    ASSUME HooksIInv, stage = "shim", NEW lba \in Nat, NEW n \in Nat \ {0},
           NEW data, Len(data) = n, NEW at, NEW done \in Nat
    PROVE  HookWrote(_EFI_BLOCK_IO_WriteBlocksHook(lba, data, at, done), lba, n)
<1> DEFINE a == _EFI_BLOCK_IO_WriteBlocksHook(lba, data, at, done)
           r == _FindRegion(lba)
           here == IF r.last - lba + 1 < n THEN r.last - lba + 1 ELSE n
           put(m) == [l \in DOMAIN boot |->
                         IF l + r.first \in lba .. lba + m - 1
                         THEN data[l + r.first - lba + 1] ELSE boot[l]]
           rest == SubSeq(data, here + 1, n)
           free == ~hooked \/ Holding(lba) = {}
<1>1. /\ enableIOHooks /\ Tables
      /\ \A j \in DOMAIN regions : regions[j].first \in Nat /\ regions[j].last \in Nat
    BY InShim, RegionBounds
<1>2. a = IF free THEN _EFI_BLOCK_IO_WriteBlocks(Devices, lba, data, at)
          ELSE IF r.readOnly THEN [Devices EXCEPT !.res = "write protected"]
          ELSE IF at = "boot"
          THEN [Devices EXCEPT !.res = "error", !.boot = put(IF done < here THEN done ELSE here)]
          ELSE IF here = n THEN [Devices EXCEPT !.boot = put(n)]
          ELSE _EFI_BLOCK_IO_WriteBlocks([Devices EXCEPT !.boot = put(here)], lba + here, rest, at)
    BY <1>1, Zenon DEF _EFI_BLOCK_IO_WriteBlocksHook, Devices
<1>3. \A m : DOMAIN put(m) = DOMAIN boot
    OBVIOUS
<1>4. Outside(lba, n) => free
    BY <1>1 DEF Outside, Holding, Active
<1>5. \A j \in Active : Within(regions[j], lba, n) => ~free /\ r = regions[j]
    BY <1>1, FoundRegion DEF Within, Active
<1>6. \A j \in Active : Within(regions[j], lba, n) => here = n
    BY <1>1, <1>5 DEF Within, Active
<1>7. _bio => \A b \in 0 .. GptBlocks - 1 : free => b \notin lba .. lba + n - 1
  <2>1. SUFFICES ASSUME _bio, free PROVE ~(lba <= GptBlocks - 1)
      BY SizesAssumption
  <2>2. PICK j \in DOMAIN regions : regions[j] = GptRegion
      BY <1>1, <2>1 DEF Tables
  <2>3. regions[j].first = 0 /\ regions[j].last = GptBlocks - 1
      BY <2>2, RegionFields
  <2>4. Holding(lba) = {}
      BY <1>1, <2>1 DEF Tables
  <2>5. QED
      BY <2>3, <2>4 DEF Holding
<1>8. ~free =>
         /\ r \in Regions /\ r.first <= lba /\ lba <= r.last
         /\ r.first \in Nat /\ r.last \in Nat
    BY <1>1, FoundHolds
<1>9. ~free /\ ~r.readOnly => GptBlocks <= lba
  <2>1. ~free /\ ~r.readOnly => r = BootRegion
      BY <1>8, RegionFields, Zenon DEF Regions
  <2>2. GptBlocks <= BootRegion.first /\ BootRegion.first \in Nat
      BY RegionsDisjoint, RegionFields, SizesAssumption DEF Regions
  <2>3. QED
      BY <1>8, <2>1, <2>2, SizesAssumption
<1> HIDE DEF put, a, free
<1>10. /\ Devices = [res |-> "success", disk |-> disk, boot |-> boot, on |-> enableIOHooks]
       /\ \A m : [Devices EXCEPT !.boot = put(m)] =
                 [res |-> "success", disk |-> disk, boot |-> put(m), on |-> enableIOHooks]
    BY DEF Devices
<1>11. CASE free
  <2>1. a = _EFI_BLOCK_IO_WriteBlocks(Devices, lba, data, at)
      BY <1>2, <1>11, Zenon
  <2>2. /\ a.on = enableIOHooks /\ a.boot = boot /\ a.res \in {"success", "error"}
        /\ DOMAIN a.disk = DOMAIN disk
        /\ \A b \in DOMAIN disk \ (lba .. lba + n - 1) : a.disk[b] = disk[b]
    <3>1. Wrote(a, disk, boot, enableIOHooks, lba, Len(data))
        BY <1>10, <2>1, FirmwareWrites
    <3>2. QED
        BY <3>1 DEF Wrote
  <2>3. QED
      BY <1>5, <1>7, <1>11, <2>2 DEF HookWrote, a
<1>12. CASE ~free /\ r.readOnly
  <2>1. a = [Devices EXCEPT !.res = "write protected"]
      BY <1>2, <1>12, Zenon
  <2>2. a.on = enableIOHooks /\ a.boot = boot /\ a.disk = disk /\ a.res = "write protected"
      BY <2>1 DEF Devices
  <2>3. QED
      BY <2>2 DEF HookWrote, a
<1>13. CASE ~free /\ ~r.readOnly /\ (at = "boot" \/ here = n)
  <2>1. PICK m : \/ a = [Devices EXCEPT !.res = "error", !.boot = put(m)]
                 \/ a = [Devices EXCEPT !.boot = put(m)]
      BY <1>2, <1>13, Zenon
  <2>2. a.on = enableIOHooks /\ a.boot = put(m) /\ a.disk = disk /\ a.res \in {"success", "error"}
      BY <2>1 DEF Devices
  <2>3. QED
      BY <1>3, <1>4, <1>13, <2>2 DEF HookWrote, a
<1>14. CASE ~free /\ ~r.readOnly /\ at # "boot" /\ here # n
  <2> DEFINE s == [Devices EXCEPT !.boot = put(here)]
  <2>1. a = _EFI_BLOCK_IO_WriteBlocks(s, lba + here, rest, at)
      BY <1>2, <1>14, Zenon
  <2>2. here \in Nat /\ here >= 1 /\ here < n
      BY <1>8, <1>14
  <2> HIDE DEF here
  <2>3. Len(rest) = n - here
      BY <2>2 DEF rest
  <2> HIDE DEF rest, s
  <2>4. lba + here \in Nat /\ Len(rest) \in Nat
      BY <2>2, <2>3
  <2>5. /\ a.on = enableIOHooks /\ a.boot = put(here) /\ a.res \in {"success", "error"}
        /\ DOMAIN a.disk = DOMAIN disk
        /\ \A b \in DOMAIN disk \ (lba + here .. lba + here + Len(rest) - 1) : a.disk[b] = disk[b]
    <3> DEFINE from == lba + here
               bt == put(here)
    <3>1. s = [res |-> "success", disk |-> disk, boot |-> bt, on |-> enableIOHooks]
        BY <1>10 DEF s
    <3>2. a = _EFI_BLOCK_IO_WriteBlocks(s, from, rest, at) /\ from \in Nat /\ Len(rest) \in Nat
        BY <2>1, <2>4
    <3> HIDE DEF from, bt
    <3>3. Wrote(a, disk, bt, enableIOHooks, from, Len(rest))
        BY <3>1, <3>2, FirmwareWrites, Zenon
    <3>4. QED
        BY <3>3 DEF Wrote, from, bt
  <2>6. \A b : b \notin lba .. lba + n - 1 => b \notin lba + here .. lba + here + Len(rest) - 1
      BY <2>2, <2>3
  <2>7. \A b \in 0 .. GptBlocks - 1 : b \notin lba + here .. lba + here + Len(rest) - 1
      BY <1>9, <1>14, <2>2, <2>3, SizesAssumption
  <2>8. ~\E j \in Active : Within(regions[j], lba, n)
      BY <1>6, <1>14
  <2>9. ~Outside(lba, n)
      BY <1>4, <1>14
  <2>10. QED
      BY <1>3, <2>5, <2>6, <2>7, <2>8, <2>9 DEF HookWrote, a
<1>15. QED
    BY <1>11, <1>12, <1>13, <1>14

-----------------------------------------------------------------------------
(* The requests.                                                           *)

\* A request counts, and so does a fault.
LEMMA RequestCounts ==
    ASSUME requests \in 0 .. MaxRequests, faults \in 0 .. MaxFaults,
           Request, faults' = faults \/ Failing
    PROVE  faults' \in 0 .. MaxFaults /\ requests' \in 0 .. MaxRequests
    BY SizesAssumption DEF Failing, Request

\* What a request has to show: the flag and the tables stay as they are.
LEMMA RequestKeeps ==
    ASSUME HooksIInv, Request, UNCHANGED <<stage, hooked, _bio, tables>>,
           enableIOHooks' = enableIOHooks, _enableIOHooks' \in BOOLEAN,
           DOMAIN disk' = DOMAIN disk, DOMAIN boot' = DOMAIN boot,
           last'.res \in {"success", "error", "write protected", "not found", "end of file"},
           faults' = faults \/ Failing, FileOK'
    PROVE  HooksIInv'
<1>1. faults' \in 0 .. MaxFaults /\ requests' \in 0 .. MaxRequests
  <2>1. faults \in 0 .. MaxFaults /\ requests \in 0 .. MaxRequests
      BY DEF HooksIInv, TypeOK
  <2>2. QED
      BY <2>1, RequestCounts, Zenon
<1>2. enableIOHooks' \in BOOLEAN /\ FlagFollowsShim'
    BY Zenon DEF HooksIInv, TypeOK, FlagFollowsShim
<1>3. Tables' /\ Pending'
    BY TablesStay, PendingStays DEF HooksIInv
<1>4. TypeOK'
    BY <1>1, <1>2 DEF HooksIInv, TypeOK, tables
<1>5. QED
    BY <1>2, <1>3, <1>4 DEF HooksIInv

LEMMA ReadBlocksKeeps ==
    ASSUME HooksIInv, NEW lba \in 0 .. mediaLast, NEW n \in 1 .. MaxLen, ReadBlocks(lba, n)
    PROVE  HooksIInv'
<1>1. PICK at \in {"none", "disk", "boot"} :
         LET a == _EFI_BLOCK_IO_ReadBlocksHook(lba, n, at)
         IN  /\ Fault(at)
             /\ last' = [op |-> "read", lba |-> lba, n |-> n, got |-> a.got, res |-> a.res]
             /\ enableIOHooks' = a.on
    BY DEF ReadBlocks
<1> DEFINE a == ReadThroughRegion(lba, n, at)
<1>2. /\ last' = [op |-> "read", lba |-> lba, n |-> n, got |-> a.got, res |-> a.res]
      /\ enableIOHooks' = enableIOHooks
    BY <1>1 DEF _EFI_BLOCK_IO_ReadBlocksHook
<1>3. a.res \in {"success", "error"}
    BY ReadAnswers
<1> HIDE DEF a
<1>4. last'.op = "read" /\ last'.res \in {"success", "error"}
    BY <1>2, <1>3
<1>5. Request /\ UNCHANGED <<stage, hooked, _bio, _enableIOHooks, tables, disk, boot, file>>
    BY DEF ReadBlocks, wraps
<1>6. faults' = faults \/ Failing
    BY <1>1 DEF Fault
<1>7. FileOK'
    BY <1>4, <1>5 DEF HooksIInv, FileOK
<1>8. _enableIOHooks' \in BOOLEAN
    BY <1>5 DEF HooksIInv, TypeOK
<1>9. QED
    BY <1>2, <1>4, <1>5, <1>6, <1>7, <1>8, RequestKeeps

\* A write as the hook performs it.
LEMMA WriteBlocksFacts ==
    ASSUME HooksIInv, NEW lba \in 0 .. mediaLast, NEW n \in 1 .. MaxLen, WriteBlocks(lba, n)
    PROVE  /\ enableIOHooks' = enableIOHooks /\ (faults' = faults \/ Failing)
           /\ last'.op = "write" /\ last'.lba = lba /\ last'.n = n
           /\ last'.res \in {"success", "error", "write protected"}
           /\ DOMAIN disk' = DOMAIN disk /\ DOMAIN boot' = DOMAIN boot
           /\ \A b \in DOMAIN disk \ (lba .. lba + n - 1) : disk'[b] = disk[b]
           /\ _bio => \A b \in 0 .. GptBlocks - 1 : b \in DOMAIN disk => disk'[b] = disk[b]
           /\ (\E j \in Active : Within(regions[j], lba, n)) => disk' = disk
           /\ Outside(lba, n) => boot' = boot
<1> DEFINE data == [k \in 1 .. n |-> Block("new", lba + k - 1, requests + 1)]
           hook(at, done) == _EFI_BLOCK_IO_WriteBlocksHook(lba, data, at, done)
<1>1. PICK at \in {"none", "disk", "boot"}, done \in 0 .. n - 1 :
         /\ Fault(at)
         /\ boot' = hook(at, done).boot /\ disk' = hook(at, done).disk
         /\ enableIOHooks' = hook(at, done).on
         /\ last' = [op |-> "write", lba |-> lba, n |-> n, got |-> <<>>, res |-> hook(at, done).res]
    BY Zenon DEF WriteBlocks
<1> DEFINE a == hook(at, done)
<1>2. Len(data) = n /\ n \in Nat \ {0} /\ done \in Nat
    BY SizesAssumption
<1>3. stage = "shim" /\ lba \in Nat
  <2>1. stage = "shim"
      BY DEF WriteBlocks, Request
  <2>2. mediaLast \in Nat
      BY DEF HooksIInv, Tables
  <2>3. QED
      BY <2>1, <2>2
<1>4. a = _EFI_BLOCK_IO_WriteBlocksHook(lba, data, at, done)
    OBVIOUS
<1> HIDE DEF hook, data, a
<1>5. HookWrote(a, lba, n)
    BY <1>2, <1>3, <1>4, HookWrites, Zenon
<1>6. /\ boot' = a.boot /\ disk' = a.disk /\ enableIOHooks' = a.on
      /\ last' = [op |-> "write", lba |-> lba, n |-> n, got |-> <<>>, res |-> a.res]
    BY <1>1, Zenon DEF a
<1>7. last'.op = "write" /\ last'.lba = lba /\ last'.n = n /\ last'.res = a.res
    BY <1>6
<1>8. faults' = faults \/ Failing
    BY <1>1 DEF Fault
<1>9. enableIOHooks' = enableIOHooks
    BY <1>5, <1>6, Zenon DEF HookWrote
<1>10. QED
    BY <1>5, <1>6, <1>7, <1>8, <1>9 DEF HookWrote

LEMMA WriteBlocksKeeps ==
    ASSUME HooksIInv, NEW lba \in 0 .. mediaLast, NEW n \in 1 .. MaxLen, WriteBlocks(lba, n)
    PROVE  HooksIInv'
<1>1. Request /\ UNCHANGED <<stage, hooked, _bio, _enableIOHooks, tables, file>>
    BY DEF WriteBlocks, wraps
<1>2. FileOK'
    BY <1>1, WriteBlocksFacts DEF HooksIInv, FileOK
<1>3. _enableIOHooks' \in BOOLEAN
    BY <1>1 DEF HooksIInv, TypeOK
<1>4. QED
    BY <1>1, <1>2, <1>3, WriteBlocksFacts, RequestKeeps

LEMMA OpenHookKeeps ==
    ASSUME HooksIInv, NEW name, _EFI_FILE_OpenHook(name)
    PROVE  HooksIInv'
<1>1. Request /\ UNCHANGED <<stage, hooked, _bio, tables, disk, boot, faults>>
    BY DEF _EFI_FILE_OpenHook, wraps
<1>2. enableIOHooks' = enableIOHooks /\ _enableIOHooks' = enableIOHooks
    BY Zenon DEF _EFI_FILE_OpenHook
<1>3. last'.op = "open" /\ last'.res \in {"success", "not found"}
    BY DEF _EFI_FILE_OpenHook, Nothing
<1>4. file' = file \/ file' = [open |-> TRUE, offset |-> 0, taken |-> <<>>]
    BY DEF _EFI_FILE_OpenHook, NoFile
<1>5. FileOK'
  <2>1. CASE file' = file
      BY <1>3, <2>1 DEF HooksIInv, FileOK
  <2>2. CASE file' = [open |-> TRUE, offset |-> 0, taken |-> <<>>]
    <3>1. file'.offset = 0 /\ file'.taken = <<>> /\ DOMAIN file' = {"open", "offset", "taken"}
        BY <2>2
    <3>2. [k \in 1 .. 0 |-> k] = <<>>
        OBVIOUS
    <3>3. file'.offset \in 0 .. GrubSize
        BY <3>1, SizesAssumption
    <3>4. file'.taken = [k \in 1 .. file'.offset |-> k]
        BY <3>1, <3>2
    <3>5. QED
        BY <1>3, <3>1, <3>3, <3>4 DEF FileOK
  <2>3. QED
      BY <1>4, <2>1, <2>2
<1>6. _enableIOHooks' \in BOOLEAN
    BY <1>2, Zenon DEF HooksIInv, TypeOK
<1>7. QED
    BY <1>1, <1>2, <1>3, <1>5, <1>6, RequestKeeps

\* Reading m pieces on from piece o.
LEMMA TakenGrows ==
    ASSUME NEW o \in Nat, NEW m \in Nat
    PROVE  [k \in 1 .. o |-> k] \o [k \in 1 .. m |-> o + k] = [k \in 1 .. o + m |-> k]
<1> DEFINE s == [k \in 1 .. o |-> k]
           t == [k \in 1 .. m |-> o + k]
           u == [k \in 1 .. o + m |-> k]
<1>1. s \in Seq(Nat) /\ t \in Seq(Nat) /\ u \in Seq(Nat)
    OBVIOUS
<1>2. Len(s) = o /\ Len(t) = m /\ Len(u) = o + m
    OBVIOUS
<1>3. \A k \in 1 .. o : s[k] = k
    OBVIOUS
<1>4. \A k \in 1 .. m : t[k] = o + k
    OBVIOUS
<1>5. \A k \in 1 .. o + m : u[k] = k
    OBVIOUS
<1> HIDE DEF s, t, u
<1>6. /\ s \o t \in Seq(Nat) /\ Len(s \o t) = o + m
      /\ \A k \in 1 .. o + m : (s \o t)[k] = IF k <= o THEN s[k] ELSE t[k - o]
    BY <1>1, <1>2, ConcatProperties
<1>7. \A k \in 1 .. o + m : (s \o t)[k] = u[k]
  <2>1. SUFFICES ASSUME NEW k \in 1 .. o + m PROVE (s \o t)[k] = k
      BY <1>5
  <2>2. CASE k <= o
      BY <1>3, <1>6, <2>2
  <2>3. CASE ~(k <= o)
    <3>1. k - o \in 1 .. m /\ o + (k - o) = k
        BY <2>3
    <3>2. QED
        BY <1>4, <1>6, <2>3, <3>1
  <2>4. QED
      BY <2>2, <2>3
<1>8. s \o t = u
    BY <1>1, <1>2, <1>6, <1>7, SeqEqual
<1>9. QED
    BY <1>8 DEF s, t, u

LEMMA ReadHookKeeps ==
    ASSUME HooksIInv, NEW n \in 1 .. GrubSize, _EFI_FILE_ReadHook(n)
    PROVE  HooksIInv'
<1> DEFINE rem == GrubSize - file.offset
           m == IF rem < n THEN rem ELSE n
<1>1. /\ Request /\ UNCHANGED <<stage, hooked, _bio, tables, disk, boot, faults>>
      /\ enableIOHooks' = enableIOHooks /\ _enableIOHooks' = _enableIOHooks
    BY DEF _EFI_FILE_ReadHook, wraps
<1>2. /\ file.offset \in 0 .. GrubSize /\ file.taken = [k \in 1 .. file.offset |-> k]
      /\ DOMAIN file = {"open", "offset", "taken"}
    BY DEF HooksIInv, FileOK
<1>3. m \in Nat /\ file.offset + m \in 0 .. GrubSize
    BY <1>2, SizesAssumption
<1>4. CASE rem = 0
  <2>1. file' = file /\ last' = [Nothing EXCEPT !.op = "file", !.res = "end of file"]
      BY <1>4, Zenon DEF _EFI_FILE_ReadHook
  <2>2. last'.res = "end of file"
      BY <2>1 DEF Nothing
  <2>3. file.offset = GrubSize
      BY <1>2, <1>4, SizesAssumption
  <2>4. FileOK'
      BY <1>2, <2>1, <2>3 DEF FileOK
  <2>5. _enableIOHooks' \in BOOLEAN
      BY <1>1 DEF HooksIInv, TypeOK
  <2>6. QED
      BY <1>1, <2>2, <2>4, <2>5, RequestKeeps
<1>5. CASE rem # 0
  <2>1. /\ file' = [file EXCEPT !.offset = @ + m, !.taken = @ \o [k \in 1 .. m |-> file.offset + k]]
        /\ last' = [Nothing EXCEPT !.op = "file", !.n = m]
      BY <1>5, Zenon DEF _EFI_FILE_ReadHook
  <2> HIDE DEF m
  <2>2. last'.res = "success"
      BY <2>1 DEF Nothing
  <2>3. /\ file'.offset = file.offset + m
        /\ file'.taken = file.taken \o [k \in 1 .. m |-> file.offset + k]
        /\ DOMAIN file' = {"open", "offset", "taken"}
      BY <1>2, <2>1
  <2>4. file'.taken = [k \in 1 .. file'.offset |-> k]
    <3>1. file.offset \in Nat
        BY <1>2, SizesAssumption
    <3>2. [k \in 1 .. file.offset |-> k] \o [k \in 1 .. m |-> file.offset + k]
             = [k \in 1 .. file.offset + m |-> k]
        BY <1>3, <3>1, TakenGrows
    <3>3. QED
        BY <1>2, <2>3, <3>2
  <2>5. FileOK'
      BY <1>3, <2>2, <2>3, <2>4 DEF FileOK
  <2>6. _enableIOHooks' \in BOOLEAN
      BY <1>1 DEF HooksIInv, TypeOK
  <2>7. QED
      BY <1>1, <2>2, <2>5, <2>6, RequestKeeps
<1>6. QED
    BY <1>4, <1>5

-----------------------------------------------------------------------------
(* The theorems.                                                           *)

LEMMA HooksInit == Init => HooksIInv
<1> SUFFICES ASSUME Init PROVE HooksIInv
    OBVIOUS
<1>1. TypeOK
  <2>1. DOMAIN disk = 0 .. LastLBA /\ DOMAIN boot = 0 .. BootBlocks - 1
      BY DEF Init
  <2>2. enableIOHooks \in BOOLEAN /\ _enableIOHooks \in BOOLEAN
      BY DEF Init
  <2>3. last.res = "success" /\ regions = <<>>
      BY DEF Init, Nothing
  <2>4. requests \in 0 .. MaxRequests /\ faults \in 0 .. MaxFaults
      BY SizesAssumption DEF Init
  <2>5. QED
      BY <2>1, <2>2, <2>3, <2>4 DEF Init, TypeOK
<1>2. FlagFollowsShim /\ Pending
    BY DEF Init, FlagFollowsShim, Pending
<1>5. Tables
  <2>1. /\ regions = <<>> /\ mediaLast = LastLBA /\ gpt = NoGPT /\ pseudo = NoPseudo /\ ~_bio
        /\ regions \in Seq(Regions) /\ DOMAIN regions = {}
      BY DEF Init
  <2>2. /\ DOMAIN gpt = {"entries", "lastUsable"} /\ DOMAIN gpt.entries = 1 .. MaxEntries
        /\ gpt.lastUsable = 0 /\ gpt.entries[1] = NoEntry
    <3>1. 1 \in 1 .. MaxEntries
        BY NumbersFacts, SizesAssumption
    <3>2. QED
        BY <2>1, <3>1 DEF NoGPT
  <2>3. QED
      BY <2>1, <2>2, SizesAssumption DEF Tables
<1>3. FileOK
  <2>1. file = [open |-> FALSE, offset |-> 0, taken |-> <<>>] /\ last.op = "none"
      BY DEF Init, NoFile, Nothing
  <2>2. file.offset = 0 /\ file.taken = <<>> /\ DOMAIN file = {"open", "offset", "taken"}
      BY <2>1
  <2>3. file.offset \in 0 .. GrubSize
      BY <2>2, SizesAssumption
  <2>4. file.taken = [k \in 1 .. file.offset |-> k]
      BY <2>2
  <2>5. QED
      BY <2>1, <2>2, <2>3, <2>4 DEF FileOK
<1>4. QED
    BY <1>1, <1>2, <1>3, <1>5 DEF HooksIInv

LEMMA HooksNext == HooksIInv /\ [Next]_vars => HooksIInv'
<1> SUFFICES ASSUME HooksIInv, [Next]_vars PROVE HooksIInv'
    OBVIOUS
<1>1. CASE StartShim
    BY <1>1, PrepareKeeps, InstallRootBIOKeeps, WrapBootBIOKeeps, MapEFIVFATKeeps, ExecKeeps
    DEF StartShim
<1>2. ASSUME NEW lba \in 0 .. mediaLast, NEW n \in 1 .. MaxLen,
             ReadBlocks(lba, n) \/ WriteBlocks(lba, n)
      PROVE  HooksIInv'
    BY <1>2, ReadBlocksKeeps, WriteBlocksKeeps
<1>3. ASSUME NEW name \in {"grub", "other"}, _EFI_FILE_OpenHook(name) PROVE HooksIInv'
    BY <1>3, OpenHookKeeps
<1>4. ASSUME NEW n \in 1 .. GrubSize, _EFI_FILE_ReadHook(n) PROVE HooksIInv'
    BY <1>4, ReadHookKeeps
<1>5. CASE UNCHANGED vars
  <2>1. TypeOK' /\ FlagFollowsShim'
      BY <1>5 DEF HooksIInv, vars, early, wraps, tables, TypeOK, FlagFollowsShim
  <2>2. FileOK'
      BY <1>5 DEF HooksIInv, vars, early, FileOK
  <2>3. Tables' /\ Pending'
      BY <1>5, TablesStay, PendingStays DEF HooksIInv, vars, wraps
  <2>4. QED
      BY <2>1, <2>2, <2>3 DEF HooksIInv
<1>6. QED
    BY <1>1, <1>2, <1>3, <1>4, <1>5 DEF Next

\* Whichever calls of StartShim failed, the tables, the flag and the file are
\* what HooksIInv says: the invariant is inductive.
THEOREM HooksInductive == Spec => []HooksIInv
    BY HooksInit, HooksNext, PTL DEF Spec

LEMMA TablesTrue == ASSUME HooksIInv PROVE TableTrue
<1>1. Tables
    BY DEF HooksIInv
<1>2. \A j, k \in DOMAIN regions :
         j = k \/ regions[j].last < regions[k].first \/ regions[k].last < regions[j].first
    BY <1>1, InstalledDisjoint
<1>3. ASSUME _bio
      PROVE  /\ pseudo # NoPseudo =>
                   gpt.entries[pseudo.number] = [first |-> pseudo.first, last |-> pseudo.last]
             /\ \A j, k \in 1 .. MaxEntries :
                   \/ j = k \/ gpt.entries[j] = NoEntry \/ gpt.entries[k] = NoEntry
                   \/ gpt.entries[j].last < gpt.entries[k].first
                   \/ gpt.entries[k].last < gpt.entries[j].first
             /\ \A j \in DOMAIN regions : regions[j].last <= mediaLast
  <2>1. /\ gpt.entries = (IF pseudo = NoPseudo THEN DiskEntries ELSE AllEntries)
        /\ pseudo \in {NoPseudo, Pseudo}
      BY <1>1, <1>3 DEF Tables
  <2>2. \A j \in DOMAIN regions : regions[j].last <= mediaLast
    <3>1. \A j \in DOMAIN regions : regions[j].last <= gpt.lastUsable /\ regions[j].last \in Nat
        BY <1>1, <1>3, RegionBounds DEF Tables
    <3>2. gpt.lastUsable <= mediaLast /\ gpt.lastUsable \in Nat /\ mediaLast \in Nat
        BY <1>1, <1>3 DEF Tables
    <3>3. QED
        BY <3>1, <3>2
  <2>3. CASE pseudo = NoPseudo
      BY <2>1, <2>2, <2>3, DiskEntriesDisjoint
  <2>4. CASE pseudo # NoPseudo
      BY <2>1, <2>2, <2>4, EntriesDisjoint
  <2>5. QED
      BY <2>3, <2>4
<1>4. QED
    BY <1>2, <1>3, Zenon DEF TableTrue

LEMMA FileWhole == ASSUME HooksIInv PROVE GrubWhole
<1>1. file.offset \in Nat /\ file.taken = [k \in 1 .. file.offset |-> k]
  <2>1. file.offset \in 0 .. GrubSize /\ file.taken = [k \in 1 .. file.offset |-> k]
      BY DEF HooksIInv, FileOK
  <2>2. QED
      BY <2>1, SizesAssumption
<1>2. Len(file.taken) = file.offset
    BY <1>1
<1>3. last.op = "file" /\ last.res = "end of file" => file.offset = GrubSize
    BY DEF HooksIInv, FileOK
<1>4. QED
    BY <1>1, <1>2, <1>3, Zenon DEF GrubWhole

\* Whatever the layout of the disk and whichever of the calls before shim failed,
\* the hooks are on just while shim runs and when it has returned success, no two
\* regions overlap, GRUB's image comes in order, and behind a hooked root disk
\* shim finds a partition table without overlaps in which the decrypted boot
\* partition, if it is there, has the entry its device path says (HooksInv).
THEOREM HooksSafe == Spec => []HooksInv
<1>1. HooksIInv => HooksInv
    BY TablesTrue, FileWhole DEF HooksIInv, HooksInv
<1>2. QED
    BY <1>1, HooksInductive, PTL

\* The action that ReadsCoherent demands of every step.
ReadCoherent ==
    last'.op = "read" /\ last'.res = "success" /\ requests' > requests =>
        LET lba == last'.lba
            n == last'.n
        IN  /\ Outside(lba, n) => last'.got = [k \in 1 .. n |-> disk[lba + k - 1]]
            /\ \A j \in Active :
                  LET r == regions[j]
                  IN  Within(r, lba, n) =>
                         \A k \in 1 .. n :
                            last'.got[k] = (IF r.id = "boot" THEN boot[lba + k - 1 - pseudo.first]
                                            ELSE IF lba + k - 1 - r.first < r.numBlocks
                                            THEN Block(r.id, lba + k - 1 - r.first, 0) ELSE Zero)

\* Only the requests count: other steps leave requests as it is.
LEMMA OnlyRequestsCount ==
    ASSUME HooksIInv, StartShim \/ UNCHANGED vars
    PROVE  ~(requests' > requests)
<1>1. requests' = requests
    BY DEF StartShim, LoadShim, _LoadGRUB, WrapESPFileIO, InstallRootBIO, WrapBootBIO, MapEFIVFAT,
           Exec, ExecReturns, Fail, vars, early
<1>2. requests \in 0 .. MaxRequests
    BY DEF HooksIInv, TypeOK
<1>3. requests \in Nat
    BY <1>2, SizesAssumption
<1>4. QED
    BY <1>1, <1>3

\* Which requests leave which op in last.
LEMMA FileRequests ==
    ASSUME (\E name : _EFI_FILE_OpenHook(name)) \/ (\E n : _EFI_FILE_ReadHook(n))
    PROVE  last'.op \in {"open", "file"}
<1>1. ASSUME NEW name, _EFI_FILE_OpenHook(name) PROVE last'.op = "open"
    BY <1>1 DEF _EFI_FILE_OpenHook, Nothing
<1>2. ASSUME NEW n, _EFI_FILE_ReadHook(n) PROVE last'.op = "file"
    BY <1>2 DEF _EFI_FILE_ReadHook, Nothing
<1>3. QED
    BY <1>1, <1>2

LEMMA ReadBlocksCoherent ==
    ASSUME HooksIInv, NEW lba \in 0 .. mediaLast, NEW n \in 1 .. MaxLen, ReadBlocks(lba, n)
    PROVE  ReadCoherent
<1>1. PICK at \in {"none", "disk", "boot"} :
         LET a == _EFI_BLOCK_IO_ReadBlocksHook(lba, n, at)
         IN  last' = [op |-> "read", lba |-> lba, n |-> n, got |-> a.got, res |-> a.res]
    BY DEF ReadBlocks
<1> DEFINE a == ReadThroughRegion(lba, n, at)
<1>2. last' = [op |-> "read", lba |-> lba, n |-> n, got |-> a.got, res |-> a.res]
    BY <1>1 DEF _EFI_BLOCK_IO_ReadBlocksHook
<1>3. stage = "shim" /\ lba \in Nat /\ n \in Nat \ {0}
  <2>1. stage = "shim"
      BY DEF ReadBlocks, Request
  <2>2. mediaLast \in Nat
      BY DEF HooksIInv, Tables
  <2>3. QED
      BY <2>1, <2>2, SizesAssumption
<1>4. last'.lba = lba /\ last'.n = n /\ last'.got = a.got /\ last'.res = a.res
  <2> HIDE DEF a
  <2>1. QED
      BY <1>2
<1>5. SUFFICES ASSUME a.res = "success"
               PROVE  /\ Outside(lba, n) => a.got = [k \in 1 .. n |-> disk[lba + k - 1]]
                      /\ \A j \in Active : Within(regions[j], lba, n) =>
                            \A k \in 1 .. n : a.got[k] =
                               (IF regions[j].id = "boot" THEN boot[lba + k - 1 - pseudo.first]
                                ELSE IF lba + k - 1 - regions[j].first < regions[j].numBlocks
                                THEN Block(regions[j].id, lba + k - 1 - regions[j].first, 0) ELSE Zero)
  <2> HIDE DEF a
  <2>1. QED
      BY <1>4, Zenon DEF ReadCoherent
<1>6. Outside(lba, n) => a.got = [k \in 1 .. n |-> disk[lba + k - 1]]
    BY <1>3, <1>5, ReadOutside
<1>7. ASSUME NEW j \in Active, Within(regions[j], lba, n), NEW k \in 1 .. n
      PROVE  a.got[k] = (IF regions[j].id = "boot" THEN boot[lba + k - 1 - pseudo.first]
                         ELSE IF lba + k - 1 - regions[j].first < regions[j].numBlocks
                         THEN Block(regions[j].id, lba + k - 1 - regions[j].first, 0) ELSE Zero)
  <2>1. a.got = [i \in 1 .. n |-> RegionBlock(regions[j], lba + i - 1 - regions[j].first)]
      BY <1>3, <1>5, <1>7, ReadInside
  <2> HIDE DEF a
  <2>2. a.got[k] = RegionBlock(regions[j], lba + k - 1 - regions[j].first)
      BY <2>1
  <2>3. regions[j].id = "boot" => regions[j].first = pseudo.first
    <3>1. Tables /\ j \in DOMAIN regions
        BY <1>3, InShim DEF Active
    <3>2. regions[j] \in Regions /\ (regions[j] = BootRegion => pseudo = Pseudo)
        BY <3>1, RegionBounds DEF Tables
    <3>3. QED
        BY <3>2, RegionFields DEF Regions
  <2>4. QED
      BY <2>2, <2>3, Zenon DEF RegionBlock
<1>8. QED
    BY <1>6, <1>7

\* Whatever the layout and whatever was installed, a read that stays in one
\* region, or outside all, and succeeds gives shim that region's blocks, or the
\* disk's (ReadsCoherent).
THEOREM ReadsAreCoherent == Spec => ReadsCoherent
<1>1. HooksIInv /\ [Next]_vars => ReadCoherent
  <2> SUFFICES ASSUME HooksIInv, [Next]_vars PROVE ReadCoherent
      OBVIOUS
  <2>1. CASE StartShim \/ UNCHANGED vars
      BY <2>1, OnlyRequestsCount DEF ReadCoherent
  <2>2. ASSUME NEW lba \in 0 .. mediaLast, NEW n \in 1 .. MaxLen, ReadBlocks(lba, n)
        PROVE  ReadCoherent
      BY <2>2, ReadBlocksCoherent
  <2>3. ASSUME NEW lba \in 0 .. mediaLast, NEW n \in 1 .. MaxLen, WriteBlocks(lba, n)
        PROVE  ReadCoherent
    <3>1. last'.op = "write"
        BY <2>3, WriteBlocksFacts
    <3>2. QED
        BY <3>1 DEF ReadCoherent
  <2>4. CASE \/ \E name \in {"grub", "other"} : _EFI_FILE_OpenHook(name)
             \/ \E n \in 1 .. GrubSize : _EFI_FILE_ReadHook(n)
    <3>1. last'.op \in {"open", "file"}
        BY <2>4, FileRequests
    <3>2. QED
        BY <3>1 DEF ReadCoherent
  <2>5. QED
      BY <2>1, <2>2, <2>3, <2>4 DEF Next
<1>2. QED
    BY <1>1, HooksInductive, PTL DEF Spec, ReadsCoherent, ReadCoherent

\* The action that WritesConfined demands of every step.
WriteConfined ==
    last'.op = "write" /\ requests' > requests =>
        LET lba == last'.lba
            n == last'.n
        IN  /\ _bio => \A b \in 0 .. GptBlocks - 1 : disk'[b] = disk[b]
            /\ (\E j \in Active : Within(regions[j], lba, n)) => disk' = disk
            /\ Outside(lba, n) => boot' = boot
            /\ \A b \in DOMAIN disk \ (lba .. lba + n - 1) : disk'[b] = disk[b]

\* Whatever the layout and whichever calls failed, a write of shim or GRUB inside
\* an installed region changes nothing of the disk, one outside all nothing of
\* the boot device, none a block it does not name, and once InstallRootBIO has
\* succeeded none the partition table on the disk (WritesConfined).
THEOREM WritesStayConfined == Spec => WritesConfined
<1>1. HooksIInv /\ [Next]_vars => WriteConfined
  <2> SUFFICES ASSUME HooksIInv, [Next]_vars PROVE WriteConfined
      OBVIOUS
  <2>1. CASE StartShim \/ UNCHANGED vars
      BY <2>1, OnlyRequestsCount DEF WriteConfined
  <2>2. ASSUME NEW lba \in 0 .. mediaLast, NEW n \in 1 .. MaxLen, ReadBlocks(lba, n)
        PROVE  WriteConfined
    <3>1. last'.op = "read"
        BY <2>2 DEF ReadBlocks
    <3>2. QED
        BY <3>1 DEF WriteConfined
  <2>3. ASSUME NEW lba \in 0 .. mediaLast, NEW n \in 1 .. MaxLen, WriteBlocks(lba, n)
        PROVE  WriteConfined
    <3>1. \A b \in 0 .. GptBlocks - 1 : b \in DOMAIN disk
      <4>1. DOMAIN disk = 0 .. LastLBA
          BY DEF HooksIInv, TypeOK
      <4>2. GptBlocks <= LastLBA
          BY NumbersFacts, PartFacts, SizesAssumption
      <4>3. QED
          BY <4>1, <4>2, SizesAssumption
    <3>2. last'.lba = lba /\ last'.n = n
        BY <2>3, WriteBlocksFacts
    <3>3. /\ _bio => \A b \in 0 .. GptBlocks - 1 : disk'[b] = disk[b]
          /\ (\E j \in Active : Within(regions[j], lba, n)) => disk' = disk
          /\ Outside(lba, n) => boot' = boot
          /\ \A b \in DOMAIN disk \ (lba .. lba + n - 1) : disk'[b] = disk[b]
        BY <2>3, <3>1, WriteBlocksFacts
    <3>4. QED
        BY <3>2, <3>3, Zenon DEF WriteConfined
  <2>4. CASE \/ \E name \in {"grub", "other"} : _EFI_FILE_OpenHook(name)
             \/ \E n \in 1 .. GrubSize : _EFI_FILE_ReadHook(n)
    <3>1. last'.op \in {"open", "file"}
        BY <2>4, FileRequests
    <3>2. QED
        BY <3>1 DEF WriteConfined
  <2>5. QED
      BY <2>1, <2>2, <2>3, <2>4 DEF Next
<1>2. QED
    BY <1>1, HooksInductive, PTL DEF Spec, WritesConfined, WriteConfined
=============================================================================
