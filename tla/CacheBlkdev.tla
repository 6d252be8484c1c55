----------------------------- MODULE CacheBlkdev -----------------------------
(***************************************************************************)
(* The cache block device of lsvmutils/cacheblkdev.c.  It sits between the *)
(* LUKS device of the boot partition and the raw device (bootfs.c: bootdev *)
(* -> cachedev -> rawdev -> bio).  lsvmload turns caching on to let it     *)
(* patch the boot file system (the initrd with the keys in it) without     *)
(* writing the disk: main.c, "Disable writes to boot device".              *)
(*                                                                         *)
(* GetN and PutN are loops over blocks; one iteration is one step here, so *)
(* a failed allocation or read between two iterations leaves exactly what  *)
(* the code leaves.  The caller's buffer is indexed by block number: entry *)
(* k of buf stands for the 512 bytes at ptr + (k - blkno) * 512.           *)
(*                                                                         *)
(* The child device is a plain block device here (contents child); what it *)
(* is in lsvmload is the module EfiBlkdev.                                 *)
(***************************************************************************)
EXTENDS Integers, Sequences

CONSTANTS
    NBlocks,     \* blocks of the child device
    Data,        \* contents of a block
    MAX_CHAINS,  \* number of hash chains (64K in the code)
    MayDisable   \* may the client clear the flag again (dbxupdate.c)?

ASSUME NBlocksAssumption == NBlocks \in Nat \ {0}
ASSUME ChainsAssumption == MAX_CHAINS \in Nat \ {0}
ASSUME DataAssumption == Data # {}
ASSUME MayDisableAssumption == MayDisable \in BOOLEAN

Blknos == 0 .. NBlocks - 1
Slots == 0 .. MAX_CHAINS - 1

\* struct _Block without its link: a chain is a sequence of these.
Block == [blkno : Blknos, data : Data]

\* BLKDEV_ENABLE_CACHING, the only flag there is (lsvmutils/blkdev.h).
BLKDEV_ENABLE_CACHING == 1

VARIABLES
    child,    \* contents of the child device
    chains,   \* impl->chains
    flags,    \* impl->flags
    pc,       \* which call is under way, and where in it
    cur,      \* next block of the call: blkno + i
    run,      \* end of the run just read from the child: blkno + j
    start,    \* blkno, the first block of the call
    end,      \* blkno + nblocks
    buf,      \* the caller's buffer
    ret       \* what the last call returned

vars == <<child, chains, flags, pc, cur, run, start, end, buf, ret>>
call == <<cur, run, start, end, buf>>

PCs == {"closed", "idle", "get", "fill", "put"}

\* A buffer nothing has been read into, of a call that starts at block b.
Nothing(b) == [k \in b .. b - 1 |-> 0]
NoData == Nothing(0)

\* Result of a call: 0, or -1 (here 1), and the data of a GetN.
Failed == [rc |-> 1, data |-> NoData]
Done   == [rc |-> 0, data |-> NoData]

Caching == flags = BLKDEV_ENABLE_CACHING

-----------------------------------------------------------------------------
(* The hash table.                                                         *)

Slot(b) == b % MAX_CHAINS

\* _GetCache(b) # NULL: some node of b's chain carries b.
InCache(b) == \E i \in 1 .. Len(chains[Slot(b)]) : chains[Slot(b)][i].blkno = b

\* The node _GetCache(b) returns, by its position: the first one with b.
CachePos(b) ==
    CHOOSE i \in 1 .. Len(chains[Slot(b)]) :
        /\ chains[Slot(b)][i].blkno = b
        /\ \A k \in 1 .. i - 1 : chains[Slot(b)][k].blkno # b

_GetCache(b) == chains[Slot(b)][CachePos(b)].data

\* _PutCache: a new node at the head of the chain.
_PutCache(b, d) ==
    chains' = [chains EXCEPT ![Slot(b)] = <<[blkno |-> b, data |-> d]>> \o @]

\* The Memcpy of _PutN into the node that is there.
_UpdateCache(b, d) ==
    chains' = [chains EXCEPT ![Slot(b)][CachePos(b)] = [blkno |-> b, data |-> d]]

-----------------------------------------------------------------------------
(* Calls.                                                                  *)

\* The call under way ends with result r.
Return(r) ==
    /\ pc' = "idle"
    /\ ret' = r
    /\ cur' = 0 /\ run' = 0 /\ start' = 0 /\ end' = 0
    /\ buf' = NoData

EmptyChains == [s \in Slots |-> << >>]

Init ==
    /\ child \in [Blknos -> Data]
    /\ chains = EmptyChains
    /\ flags = 0
    /\ pc = "idle"
    /\ cur = 0 /\ run = 0 /\ start = 0 /\ end = 0
    /\ buf = NoData
    /\ ret = Done

\* GetN(dev, b, e - b, data).  Nothing in the buffer counts yet.
GetN(b, e) ==
    /\ pc = "idle"
    /\ b <= e
    /\ pc' = "get"
    /\ cur' = b /\ run' = b /\ start' = b /\ end' = e
    /\ buf' = Nothing(b)
    /\ UNCHANGED <<child, chains, flags, ret>>

\* Mutants of GetCached: the block comes from the child; i is not advanced.
GetCachedFromChild ==
    /\ pc = "get" /\ cur < end /\ InCache(cur)
    /\ buf' = [k \in start .. cur |-> IF k = cur THEN child[cur] ELSE buf[k]]
    /\ cur' = cur + 1 /\ run' = cur + 1
    /\ UNCHANGED <<child, chains, flags, pc, start, end, ret>>
GetCachedStuck ==
    /\ pc = "get" /\ cur < end /\ InCache(cur)
    /\ UNCHANGED vars

\* "Loop through blocks and retrieve from cache": one of them.
GetCached ==
    /\ pc = "get"
    /\ cur < end
    /\ InCache(cur)
    /\ buf' = [k \in start .. cur |-> IF k = cur THEN _GetCache(cur) ELSE buf[k]]
    /\ cur' = cur + 1
    /\ run' = cur + 1
    /\ UNCHANGED <<child, chains, flags, pc, start, end, ret>>

\* cur .. j - 1 is the longest run of blocks that are not in the cache.
IsRun(j) ==
    /\ \A k \in cur .. j - 1 : ~InCache(k)
    /\ j < end => InCache(j)

\* "Read as much as we can from the disk": one call of the child's GetN.
ReadRun ==
    /\ pc = "get"
    /\ cur < end
    /\ \E j \in cur + 1 .. end :
        /\ IsRun(j)
        /\ buf' = [k \in start .. j - 1 |-> IF k < cur THEN buf[k] ELSE child[k]]
        /\ run' = j
        /\ IF Caching THEN pc' = "fill" /\ cur' = cur
                      ELSE pc' = "get" /\ cur' = j
    /\ UNCHANGED <<child, chains, flags, start, end, ret>>

\* The child's GetN fails: the call fails, what it cached so far stays.
ReadRunFails ==
    /\ pc = "get"
    /\ cur < end
    /\ ~InCache(cur)
    /\ Return(Failed)
    /\ UNCHANGED <<child, chains, flags>>

\* Mutant of Fill: the pointer into the buffer is not advanced.
FillFirstBlock ==
    /\ pc = "fill"
    /\ _PutCache(cur, buf[start])
    /\ cur' = cur + 1
    /\ pc' = IF cur + 1 = run THEN "get" ELSE "fill"
    /\ UNCHANGED <<child, flags, run, start, end, buf, ret>>

\* "If caching is enabled, then put into cache": one block of the run.
Fill ==
    /\ pc = "fill"
    /\ _PutCache(cur, buf[cur])
    /\ cur' = cur + 1
    /\ pc' = IF cur + 1 = run THEN "get" ELSE "fill"
    /\ UNCHANGED <<child, flags, run, start, end, buf, ret>>

\* The Calloc of _PutCache fails, in GetN or in PutN.
AllocFails ==
    /\ \/ pc = "fill"
       \/ pc = "put" /\ Caching /\ cur < end /\ ~InCache(cur)
    /\ Return(Failed)
    /\ UNCHANGED <<child, chains, flags>>

GetReturns ==
    /\ pc = "get"
    /\ cur = end
    /\ Return([rc |-> 0, data |-> buf])
    /\ UNCHANGED <<child, chains, flags>>

\* PutN(dev, b, e - b, data).
PutN(b, e, data) ==
    /\ pc = "idle"
    /\ b <= e
    /\ pc' = "put"
    /\ cur' = b /\ run' = b /\ start' = b /\ end' = e
    /\ buf' = data
    /\ UNCHANGED <<child, chains, flags, ret>>

\* Mutant of PutCached: a second node for a block that has one.
PutCachedPrepends ==
    /\ pc = "put" /\ Caching /\ cur < end
    /\ _PutCache(cur, buf[cur])
    /\ cur' = cur + 1 /\ run' = cur + 1
    /\ UNCHANGED <<child, flags, pc, start, end, buf, ret>>

\* "If caching is enabled, change cache, but not disk": one block.
PutCached ==
    /\ pc = "put"
    /\ Caching
    /\ cur < end
    /\ IF InCache(cur) THEN _UpdateCache(cur, buf[cur])
                       ELSE _PutCache(cur, buf[cur])
    /\ cur' = cur + 1
    /\ run' = cur + 1
    /\ UNCHANGED <<child, flags, pc, start, end, buf, ret>>

PutCachedReturns ==
    /\ pc = "put"
    /\ Caching
    /\ cur = end
    /\ Return(Done)
    /\ UNCHANGED <<child, chains, flags>>

\* "If control reaches here, then disk will be modified".  A child that
\* fails may have written some of the blocks.
PutChild ==
    /\ pc = "put"
    /\ ~Caching
    /\ \E w \in start .. end :
        /\ child' = [k \in Blknos |->
                        IF k \in start .. w - 1 THEN buf[k] ELSE child[k]]
        /\ Return(IF w = end THEN Done ELSE Failed)
    /\ UNCHANGED <<chains, flags>>

\* A failing child may also have written everything.
PutChildFails ==
    /\ pc = "put"
    /\ ~Caching
    /\ child' = [k \in Blknos |-> IF k \in start .. end - 1 THEN buf[k] ELSE child[k]]
    /\ Return(Failed)
    /\ UNCHANGED <<chains, flags>>

\* SetFlags(dev, f): an unknown flag is refused, anything else stored.
SetFlags(f) ==
    /\ pc = "idle"
    /\ (Caching /\ f = 0) => MayDisable
    /\ IF f \in {0, BLKDEV_ENABLE_CACHING}
       THEN flags' = f /\ ret' = Done
       ELSE flags' = flags /\ ret' = Failed
    /\ UNCHANGED <<child, chains, pc, call>>

\* Mutant of Close: the cached blocks survive.
CloseKeepsChains ==
    /\ pc = "idle" /\ pc' = "closed"
    /\ flags' = 0
    /\ ret' \in {Done, Failed}
    /\ UNCHANGED <<child, chains, call>>

\* Close frees the cached blocks, then closes the child, which may fail.
Close ==
    /\ pc = "idle"
    /\ pc' = "closed"
    /\ chains' = EmptyChains
    /\ flags' = 0
    /\ ret' \in {Done, Failed}
    /\ UNCHANGED <<child, call>>

\* NewCacheBlkdev over the same child: the next boot, or the next try of
\* GetBootDevice with another passphrase.
NewCacheBlkdev ==
    /\ pc = "closed"
    /\ pc' = "idle"
    /\ ret' = Done
    /\ UNCHANGED <<child, chains, flags, call>>

\* The contents a caller may pass for the blocks b .. e - 1.
Buffers(b, e) == [b .. e - 1 -> Data]

Ranges == { r \in (0 .. NBlocks) \X (0 .. NBlocks) : r[1] <= r[2] }

Next ==
    \/ \E r \in Ranges : GetN(r[1], r[2])
    \/ GetCached \/ ReadRun \/ ReadRunFails \/ Fill \/ AllocFails \/ GetReturns
    \/ \E r \in Ranges : \E d \in Buffers(r[1], r[2]) : PutN(r[1], r[2], d)
    \/ PutCached \/ PutCachedReturns \/ PutChild \/ PutChildFails
    \/ \E f \in 0 .. 2 : SetFlags(f)
    \/ Close \/ NewCacheBlkdev

Spec == Init /\ [][Next]_vars

\* One thread executes a call to its end: the loops of _GetN and _PutN go on.
Step ==
    \/ GetCached \/ ReadRun \/ ReadRunFails \/ Fill \/ AllocFails \/ GetReturns
    \/ PutCached \/ PutCachedReturns \/ PutChild \/ PutChildFails

FairSpec == Spec /\ WF_vars(Step)

-----------------------------------------------------------------------------
(* Properties.                                                             *)

\* What a read of block b returns: the cached copy, or the child's block.
View ==
    [b \in Blknos |-> IF InCache(b) THEN _GetCache(b) ELSE child[b]]

Results ==
    [rc : {0, 1}, data : UNION { Buffers(r[1], r[2]) : r \in Ranges }]

\* The types of the variables; a call stays inside the range it was given.
TypeOK ==
    /\ child \in [Blknos -> Data]
    /\ chains \in [Slots -> Seq(Block)]
    /\ flags \in {0, BLKDEV_ENABLE_CACHING}
    /\ pc \in PCs
    /\ start \in 0 .. NBlocks /\ end \in start .. NBlocks
    /\ cur \in start .. end /\ run \in cur .. end
    /\ ret \in Results

\* Every node is in the chain its block number hashes to, and no block has
\* two nodes: _PutCache prepends without looking, so a second node would hide
\* an older one, and a PutN would update only one of the two.
ChainsWellFormed ==
    \A s \in Slots : \A i \in 1 .. Len(chains[s]) :
        /\ Slot(chains[s][i].blkno) = s
        /\ \A k \in 1 .. Len(chains[s]) :
              chains[s][k].blkno = chains[s][i].blkno => k = i

\* Where the two loops are: what has been read so far is what a reader should
\* see, and the rest of the run that was read is still uncached, so filling
\* the cache makes no second node.
CallProgress ==
    /\ pc \in {"closed", "idle"} => buf = NoData /\ start = 0 /\ end = 0
    /\ pc \in {"get", "fill"} => buf = [k \in start .. run - 1 |-> View[k]]
    /\ pc = "get" => run = cur
    /\ pc = "fill" => /\ Caching
                      /\ cur < run
                      /\ \A k \in cur .. run - 1 : ~InCache(k)
    /\ pc = "put" => buf \in [start .. end - 1 -> Data]

\* Nothing is cached while caching is off (the client never turns it off).
CacheEmptyWhenOff == ~Caching => chains = EmptyChains

\* A GetN that succeeds returns, for every block of its range, the block's
\* contents as last written through this device, even when some blocks come
\* from the cache and others from the child.
ReadReturnsView ==
    [][pc = "get" /\ pc' = "idle" /\ ret'.rc = 0
        => ret'.data = [k \in start .. end - 1 |-> View[k]]]_vars

\* Reads have no effect a reader can see: filling the cache, or failing half
\* way through filling it, leaves the contents of the device as they were.
ReadsLeaveView == [][(pc \in {"get", "fill"}) => View' = View]_vars

\* The loops end: every GetN and PutN returns.
CallReturns == (pc \in {"get", "fill", "put"}) ~> (pc = "idle")

\* The promise: the device is an overlay over its child.
Overlay == INSTANCE OverlayDevice
    WITH base <- child, view <- View, on <- Caching

ImplementsOverlay == Overlay!OSpec
=============================================================================
