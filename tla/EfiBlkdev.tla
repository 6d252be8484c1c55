------------------------------ MODULE EfiBlkdev ------------------------------
(***************************************************************************)
(* The raw block device of lsvmutils/efiblkdev.c: UEFI block I/O with a    *)
(* read-ahead window of CACHE_SIZE blocks.  A read of at most CACHE_SIZE   *)
(* blocks goes block by block through the window, a longer one straight to *)
(* the disk, and so does every write: PutN does not touch the window.      *)
(*                                                                         *)
(* One iteration of the loop of _GetN is one step.  The firmware's block   *)
(* I/O (external) may fail; a failed transfer may have moved some of its   *)
(* blocks, which for a refill means into the window itself.                *)
(***************************************************************************)
EXTENDS Integers

CONSTANTS
    NBlocks,     \* blocks of the disk: Media->LastBlock + 1
    Data,        \* contents of a block
    CACHE_SIZE   \* blocks of the window (8 in the code)

ASSUME NBlocksAssumption == NBlocks \in Nat \ {0}
ASSUME CacheSizeAssumption == CACHE_SIZE \in Nat \ {0}
ASSUME DataAssumption == Data # {}

Blknos == 0 .. NBlocks - 1
LastBlock == NBlocks - 1
Window == 0 .. CACHE_SIZE - 1

VARIABLES
    bio,       \* contents of the disk
    cached,    \* impl->cached
    blkno,     \* impl->blkno, the first block of the window
    cache,     \* impl->cache
    pc,        \* "closed", "idle" or "get"
    cur,       \* next block of the GetN under way
    start,     \* its first block
    end,       \* one past its last
    buf,       \* the blocks read so far
    ret,       \* what the last call returned
    stale      \* history: blocks whose copy in the window may be out of date

vars == <<bio, cached, blkno, cache, pc, cur, start, end, buf, ret, stale>>
impl == <<cached, blkno, cache, stale>>
call == <<cur, start, end, buf>>

NoData == [k \in 0 .. -1 |-> 0]
Failed == [rc |-> 1, data |-> NoData]
Done   == [rc |-> 0, data |-> NoData]

\* The blocks the window stands for.
InWindow(b) == cached /\ blkno <= b /\ b < blkno + CACHE_SIZE

\* A window may be read only if it ends before the last block.
FitsWindow(b) == b + CACHE_SIZE <= LastBlock

Init ==
    /\ bio \in [Blknos -> Data]
    /\ cached = FALSE /\ blkno = 0
    /\ cache \in [Window -> Data]
    /\ pc = "idle"
    /\ cur = 0 /\ start = 0 /\ end = 0
    /\ buf = NoData
    /\ ret = Done
    /\ stale = {}

Return(r) ==
    /\ pc' = "idle"
    /\ ret' = r
    /\ cur' = 0 /\ start' = 0 /\ end' = 0
    /\ buf' = NoData

\* GetN of at most CACHE_SIZE blocks: "Do normal _Get".
GetN(b, e) ==
    /\ pc = "idle"
    /\ b <= e /\ e - b <= CACHE_SIZE
    /\ pc' = "get"
    /\ cur' = b /\ start' = b /\ end' = e
    /\ buf' = [k \in b .. b - 1 |-> 0]
    /\ UNCHANGED <<bio, impl, ret>>

\* The block just obtained by _Get goes into the caller's buffer.
Deliver(d) ==
    /\ buf' = [k \in start .. cur |-> IF k = cur THEN d ELSE buf[k]]
    /\ cur' = cur + 1
    /\ UNCHANGED <<bio, pc, start, end, ret>>

\* Mutant of GetHit: the offset into the window is left out.
GetHitFirst ==
    /\ pc = "get" /\ cur < end
    /\ InWindow(cur)
    /\ Deliver(cache[0])
    /\ UNCHANGED impl

\* _Get, block in the window.
GetHit ==
    /\ pc = "get" /\ cur < end
    /\ InWindow(cur)
    /\ Deliver(cache[cur - blkno])
    /\ UNCHANGED impl

\* Mutant of GetRefill: blkno is set only for the first window.
GetRefillKeepsBlkno ==
    /\ pc = "get" /\ cur < end
    /\ ~InWindow(cur) /\ FitsWindow(cur)
    /\ cached' = TRUE /\ stale' = {}
    /\ blkno' = IF cached THEN blkno ELSE cur
    /\ cache' = [i \in Window |-> bio[cur + i]]
    /\ Deliver(bio[cur])

\* _Get, a new window is read that starts at the block.
GetRefill ==
    /\ pc = "get" /\ cur < end
    /\ ~InWindow(cur) /\ FitsWindow(cur)
    /\ cached' = TRUE
    /\ blkno' = cur
    /\ cache' = [i \in Window |-> bio[cur + i]]
    /\ stale' = {}
    /\ Deliver(bio[cur])

\* The refill fails: cached and blkno still describe the old window, of which
\* the first w blocks may be overwritten.
GetRefillFails ==
    /\ pc = "get" /\ cur < end
    /\ ~InWindow(cur) /\ FitsWindow(cur)
    /\ \E w \in 0 .. CACHE_SIZE :
        /\ cache' = [i \in Window |-> IF i < w THEN bio[cur + i] ELSE cache[i]]
        /\ stale' = stale \cup
                { b \in Blknos : InWindow(b) /\ b - blkno < w }
    /\ Return(Failed)
    /\ UNCHANGED <<bio, cached, blkno>>

\* _Get near the end of the disk: the block alone.
GetSingle ==
    /\ pc = "get" /\ cur < end
    /\ ~InWindow(cur) /\ ~FitsWindow(cur)
    /\ Deliver(bio[cur])
    /\ UNCHANGED impl

GetSingleFails ==
    /\ pc = "get" /\ cur < end
    /\ ~InWindow(cur) /\ ~FitsWindow(cur)
    /\ Return(Failed)
    /\ UNCHANGED <<bio, impl>>

GetReturns ==
    /\ pc = "get" /\ cur = end
    /\ Return([rc |-> 0, data |-> buf])
    /\ UNCHANGED <<bio, impl>>

\* "Otherwise, do a full block read": one transfer into the caller's buffer.
GetLarge(b, e) ==
    /\ pc = "idle"
    /\ e - b > CACHE_SIZE
    /\ ret' \in {[rc |-> 0, data |-> [k \in b .. e - 1 |-> bio[k]]], Failed}
    /\ UNCHANGED <<bio, impl, pc, call>>

\* PutN: one transfer; one that fails has written blocks b .. w - 1.
PutN(b, e, data) ==
    /\ pc = "idle"
    /\ b <= e
    /\ \E w \in b .. e :
        /\ bio' = [k \in Blknos |-> IF k \in b .. w - 1 THEN data[k] ELSE bio[k]]
        /\ stale' = stale \cup { k \in b .. w - 1 : InWindow(k) }
        /\ ret' \in IF w = e THEN {Done, Failed} ELSE {Failed}
    /\ UNCHANGED <<cached, blkno, cache, pc, call>>

\* SetFlags: "No flags supported".
SetFlags ==
    /\ pc = "idle"
    /\ ret' = Failed
    /\ UNCHANGED <<bio, impl, pc, call>>

\* Close frees the device; BlkdevFromBIO makes a new one, window unread.
Close ==
    /\ pc = "idle"
    /\ pc' = "closed"
    /\ cached' = FALSE /\ blkno' = 0 /\ stale' = {}
    /\ ret' \in {Done, Failed}
    /\ UNCHANGED <<bio, cache, call>>

BlkdevFromBIO ==
    /\ pc = "closed"
    /\ pc' = "idle"
    /\ UNCHANGED <<bio, impl, call, ret>>

Next ==
    \/ \E b, e \in 0 .. NBlocks : GetN(b, e) \/ GetLarge(b, e)
    \/ GetHit \/ GetRefill \/ GetRefillFails \/ GetSingle \/ GetSingleFails
    \/ GetReturns
    \/ \E b, e \in 0 .. NBlocks : \E d \in [b .. e - 1 -> Data] : PutN(b, e, d)
    \/ SetFlags \/ Close \/ BlkdevFromBIO

Spec == Init /\ [][Next]_vars

-----------------------------------------------------------------------------
(* Properties.                                                             *)

\* The types of the variables; a GetN stays inside the range it was given.
TypeOK ==
    /\ bio \in [Blknos -> Data]
    /\ cached \in BOOLEAN
    /\ blkno \in Blknos
    /\ cache \in [Window -> Data]
    /\ pc \in {"closed", "idle", "get"}
    /\ start \in 0 .. NBlocks /\ end \in start .. NBlocks /\ cur \in start .. end
    /\ stale \subseteq Blknos
    /\ ret.rc \in {0, 1}

\* The window never reaches past the disk, for any size of disk and window.
WindowInRange == cached => blkno + CACHE_SIZE <= NBlocks

\* The window is the disk's contents except for blocks that were written, or
\* overwritten by a failed refill, since it was read: PutN does not update it.
WindowCurrent ==
    \A b \in Blknos : InWindow(b) /\ b \notin stale => cache[b - blkno] = bio[b]

\* A block a GetN delivers is current unless it was in the window when it was
\* written or when a refill failed; a read of more than CACHE_SIZE blocks, which
\* bypasses the window, is always current.
ReadCurrentUnlessStale ==
    [][/\ pc = "get" /\ cur' = cur + 1 /\ cur \notin stale => buf'[cur] = bio[cur]
       /\ pc = "idle" /\ ret'.rc = 0 =>
            \A k \in DOMAIN ret'.data : ret' # ret => ret'.data[k] = bio[k]]_vars

\* What _Get keeps up between any two iterations of _GetN and across calls: the
\* window lies on the disk and is out of date only where it is known to be.
WindowInv == TypeOK /\ WindowInRange /\ WindowCurrent
=============================================================================
