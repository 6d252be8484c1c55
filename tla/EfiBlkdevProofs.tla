--------------------------- MODULE EfiBlkdevProofs ---------------------------
(***************************************************************************)
(* Proofs about the raw block device of lsvmutils/efiblkdev.c (EfiBlkdev), *)
(* for every size of disk and of read-ahead window.                        *)
(*                                                                         *)
(* WindowInv is inductive as it stands: the history variable stale records *)
(* exactly the two ways in which a block of the window and the block of    *)
(* the disk part, a PutN that does not touch the window and a refill that  *)
(* fails after it has overwritten the front of the window while cached and *)
(* blkno still describe the old one.                                       *)
(***************************************************************************)
EXTENDS EfiBlkdev, TLAPS

\* A block that _Get is about to read lies on the disk, and where a refill is
\* allowed so does every block of the window it reads.
LEMMA RefillInRange ==
    ASSUME TypeOK, cur < end
    PROVE  /\ cur \in Blknos
           /\ FitsWindow(cur) => \A i \in Window : cur + i \in Blknos
    BY NBlocksAssumption, CacheSizeAssumption
       DEF TypeOK, Blknos, FitsWindow, LastBlock, Window

\* The offset of a block of the window is an index of impl->cache.
LEMMA OffsetInWindow ==
    ASSUME TypeOK, NEW b \in Blknos, InWindow(b)
    PROVE  b - blkno \in Window
    BY NBlocksAssumption, CacheSizeAssumption DEF TypeOK, Blknos, InWindow, Window

\* A new device has no window, so none that is off the disk or out of date.
LEMMA InitWindowInv == ASSUME Init PROVE WindowInv
<1>1. cached \in BOOLEAN
    BY Zenon DEF Init
<1>2. TypeOK
    BY <1>1, NBlocksAssumption DEF Init, TypeOK, Done, Blknos
<1>3. ~cached
    BY DEF Init
<1>4. QED
    BY <1>2, <1>3 DEF WindowInv, WindowInRange, WindowCurrent, InWindow

\* A step that delivers a block keeps the window: what it does to the call.
LEMMA DeliverType ==
    ASSUME TypeOK, cur < end, NEW d, Deliver(d)
    PROVE  /\ bio' \in [Blknos -> Data]
           /\ pc' \in {"closed", "idle", "get"}
           /\ start' \in 0 .. NBlocks /\ end' \in start' .. NBlocks
           /\ cur' \in start' .. end'
           /\ ret'.rc \in {0, 1}
    BY NBlocksAssumption DEF TypeOK, Deliver

\* A call that returns leaves the variables of the call at rest.
LEMMA ReturnType ==
    ASSUME NEW r, r.rc \in {0, 1}, Return(r)
    PROVE  /\ pc' \in {"closed", "idle", "get"}
           /\ start' \in 0 .. NBlocks /\ end' \in start' .. NBlocks
           /\ cur' \in start' .. end'
           /\ ret'.rc \in {0, 1}
    BY NBlocksAssumption DEF Return

\* A refill reads the disk under the new window: nothing in it is stale.
LEMMA GetRefillKeeps == ASSUME WindowInv, GetRefill PROVE WindowInv'
<1> USE DEF WindowInv
<1>1. /\ cur < end /\ FitsWindow(cur) /\ Deliver(bio[cur])
      /\ cached' = TRUE /\ blkno' = cur /\ stale' = {} /\ bio' = bio
      /\ cache' = [i \in Window |-> bio[cur + i]]
    BY DEF GetRefill, Deliver
<1>2. cur \in Blknos /\ \A i \in Window : cur + i \in Blknos
    BY <1>1, RefillInRange
<1>3. TypeOK'
  <2>1. cache' \in [Window -> Data]
      BY <1>1, <1>2 DEF TypeOK
  <2>2. QED
      BY <1>1, <1>2, <2>1, DeliverType DEF TypeOK
<1>4. WindowInRange'
    BY <1>1, <1>2, CacheSizeAssumption, NBlocksAssumption
       DEF WindowInRange, FitsWindow, LastBlock, Blknos
<1>5. WindowCurrent'
  <2> SUFFICES ASSUME NEW b \in Blknos, InWindow(b)'
               PROVE  cache'[b - cur] = bio[b]
      BY <1>1 DEF WindowCurrent, Blknos
  <2>1. b - cur \in Window /\ cur + (b - cur) = b
      BY <1>1, <1>2, CacheSizeAssumption, NBlocksAssumption
         DEF InWindow, Window, Blknos
  <2>2. QED
      BY <1>1, <2>1
<1>6. QED
    BY <1>3, <1>4, <1>5

\* A refill that fails ages exactly the blocks of the old window it overwrote.
LEMMA GetRefillFailsKeeps == ASSUME WindowInv, GetRefillFails PROVE WindowInv'
<1> USE DEF WindowInv
<1>1. PICK w \in 0 .. CACHE_SIZE :
        /\ cache' = [i \in Window |-> IF i < w THEN bio[cur + i] ELSE cache[i]]
        /\ stale' = stale \cup { b \in Blknos : InWindow(b) /\ b - blkno < w }
    BY DEF GetRefillFails
<1>2. /\ cur < end /\ FitsWindow(cur) /\ Return(Failed)
      /\ UNCHANGED <<bio, cached, blkno>>
    BY DEF GetRefillFails
<1>3. cur \in Blknos /\ \A i \in Window : cur + i \in Blknos
    BY <1>2, RefillInRange
<1>4. TypeOK'
  <2>1. cache' \in [Window -> Data]
      BY <1>1, <1>3 DEF TypeOK
  <2>2. stale' \subseteq Blknos
      BY <1>1 DEF TypeOK
  <2>3. Failed.rc \in {0, 1}
      BY DEF Failed
  <2>4. QED
      BY <1>2, <2>1, <2>2, <2>3, ReturnType DEF TypeOK
<1>5. WindowInRange'
    BY <1>2 DEF WindowInRange
<1>6. WindowCurrent'
  <2> SUFFICES ASSUME NEW b \in Blknos, InWindow(b), b \notin stale'
               PROVE  cache'[b - blkno] = bio[b]
      BY <1>2 DEF WindowCurrent, InWindow, Blknos
  <2>1. b - blkno \in Window
      BY OffsetInWindow
  <2>2. b \notin stale /\ ~(b - blkno < w)
      BY <1>1
  <2>3. cache[b - blkno] = bio[b]
      BY <2>2 DEF WindowCurrent
  <2>4. QED
      BY <1>1, <2>1, <2>2, <2>3
<1>7. QED
    BY <1>4, <1>5, <1>6

\* PutN writes past the window, and the blocks it writes there become stale.
LEMMA PutNKeeps ==
    ASSUME WindowInv, NEW b \in 0 .. NBlocks, NEW e \in 0 .. NBlocks,
           NEW d \in [b .. e - 1 -> Data], PutN(b, e, d)
    PROVE  WindowInv'
<1> USE DEF WindowInv
<1>1. PICK w \in b .. e :
        /\ bio' = [k \in Blknos |-> IF k \in b .. w - 1 THEN d[k] ELSE bio[k]]
        /\ stale' = stale \cup { k \in b .. w - 1 : InWindow(k) }
        /\ ret' \in IF w = e THEN {Done, Failed} ELSE {Failed}
    BY DEF PutN
<1>2. UNCHANGED <<cached, blkno, cache, pc, cur, start, end, buf>>
    BY DEF PutN, call
<1>3. \A k \in b .. w - 1 : k \in Blknos /\ d[k] \in Data
    BY <1>1, NBlocksAssumption DEF Blknos
<1>4. TypeOK'
  <2>1. bio' \in [Blknos -> Data]
      BY <1>1, <1>3 DEF TypeOK
  <2>2. stale' \subseteq Blknos
      BY <1>1, <1>3 DEF TypeOK
  <2>3. ret'.rc \in {0, 1}
      BY <1>1 DEF Done, Failed
  <2>4. QED
      BY <1>2, <2>1, <2>2, <2>3 DEF TypeOK
<1>5. WindowInRange'
    BY <1>2 DEF WindowInRange
<1>6. WindowCurrent'
  <2> SUFFICES ASSUME NEW k \in Blknos, InWindow(k), k \notin stale'
               PROVE  cache[k - blkno] = bio'[k]
      BY <1>2 DEF WindowCurrent, InWindow, Blknos
  <2>1. k \notin stale /\ k \notin b .. w - 1
      BY <1>1
  <2>2. cache[k - blkno] = bio[k]
      BY <2>1 DEF WindowCurrent
  <2>3. QED
      BY <1>1, <2>1, <2>2
<1>7. QED
    BY <1>4, <1>5, <1>6

\* The steps that leave the disk, the window and stale alone keep WindowInv.
LEMMA SameWindowKeeps ==
    ASSUME WindowInv, TypeOK', UNCHANGED <<bio, impl>>
    PROVE  WindowInv'
    BY DEF WindowInv, impl, WindowInRange, WindowCurrent, InWindow, Blknos

\* Every step of the device keeps the window on the disk and current but for
\* stale blocks.
LEMMA NextWindowInv == ASSUME WindowInv, [Next]_vars PROVE WindowInv'
<1> USE DEF WindowInv
<1>1. ASSUME NEW b \in 0 .. NBlocks, NEW e \in 0 .. NBlocks, GetN(b, e)
      PROVE  WindowInv'
    BY <1>1, SameWindowKeeps, NBlocksAssumption DEF GetN, TypeOK, impl
<1>2. ASSUME NEW b \in 0 .. NBlocks, NEW e \in 0 .. NBlocks, GetLarge(b, e)
      PROVE  WindowInv'
  <2>1. ret'.rc \in {0, 1}
      BY <1>2 DEF GetLarge, Failed
  <2>2. QED
      BY <1>2, <2>1, SameWindowKeeps DEF GetLarge, TypeOK, impl, call
<1>3. CASE GetHit
  <2>1. cur < end /\ Deliver(cache[cur - blkno]) /\ UNCHANGED impl
      BY <1>3 DEF GetHit
  <2>2. TypeOK'
      BY <2>1, DeliverType DEF TypeOK, impl
  <2>3. QED
      BY <2>1, <2>2, SameWindowKeeps DEF Deliver
<1>4. CASE GetSingle
  <2>1. cur < end /\ Deliver(bio[cur]) /\ UNCHANGED impl
      BY <1>4 DEF GetSingle
  <2>2. TypeOK'
      BY <2>1, DeliverType DEF TypeOK, impl
  <2>3. QED
      BY <2>1, <2>2, SameWindowKeeps DEF Deliver
<1>5. CASE GetSingleFails
  <2>1. Return(Failed) /\ UNCHANGED <<bio, impl>> /\ Failed.rc \in {0, 1}
      BY <1>5 DEF GetSingleFails, Failed
  <2>2. TypeOK'
      BY <2>1, ReturnType DEF TypeOK, impl
  <2>3. QED
      BY <2>1, <2>2, SameWindowKeeps
<1>6. CASE GetReturns
  <2> DEFINE r == [rc |-> 0, data |-> buf]
  <2>1. Return(r) /\ UNCHANGED <<bio, impl>> /\ r.rc \in {0, 1}
      BY <1>6 DEF GetReturns
  <2>2. TypeOK'
      BY <2>1, ReturnType DEF TypeOK, impl
  <2>3. QED
      BY <2>1, <2>2, SameWindowKeeps
<1>7. CASE SetFlags
    BY <1>7, SameWindowKeeps DEF SetFlags, TypeOK, impl, call, Failed
<1>8. CASE Close
  <2>1. ~cached' /\ cached' \in BOOLEAN
      BY <1>8, Zenon DEF Close
  <2>2. TypeOK'
      BY <1>8, <2>1, NBlocksAssumption
         DEF Close, TypeOK, call, Blknos, Done, Failed
  <2>3. QED
      BY <2>1, <2>2 DEF WindowInRange, WindowCurrent, InWindow
<1>9. CASE BlkdevFromBIO
    BY <1>9, SameWindowKeeps DEF BlkdevFromBIO, TypeOK, impl, call
<1>10. CASE UNCHANGED vars
    BY <1>10, SameWindowKeeps DEF vars, TypeOK, impl
<1>11. QED
    BY <1>1, <1>2, <1>3, <1>4, <1>5, <1>6, <1>7, <1>8, <1>9, <1>10,
       GetRefillKeeps, GetRefillFailsKeeps, PutNKeeps DEF Next

\* The read-ahead window lies on the disk and holds what the disk holds, except
\* where PutN or a refill that failed is known to have made it stale.
THEOREM WindowSafe == Spec => []WindowInv
<1>1. Init => WindowInv
    BY InitWindowInv
<1>2. WindowInv /\ [Next]_vars => WindowInv'
    BY NextWindowInv
<1>3. QED
    BY <1>1, <1>2, PTL DEF Spec

\* What one step may deliver: a current block unless the window's copy is stale,
\* and always current blocks for a read that bypasses the window.
DeliversCurrent ==
    /\ pc = "get" /\ cur' = cur + 1 /\ cur \notin stale => buf'[cur] = bio[cur]
    /\ pc = "idle" /\ ret'.rc = 0 =>
         \A k \in DOMAIN ret'.data : ret' # ret => ret'.data[k] = bio[k]

\* Delivering d puts d into the caller's buffer at the block that was asked for.
LEMMA DeliverPuts ==
    ASSUME TypeOK, NEW d, Deliver(d)
    PROVE  buf'[cur] = d
    BY NBlocksAssumption DEF TypeOK, Deliver

\* Every step delivers current blocks, given what the window holds.
LEMMA StepDelivers == ASSUME WindowInv, [Next]_vars PROVE DeliversCurrent
<1> USE DEF WindowInv
<1>0. cur \in Int
    BY NBlocksAssumption DEF TypeOK
<1>1. ASSUME NEW b \in 0 .. NBlocks, NEW e \in 0 .. NBlocks, GetN(b, e)
      PROVE  DeliversCurrent
    BY <1>1 DEF GetN, DeliversCurrent
<1>2. ASSUME NEW b \in 0 .. NBlocks, NEW e \in 0 .. NBlocks, GetLarge(b, e)
      PROVE  DeliversCurrent
  <2> DEFINE all == [rc |-> 0, data |-> [k \in b .. e - 1 |-> bio[k]]]
  <2>1. pc = "idle" /\ ret' \in {all, Failed}
      BY <1>2 DEF GetLarge
  <2>2. CASE ret' = all
      BY <2>1, <2>2 DEF DeliversCurrent
  <2>3. CASE ret' = Failed
      BY <2>1, <2>3 DEF DeliversCurrent, Failed
  <2>4. QED
      BY <2>1, <2>2, <2>3
<1>3. CASE GetHit
  <2>1. /\ pc = "get" /\ cur < end /\ InWindow(cur)
        /\ Deliver(cache[cur - blkno])
      BY <1>3 DEF GetHit
  <2>2. buf'[cur] = cache[cur - blkno]
      BY <2>1, DeliverPuts
  <2>3. cur \notin stale => cache[cur - blkno] = bio[cur]
      BY <2>1, RefillInRange DEF WindowCurrent
  <2>4. QED
      BY <2>1, <2>2, <2>3 DEF DeliversCurrent
<1>4. CASE GetRefill
    BY <1>4, DeliverPuts DEF GetRefill, DeliversCurrent
<1>5. CASE GetSingle
    BY <1>5, DeliverPuts DEF GetSingle, DeliversCurrent
<1>6. CASE GetRefillFails \/ GetSingleFails \/ GetReturns
  <2>1. pc = "get" /\ cur' = 0 /\ cur >= 0
      BY <1>6, NBlocksAssumption
         DEF GetRefillFails, GetSingleFails, GetReturns, Return, TypeOK
  <2>2. cur' # cur + 1
      BY <1>0, <2>1
  <2>3. QED
      BY <2>1, <2>2 DEF DeliversCurrent
<1>7. ASSUME NEW b \in 0 .. NBlocks, NEW e \in 0 .. NBlocks,
             NEW d \in [b .. e - 1 -> Data], PutN(b, e, d)
      PROVE  DeliversCurrent
  <2>1. pc = "idle" /\ ret' \in {Done, Failed}
      BY <1>7 DEF PutN
  <2>2. QED
      BY <2>1 DEF DeliversCurrent, Done, Failed, NoData
<1>8. CASE SetFlags \/ Close
  <2>1. pc = "idle" /\ ret' \in {Done, Failed}
      BY <1>8 DEF SetFlags, Close
  <2>2. QED
      BY <2>1 DEF DeliversCurrent, Done, Failed, NoData
<1>9. CASE BlkdevFromBIO
    BY <1>9 DEF BlkdevFromBIO, DeliversCurrent
<1>10. CASE UNCHANGED vars
    BY <1>0, <1>10 DEF vars, DeliversCurrent
<1>11. QED
    BY <1>1, <1>2, <1>3, <1>4, <1>5, <1>6, <1>7, <1>8, <1>9, <1>10 DEF Next

\* A block a GetN delivers is the disk's unless its copy in the window is stale;
\* a read of more than CACHE_SIZE blocks is always the disk's.
THEOREM ReadsCurrent == Spec => ReadCurrentUnlessStale
<1>1. WindowInv /\ [Next]_vars => [DeliversCurrent]_vars
    BY StepDelivers
<1>2. Spec => []WindowInv
    BY WindowSafe
<1>3. QED
    BY <1>1, <1>2, PTL DEF Spec, ReadCurrentUnlessStale, DeliversCurrent
=============================================================================
