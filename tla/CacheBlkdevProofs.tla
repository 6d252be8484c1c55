-------------------------- MODULE CacheBlkdevProofs --------------------------
(***************************************************************************)
(* What the cache block device promises, for every number of blocks, every *)
(* set of contents and every number of chains.                             *)
(***************************************************************************)
EXTENDS CacheBlkdev, TLAPS

-----------------------------------------------------------------------------
(* Chains as values: the operators of CacheBlkdev with the chains a        *)
(* parameter, so that a lemma can speak of them before and after a step.   *)

Has(c, b) == \E i \in 1 .. Len(c[Slot(b)]) : c[Slot(b)][i].blkno = b

Pos(c, b) ==
    CHOOSE i \in 1 .. Len(c[Slot(b)]) :
        /\ c[Slot(b)][i].blkno = b
        /\ \A k \in 1 .. i - 1 : c[Slot(b)][k].blkno # b

Get(c, b) == c[Slot(b)][Pos(c, b)].data

WF(c) ==
    \A s \in Slots : \A i \in 1 .. Len(c[s]) :
        /\ Slot(c[s][i].blkno) = s
        /\ \A k \in 1 .. Len(c[s]) : c[s][k].blkno = c[s][i].blkno => k = i

Chains == [Slots -> Seq(Block)]

\* The chains after _PutCache(b, d), and after the Memcpy into b's node.
PutIn(c, b, d) == [c EXCEPT ![Slot(b)] = <<[blkno |-> b, data |-> d]>> \o @]
Overwritten(c, b, d) == [c EXCEPT ![Slot(b)][Pos(c, b)] = [blkno |-> b, data |-> d]]

\* Prepending a node to a chain: its length and its elements.
LEMMA Prepend ==
    ASSUME NEW T, NEW s \in Seq(T), NEW e \in T
    PROVE  /\ <<e>> \o s \in Seq(T)
           /\ Len(<<e>> \o s) = Len(s) + 1
           /\ (<<e>> \o s)[1] = e
           /\ \A i \in 1 .. Len(s) : (<<e>> \o s)[i + 1] = s[i]
           /\ \A i \in 2 .. Len(s) + 1 : (<<e>> \o s)[i] = s[i - 1]
  OBVIOUS

\* Replacing one node of a chain.
LEMMA Replace ==
    \A T : \A s \in Seq(T), e \in T : \A p \in 1 .. Len(s) : \A s2 :
        s2 = [s EXCEPT ![p] = e] =>
            /\ s2 \in Seq(T)
            /\ Len(s2) = Len(s)
            /\ s2[p] = e
            /\ \A i \in 1 .. Len(s) : i # p => s2[i] = s[i]
  OBVIOUS

\* A block number hashes to one of the slots.
LEMMA SlotType == \A b \in Blknos : Slot(b) \in Slots
  BY NBlocksAssumption, ChainsAssumption DEF Blknos, Slots, Slot

\* In well-formed chains _GetCache finds the only node there is.
LEMMA PosUnique ==
    ASSUME NEW c \in Chains, WF(c), NEW b \in Blknos,
           NEW i \in 1 .. Len(c[Slot(b)]), c[Slot(b)][i].blkno = b
    PROVE  Pos(c, b) = i
  <1>1. Slot(b) \in Slots
    BY SlotType
  <1>2. c[Slot(b)] \in Seq(Block)
    BY <1>1 DEF Chains
  <1>3. \A k \in 1 .. Len(c[Slot(b)]) : c[Slot(b)][k].blkno = b => k = i
    BY <1>1 DEF WF
  <1>4. \A k \in 1 .. i - 1 : c[Slot(b)][k].blkno # b
    BY <1>2, <1>3
  <1> QED
    BY <1>3, <1>4 DEF Pos

\* A node that is found carries the block asked for.
LEMMA GetNode ==
    ASSUME NEW c \in Chains, WF(c), NEW b \in Blknos, Has(c, b)
    PROVE  /\ Pos(c, b) \in 1 .. Len(c[Slot(b)])
           /\ c[Slot(b)][Pos(c, b)].blkno = b
           /\ Get(c, b) \in Data
  <1>1. PICK i \in 1 .. Len(c[Slot(b)]) : c[Slot(b)][i].blkno = b
    BY DEF Has
  <1>2. Pos(c, b) = i
    BY <1>1, PosUnique
  <1>3. Slot(b) \in Slots
    BY SlotType
  <1>4. c[Slot(b)][i] \in Block
    BY <1>1, <1>3 DEF Chains
  <1> QED
    BY <1>1, <1>2, <1>4 DEF Get, Block

\* _PutCache of a block that has no node: the chains stay well-formed, the
\* block is found with its data, every other block as before.
LEMMA PutCacheLemma ==
    ASSUME NEW c \in Chains, WF(c), NEW b \in Blknos, NEW d \in Data, ~Has(c, b),
           NEW c2, c2 = PutIn(c, b, d)
    PROVE  /\ c2 \in Chains
           /\ WF(c2)
           /\ \A x \in Blknos : Has(c2, x) <=> (Has(c, x) \/ x = b)
           /\ Get(c2, b) = d
           /\ \A x \in Blknos : x # b /\ Has(c, x) => Get(c2, x) = Get(c, x)
  <1> DEFINE s == Slot(b)
             e == [blkno |-> b, data |-> d]
  <1>1. s \in Slots
    BY SlotType
  <1>2. e \in Block /\ e.blkno = b /\ e.data = d
    BY DEF Block
  <1> HIDE DEF e
  <1>3. c[s] \in Seq(Block) /\ \A t \in Slots : c[t] \in Seq(Block)
    BY <1>1 DEF Chains
  <1>4. c2[s] = <<e>> \o c[s]
    BY <1>1 DEF Chains, PutIn, e
  <1>5. /\ \A t \in Slots : t # s => c2[t] = c[t]
        /\ c2 = [t \in Slots |-> c2[t]]
    BY DEF Chains, PutIn
  <1>6. /\ c2[s] \in Seq(Block)
        /\ Len(c2[s]) = Len(c[s]) + 1
        /\ c2[s][1] = e
        /\ \A i \in 1 .. Len(c[s]) : c2[s][i + 1] = c[s][i]
        /\ \A i \in 2 .. Len(c[s]) + 1 : c2[s][i] = c[s][i - 1]
    BY <1>2, <1>3, <1>4, Prepend
  <1>7. c2 \in Chains
    BY <1>3, <1>5, <1>6 DEF Chains
  <1>8. \A i \in 1 .. Len(c[s]) : c[s][i].blkno # b
    BY DEF Has
  <1>9. Len(c[s]) \in Nat
    BY <1>3
  <1>10. WF(c2)
    <2> SUFFICES ASSUME NEW t \in Slots, NEW i \in 1 .. Len(c2[t])
                 PROVE  /\ Slot(c2[t][i].blkno) = t
                        /\ \A k \in 1 .. Len(c2[t]) :
                              c2[t][k].blkno = c2[t][i].blkno => k = i
      BY DEF WF
    <2>1. CASE t # s
      BY <2>1, <1>5 DEF WF
    <2>2. CASE t = s
      <3>1. \A k \in 1 .. Len(c2[s]) :
               \/ k = 1 /\ c2[s][k].blkno = b
               \/ /\ k \in 2 .. Len(c[s]) + 1
                  /\ k - 1 \in 1 .. Len(c[s])
                  /\ c2[s][k] = c[s][k - 1]
                  /\ c[s][k - 1].blkno # b
        <4> SUFFICES ASSUME NEW k \in 1 .. Len(c2[s]), k # 1
                     PROVE  /\ k \in 2 .. Len(c[s]) + 1
                            /\ k - 1 \in 1 .. Len(c[s])
                            /\ c2[s][k] = c[s][k - 1]
                            /\ c[s][k - 1].blkno # b
          BY <1>2, <1>6
        <4>1. k \in 2 .. Len(c[s]) + 1 /\ k - 1 \in 1 .. Len(c[s])
          BY <1>6, <1>9
        <4> QED
          BY <4>1, <1>6, <1>8
      <3>2. \A j, k \in 1 .. Len(c[s]) :
               /\ Slot(c[s][j].blkno) = s
               /\ c[s][k].blkno = c[s][j].blkno => k = j
        BY <1>1 DEF WF
      <3>3. Slot(c2[t][i].blkno) = t
        BY <2>2, <3>1, <3>2
      <3>4. ASSUME NEW k \in 1 .. Len(c2[t]), c2[t][k].blkno = c2[t][i].blkno
            PROVE  k = i
        <4>1. k \in 1 .. Len(c2[s]) /\ i \in 1 .. Len(c2[s])
          BY <2>2
        <4>2. c2[s][k].blkno = c2[s][i].blkno
          BY <2>2, <3>4
        <4>3. CASE k = 1
          BY <4>1, <4>2, <4>3, <3>1
        <4>4. CASE i = 1
          BY <4>1, <4>2, <4>4, <3>1
        <4>5. CASE k # 1 /\ i # 1
          <5>1. /\ k - 1 \in 1 .. Len(c[s]) /\ c2[s][k] = c[s][k - 1]
                /\ i - 1 \in 1 .. Len(c[s]) /\ c2[s][i] = c[s][i - 1]
            BY <4>1, <4>5, <3>1
          <5>2. k - 1 = i - 1
            BY <5>1, <4>2, <3>2
          <5> QED
            BY <5>2, <4>1
        <4> QED
          BY <4>3, <4>4, <4>5
      <3> QED
        BY <3>3, <3>4
    <2> QED
      BY <2>1, <2>2
  <1>11. ASSUME NEW x \in Blknos
         PROVE  Has(c2, x) <=> (Has(c, x) \/ x = b)
    <2>1. CASE Slot(x) # s
      BY <2>1, <1>5, SlotType DEF Has
    <2>2. CASE Slot(x) = s
      <3>1. ASSUME Has(c2, x) PROVE Has(c, x) \/ x = b
        <4>1. PICK k \in 1 .. Len(c2[s]) : c2[s][k].blkno = x
          BY <2>2, <3>1 DEF Has
        <4>2. k = 1 \/ (k \in 2 .. Len(c[s]) + 1 /\ k - 1 \in 1 .. Len(c[s]))
          BY <1>6, <1>9
        <4>3. CASE k = 1
          BY <4>1, <4>3, <1>2, <1>6
        <4>4. CASE k \in 2 .. Len(c[s]) + 1 /\ k - 1 \in 1 .. Len(c[s])
          BY <4>1, <4>4, <1>6, <2>2 DEF Has
        <4> QED
          BY <4>2, <4>3, <4>4
      <3>2. ASSUME Has(c, x) PROVE Has(c2, x)
        <4>1. PICK k \in 1 .. Len(c[s]) : c[s][k].blkno = x
          BY <2>2, <3>2 DEF Has
        <4>2. c2[s][k + 1] = c[s][k]
          BY <4>1, <1>6
        <4>3. k + 1 \in 1 .. Len(c2[s])
          BY <4>1, <1>6, <1>9
        <4> QED
          BY <4>1, <4>2, <4>3, <2>2 DEF Has
      <3>3. ASSUME x = b PROVE Has(c2, x)
        <4>1. 1 \in 1 .. Len(c2[s]) /\ c2[s][1].blkno = x
          BY <3>3, <1>2, <1>6, <1>9
        <4> QED
          BY <4>1, <2>2 DEF Has
      <3> QED
        BY <3>1, <3>2, <3>3
    <2> QED
      BY <2>1, <2>2
  <1>12. Get(c2, b) = d
    <2>1. 1 \in 1 .. Len(c2[s]) /\ c2[s][1].blkno = b
      BY <1>2, <1>6, <1>9
    <2>2. Pos(c2, b) = 1
      BY <2>1, <1>7, <1>10, PosUnique
    <2>3. c2[Slot(b)][1].data = d
      BY <1>2, <1>6
    <2> QED
      BY <2>2, <2>3 DEF Get
  <1>13. ASSUME NEW x \in Blknos, x # b, Has(c, x)
         PROVE  Get(c2, x) = Get(c, x)
    <2>1. PICK i \in 1 .. Len(c[Slot(x)]) : c[Slot(x)][i].blkno = x
      BY <1>13 DEF Has
    <2>2. Pos(c, x) = i
      BY <2>1, PosUnique
    <2>3. CASE Slot(x) = s
      <3>1. i + 1 \in 1 .. Len(c2[Slot(x)]) /\ c2[Slot(x)][i + 1] = c[Slot(x)][i]
        BY <2>1, <2>3, <1>6, <1>9
      <3>2. Pos(c2, x) = i + 1
        BY <3>1, <2>1, <1>7, <1>10, PosUnique
      <3> QED
        BY <3>1, <3>2, <2>2 DEF Get
    <2>4. CASE Slot(x) # s
      <3>1. c2[Slot(x)] = c[Slot(x)]
        BY <2>4, <1>5, SlotType
      <3>2. Pos(c2, x) = i
        BY <3>1, <2>1, <1>7, <1>10, PosUnique
      <3> QED
        BY <3>1, <3>2, <2>2 DEF Get
    <2> QED
      BY <2>3, <2>4
  <1> QED
    BY <1>7, <1>10, <1>11, <1>12, <1>13

\* Overwriting the data of the node of a block: no node appears, goes or
\* moves, and only that block's data is different.
LEMMA UpdateLemma ==
    ASSUME NEW c \in Chains, WF(c), NEW b \in Blknos, NEW d \in Data, Has(c, b),
           NEW c2
    PROVE  c2 = Overwritten(c, b, d) =>
           /\ c2 \in Chains
           /\ WF(c2)
           /\ \A x \in Blknos : Has(c2, x) <=> Has(c, x)
           /\ Get(c2, b) = d
           /\ \A x \in Blknos : x # b /\ Has(c, x) => Get(c2, x) = Get(c, x)
  <1> DEFINE s == Slot(b)
             p == Pos(c, b)
             e == [blkno |-> b, data |-> d]
  <1>0. SUFFICES ASSUME c2 = [c EXCEPT ![s][p] = e]
                 PROVE  /\ c2 \in Chains
                        /\ WF(c2)
                        /\ \A x \in Blknos : Has(c2, x) <=> Has(c, x)
                        /\ Get(c2, b) = d
                        /\ \A x \in Blknos : x # b /\ Has(c, x) => Get(c2, x) = Get(c, x)
    BY DEF Overwritten
  <1>1. s \in Slots
    BY SlotType
  <1>2. p \in 1 .. Len(c[s]) /\ c[s][p].blkno = b
    BY GetNode
  <1>3. e \in Block /\ e.blkno = b /\ e.data = d
    BY DEF Block
  <1> HIDE DEF p, e
  <1>4. \A t \in Slots : c[t] \in Seq(Block)
    BY DEF Chains
  <1>5. c2[s] = [c[s] EXCEPT ![p] = e]
    BY <1>0, <1>1 DEF Chains
  <1>6. \A t \in Slots : t # s => c2[t] = c[t]
    BY <1>0 DEF Chains
  <1>7. c2 = [t \in Slots |-> c2[t]]
    BY <1>0 DEF Chains
  <1>8. /\ c2[s] \in Seq(Block)
        /\ Len(c2[s]) = Len(c[s])
        /\ c2[s][p] = e
        /\ \A i \in 1 .. Len(c[s]) : i # p => c2[s][i] = c[s][i]
    BY <1>1, <1>2, <1>3, <1>4, <1>5, Replace
  <1>9. c2 \in Chains
    BY <1>4, <1>6, <1>7, <1>8 DEF Chains
  <1>10. \A t \in Slots : /\ Len(c2[t]) = Len(c[t])
                          /\ \A i \in 1 .. Len(c[t]) : c2[t][i].blkno = c[t][i].blkno
    BY <1>2, <1>3, <1>6, <1>8
  <1>11. WF(c2)
    BY <1>10 DEF WF
  <1>12. \A x \in Blknos : Has(c2, x) <=> Has(c, x)
    BY <1>10, SlotType DEF Has
  <1>13. Pos(c2, b) = p
    BY <1>2, <1>3, <1>8, <1>9, <1>11, PosUnique
  <1>14. Get(c2, b) = d
    BY <1>3, <1>8, <1>13 DEF Get
  <1>15. ASSUME NEW x \in Blknos, x # b, Has(c, x)
         PROVE  Get(c2, x) = Get(c, x)
    <2>1. PICK i \in 1 .. Len(c[Slot(x)]) : c[Slot(x)][i].blkno = x
      BY <1>15 DEF Has
    <2>2. Pos(c, x) = i
      BY <2>1, PosUnique
    <2>3. i \in 1 .. Len(c2[Slot(x)]) /\ c2[Slot(x)][i].blkno = x
      BY <2>1, <1>10, SlotType
    <2>4. Pos(c2, x) = i
      BY <2>3, <1>9, <1>11, PosUnique
    <2>5. c2[Slot(x)][i] = c[Slot(x)][i]
      BY <2>1, <1>2, <1>6, <1>8, <1>15, SlotType
    <2> QED
      BY <2>2, <2>4, <2>5 DEF Get
  <1> QED
    BY <1>9, <1>11, <1>12, <1>14, <1>15

-----------------------------------------------------------------------------
(* The invariant.                                                          *)

IInv == TypeOK /\ ChainsWellFormed /\ CallProgress

\* The operators of CacheBlkdev are those above, of the variable chains.
LEMMA Renaming ==
    /\ \A b : InCache(b) <=> Has(chains, b)
    /\ \A b : _GetCache(b) = Get(chains, b)
    /\ \A b : CachePos(b) = Pos(chains, b)
    /\ ChainsWellFormed <=> WF(chains)
  BY DEF InCache, Has, _GetCache, Get, CachePos, Pos, ChainsWellFormed, WF

\* The same for the chains of the next state.
LEMMA RenamingPrimed ==
    /\ \A b : InCache(b)' <=> Has(chains', b)
    /\ \A b : _GetCache(b)' = Get(chains', b)
    /\ ChainsWellFormed' <=> WF(chains')
  BY DEF InCache, Has, _GetCache, Get, CachePos, Pos, ChainsWellFormed, WF

\* View in terms of the chains' contents, before and after a step.
ViewOf(c, m) == [b \in Blknos |-> IF Has(c, b) THEN Get(c, b) ELSE m[b]]

\* What a reader sees, as a function of the chains and the child alone.
LEMMA ViewIsViewOf == View = ViewOf(chains, child) /\ View' = ViewOf(chains', child')
  BY Renaming, RenamingPrimed DEF View, ViewOf

\* What a reader sees are contents of blocks.
LEMMA ViewType == TypeOK /\ ChainsWellFormed => View \in [Blknos -> Data]
  <1> SUFFICES ASSUME TypeOK, ChainsWellFormed
               PROVE  View \in [Blknos -> Data]
    OBVIOUS
  <1>1. chains \in Chains /\ WF(chains) /\ child \in [Blknos -> Data]
    BY Renaming DEF TypeOK, Chains
  <1>2. \A b \in Blknos : Has(chains, b) => Get(chains, b) \in Data
    BY <1>1, GetNode
  <1> QED
    BY <1>1, <1>2, ViewIsViewOf DEF ViewOf

\* Failed and Done are results, and so is any buffer of a range of blocks.
LEMMA ResultTypes ==
    /\ Failed \in Results /\ Done \in Results
    /\ \A b, e \in 0 .. NBlocks : b <= e =>
          \A d \in [b .. e - 1 -> Data] : [rc |-> 0, data |-> d] \in Results
  <1>1. \A b, e \in 0 .. NBlocks : b <= e =>
           \A d \in [b .. e - 1 -> Data], r \in {0, 1} : [rc |-> r, data |-> d] \in Results
    <2> SUFFICES ASSUME NEW b \in 0 .. NBlocks, NEW e \in 0 .. NBlocks, b <= e,
                        NEW d \in [b .. e - 1 -> Data], NEW r \in {0, 1}
                 PROVE  [rc |-> r, data |-> d] \in Results
      OBVIOUS
    <2>1. <<b, e>> \in Ranges
      BY DEF Ranges
    <2>2. d \in Buffers(<<b, e>>[1], <<b, e>>[2])
      BY DEF Buffers
    <2>3. d \in UNION { Buffers(r2[1], r2[2]) : r2 \in Ranges }
      BY <2>1, <2>2
    <2> QED
      BY <2>3 DEF Results
  <1>2. PICK b, e \in 0 .. NBlocks : b <= e /\ NoData \in [b .. e - 1 -> Data]
    <2>1. 0 \in 0 .. NBlocks
      BY NBlocksAssumption
    <2>2. NoData \in [0 .. 0 - 1 -> Data]
      BY DEF NoData, Nothing
    <2> QED
      BY <2>1, <2>2
  <1>3. \A r \in {0, 1} : [rc |-> r, data |-> NoData] \in Results
    BY <1>1, <1>2
  <1> QED
    BY <1>1, <1>3 DEF Failed, Done

\* The control state of a call as integers.
LEMMA CallInts ==
    TypeOK => /\ NBlocks \in Nat
              /\ start \in Int /\ end \in Int /\ cur \in Int /\ run \in Int
              /\ 0 <= start /\ start <= cur /\ cur <= run /\ run <= end /\ end <= NBlocks
              /\ cur < end => cur \in Blknos
              /\ \A k \in start .. end - 1 : k \in Blknos
  BY NBlocksAssumption DEF TypeOK, Blknos

\* A call that returns leaves the invariant, whatever it did to the child.
LEMMA ReturnStep ==
    ASSUME IInv, NEW r \in Results, Return(r),
           UNCHANGED <<chains, flags>>, child' \in [Blknos -> Data]
    PROVE  IInv'
  <1>1. TypeOK'
    BY NBlocksAssumption DEF IInv, TypeOK, Return, PCs
  <1>2. ChainsWellFormed'
    BY DEF IInv, ChainsWellFormed, Slots, Slot
  <1>3. CallProgress'
    BY DEF CallProgress, Return
  <1> QED
    BY <1>1, <1>2, <1>3 DEF IInv

\* A step that touches neither the child nor the chains shows a reader nothing.
LEMMA FrameView ==
    UNCHANGED <<child, chains>> =>
        /\ View' = View
        /\ \A b : InCache(b)' <=> InCache(b)
        /\ ChainsWellFormed' <=> ChainsWellFormed
  BY Renaming, RenamingPrimed, ViewIsViewOf

\* Putting an uncached block into the cache with data d.
LEMMA PutCacheStep ==
    ASSUME TypeOK, ChainsWellFormed, NEW b \in Blknos, NEW d \in Data,
           ~InCache(b), _PutCache(b, d), UNCHANGED child
    PROVE  /\ chains' \in [Slots -> Seq(Block)]
           /\ ChainsWellFormed'
           /\ \A x \in Blknos : InCache(x)' <=> (InCache(x) \/ x = b)
           /\ View' = [View EXCEPT ![b] = d]
  <1>1. chains \in Chains /\ WF(chains) /\ ~Has(chains, b) /\ child \in [Blknos -> Data]
    BY Renaming DEF TypeOK, Chains
  <1>2. chains' = PutIn(chains, b, d)
    BY DEF _PutCache, PutIn
  <1>3. /\ chains' \in Chains
        /\ WF(chains')
        /\ \A x \in Blknos : Has(chains', x) <=> (Has(chains, x) \/ x = b)
        /\ Get(chains', b) = d
        /\ \A x \in Blknos : x # b /\ Has(chains, x) => Get(chains', x) = Get(chains, x)
    BY <1>1, <1>2, PutCacheLemma
  <1>4. \A x \in Blknos : (IF Has(chains', x) THEN Get(chains', x) ELSE child'[x])
            = IF x = b THEN d ELSE IF Has(chains, x) THEN Get(chains, x) ELSE child[x]
    BY <1>1, <1>3
  <1>5. ViewOf(chains', child') = [ViewOf(chains, child) EXCEPT ![b] = d]
    BY <1>4 DEF ViewOf
  <1> QED
    BY <1>3, <1>5, Renaming, RenamingPrimed, ViewIsViewOf DEF Chains

\* Overwriting the cached copy of a block with data d.
LEMMA UpdateCacheStep ==
    ASSUME TypeOK, ChainsWellFormed, NEW b \in Blknos, NEW d \in Data,
           InCache(b), _UpdateCache(b, d), UNCHANGED child
    PROVE  /\ chains' \in [Slots -> Seq(Block)]
           /\ ChainsWellFormed'
           /\ \A x \in Blknos : InCache(x)' <=> InCache(x)
           /\ View' = [View EXCEPT ![b] = d]
  <1>1. chains \in Chains /\ WF(chains) /\ Has(chains, b) /\ child \in [Blknos -> Data]
    BY Renaming DEF TypeOK, Chains
  <1>2. chains' = Overwritten(chains, b, d)
    BY Renaming DEF _UpdateCache, Overwritten
  <1>3. /\ chains' \in Chains
        /\ WF(chains')
        /\ \A x \in Blknos : Has(chains', x) <=> Has(chains, x)
        /\ Get(chains', b) = d
        /\ \A x \in Blknos : x # b /\ Has(chains, x) => Get(chains', x) = Get(chains, x)
    BY <1>1, <1>2, UpdateLemma
  <1>4. \A x \in Blknos : (IF Has(chains', x) THEN Get(chains', x) ELSE child'[x])
            = IF x = b THEN d ELSE IF Has(chains, x) THEN Get(chains, x) ELSE child[x]
    BY <1>1, <1>3
  <1>5. ViewOf(chains', child') = [ViewOf(chains, child) EXCEPT ![b] = d]
    BY <1>4 DEF ViewOf
  <1> QED
    BY <1>3, <1>5, Renaming, RenamingPrimed, ViewIsViewOf DEF Chains

\* Init establishes the invariant.
LEMMA InitIInv == Init => IInv
  <1> SUFFICES ASSUME Init PROVE IInv
    OBVIOUS
  <1>1. chains \in [Slots -> Seq(Block)]
    BY DEF Init, EmptyChains
  <1>2. TypeOK
    BY <1>1, ResultTypes, NBlocksAssumption DEF Init, TypeOK, PCs
  <1>3. \A s \in Slots : Len(chains[s]) = 0
    BY DEF Init, EmptyChains
  <1>4. ChainsWellFormed
    BY <1>3 DEF ChainsWellFormed
  <1>5. CallProgress
    BY DEF Init, CallProgress
  <1> QED
    BY <1>2, <1>4, <1>5 DEF IInv

\* Beginning a GetN: nothing has been read yet.
LEMMA GetNStep ==
    ASSUME IInv, NEW b \in 0 .. NBlocks, NEW e \in 0 .. NBlocks, GetN(b, e)
    PROVE  IInv'
  <1>1. TypeOK'
    BY NBlocksAssumption DEF IInv, TypeOK, GetN, PCs
  <1>2. ChainsWellFormed'
    BY FrameView DEF IInv, GetN
  <1>3. buf' = [k \in start' .. run' - 1 |-> View'[k]]
    BY DEF GetN, Nothing
  <1>4. CallProgress'
    BY <1>3 DEF CallProgress, GetN
  <1> QED
    BY <1>1, <1>2, <1>4 DEF IInv

\* One block copied from the cache.
LEMMA GetCachedStep ==
    ASSUME IInv, GetCached
    PROVE  IInv'
  <1>0. TypeOK /\ ChainsWellFormed /\ CallProgress
    BY DEF IInv
  <1>1. TypeOK'
    BY <1>0, CallInts DEF TypeOK, GetCached
  <1>2. View' = View /\ ChainsWellFormed'
    BY <1>0, FrameView DEF GetCached
  <1>3. buf = [k \in start .. cur - 1 |-> View[k]]
    BY <1>0 DEF CallProgress, GetCached
  <1>4. _GetCache(cur) = View[cur]
    BY <1>0, CallInts DEF View, GetCached
  <1>5. buf' = [k \in start .. cur |-> View[k]]
    BY <1>0, <1>3, <1>4, CallInts DEF GetCached
  <1>6. buf' = [k \in start' .. run' - 1 |-> View'[k]]
    BY <1>0, <1>2, <1>5, CallInts DEF GetCached
  <1>7. CallProgress'
    BY <1>6 DEF CallProgress, GetCached
  <1> QED
    BY <1>1, <1>2, <1>7 DEF IInv

\* A run of uncached blocks read from the child.
LEMMA ReadRunStep ==
    ASSUME IInv, ReadRun
    PROVE  IInv'
  <1>0. TypeOK /\ ChainsWellFormed /\ CallProgress
    BY DEF IInv
  <1>1. PICK j \in cur + 1 .. end :
            /\ IsRun(j)
            /\ buf' = [k \in start .. j - 1 |-> IF k < cur THEN buf[k] ELSE child[k]]
            /\ run' = j
            /\ IF Caching THEN pc' = "fill" /\ cur' = cur
                          ELSE pc' = "get" /\ cur' = j
    BY DEF ReadRun
  <1>2. j \in Int /\ cur < j /\ j <= end
    BY <1>0, <1>1, CallInts
  <1>3. TypeOK'
    BY <1>0, <1>1, <1>2, CallInts DEF TypeOK, ReadRun, PCs
  <1>4. View' = View /\ ChainsWellFormed' /\ \A b : InCache(b)' <=> InCache(b)
    BY <1>0, FrameView DEF ReadRun
  <1>5. buf = [k \in start .. cur - 1 |-> View[k]]
    BY <1>0 DEF CallProgress, ReadRun
  <1>6. \A k \in cur .. j - 1 : ~InCache(k) /\ k \in Blknos
    BY <1>0, <1>1, <1>2, CallInts DEF IsRun
  <1>7. \A k \in cur .. j - 1 : child[k] = View[k]
    BY <1>6 DEF View
  <1>8. buf' = [k \in start .. j - 1 |-> View[k]]
    BY <1>0, <1>1, <1>2, <1>5, <1>7, CallInts
  <1>9. buf' = [k \in start' .. run' - 1 |-> View'[k]]
    BY <1>1, <1>4, <1>8 DEF ReadRun
  <1>10. pc' = "get" => run' = cur'
    BY <1>1
  <1>11. pc' = "fill" => /\ Caching'
                         /\ cur' < run'
                         /\ \A k \in cur' .. run' - 1 : ~InCache(k)'
    BY <1>1, <1>2, <1>4, <1>6 DEF ReadRun, Caching
  <1>12. pc' \in {"get", "fill"}
    BY <1>1
  <1>13. CallProgress'
    BY <1>9, <1>10, <1>11, <1>12 DEF CallProgress
  <1> QED
    BY <1>3, <1>4, <1>13 DEF IInv

\* One block of the run put into the cache: a reader sees no difference.
LEMMA FillStep ==
    ASSUME IInv, Fill
    PROVE  IInv' /\ View' = View
  <1>0. TypeOK /\ ChainsWellFormed /\ CallProgress
    BY DEF IInv
  <1>1. /\ buf = [k \in start .. run - 1 |-> View[k]]
        /\ Caching
        /\ cur < run
        /\ \A k \in cur .. run - 1 : ~InCache(k)
    BY <1>0 DEF CallProgress, Fill
  <1>2. cur \in Blknos /\ ~InCache(cur) /\ buf[cur] = View[cur]
    BY <1>0, <1>1, CallInts
  <1>3. View \in [Blknos -> Data]
    BY <1>0, ViewType
  <1>4. buf[cur] \in Data
    BY <1>2, <1>3
  <1>5. /\ chains' \in [Slots -> Seq(Block)]
        /\ ChainsWellFormed'
        /\ \A x \in Blknos : InCache(x)' <=> (InCache(x) \/ x = cur)
        /\ View' = [View EXCEPT ![cur] = buf[cur]]
    BY <1>0, <1>2, <1>4, PutCacheStep DEF Fill
  <1>6. View' = View
    BY <1>2, <1>3, <1>5
  <1>7. TypeOK'
    BY <1>0, <1>1, <1>5, CallInts DEF TypeOK, Fill, PCs
  <1>8. buf' = [k \in start' .. run' - 1 |-> View'[k]]
    BY <1>1, <1>6 DEF Fill
  <1>9. \A k \in cur' .. run' - 1 : ~InCache(k)'
    <2> SUFFICES ASSUME NEW k \in cur + 1 .. run - 1
                 PROVE  ~InCache(k)'
      BY DEF Fill
    <2>1. k \in cur .. run - 1 /\ k \in Blknos /\ k # cur
      BY <1>0, CallInts
    <2> QED
      BY <2>1, <1>1, <1>5
  <1>10. /\ Caching'
         /\ pc' = "get" => run' = cur'
         /\ pc' = "fill" => cur' < run'
         /\ pc' \in {"get", "fill"}
    BY <1>0, <1>1, CallInts DEF Fill, Caching
  <1>11. CallProgress'
    BY <1>8, <1>9, <1>10 DEF CallProgress
  <1> QED
    BY <1>5, <1>6, <1>7, <1>11 DEF IInv

\* Beginning a PutN.
LEMMA PutNStep ==
    ASSUME IInv, NEW b \in 0 .. NBlocks, NEW e \in 0 .. NBlocks,
           NEW d \in Buffers(b, e), PutN(b, e, d)
    PROVE  IInv'
  <1>1. TypeOK'
    BY NBlocksAssumption DEF IInv, TypeOK, PutN, PCs
  <1>2. ChainsWellFormed'
    BY FrameView DEF IInv, PutN
  <1>3. CallProgress'
    BY DEF CallProgress, PutN, Buffers
  <1> QED
    BY <1>1, <1>2, <1>3 DEF IInv

\* One block written into the cache: the view of that block changes.
LEMMA PutCachedStep ==
    ASSUME IInv, PutCached
    PROVE  IInv' /\ cur \in Blknos /\ buf[cur] \in Data
                 /\ View' = [View EXCEPT ![cur] = buf[cur]]
  <1>0. TypeOK /\ ChainsWellFormed /\ CallProgress
    BY DEF IInv
  <1>1. buf \in [start .. end - 1 -> Data]
    BY <1>0 DEF CallProgress, PutCached
  <1>2. cur \in Blknos /\ buf[cur] \in Data
    BY <1>0, <1>1, CallInts DEF PutCached
  <1>3. /\ chains' \in [Slots -> Seq(Block)]
        /\ ChainsWellFormed'
        /\ View' = [View EXCEPT ![cur] = buf[cur]]
    <2>1. CASE InCache(cur)
      BY <1>0, <1>2, <2>1, UpdateCacheStep DEF PutCached
    <2>2. CASE ~InCache(cur)
      BY <1>0, <1>2, <2>2, PutCacheStep DEF PutCached
    <2> QED
      BY <2>1, <2>2
  <1>4. TypeOK'
    BY <1>0, <1>3, CallInts DEF TypeOK, PutCached
  <1>5. CallProgress'
    BY <1>1 DEF CallProgress, PutCached
  <1> QED
    BY <1>2, <1>3, <1>4, <1>5 DEF IInv

\* A write to the child, complete or not.
LEMMA PutChildStep ==
    ASSUME IInv, PutChild \/ PutChildFails
    PROVE  IInv'
  <1>0. TypeOK /\ CallProgress
    BY DEF IInv
  <1>1. buf \in [start .. end - 1 -> Data]
    BY <1>0 DEF CallProgress, PutChild, PutChildFails
  <1>2. child' \in [Blknos -> Data]
    <2>1. CASE PutChild
      <3>1. PICK w \in start .. end :
              child' = [k \in Blknos |-> IF k \in start .. w - 1 THEN buf[k] ELSE child[k]]
        BY <2>1 DEF PutChild
      <3>2. \A k \in start .. w - 1 : buf[k] \in Data
        BY <1>0, <1>1, <3>1, CallInts
      <3> QED
        BY <1>0, <3>1, <3>2 DEF TypeOK
    <2>2. CASE PutChildFails
      BY <1>0, <1>1, <2>2 DEF TypeOK, PutChildFails
    <2> QED
      BY <2>1, <2>2
  <1>3. \E r \in {Failed, Done} : Return(r)
    BY DEF PutChild, PutChildFails
  <1> QED
    BY <1>2, <1>3, ReturnStep, ResultTypes DEF PutChild, PutChildFails

\* A successful GetN returns a buffer of blocks.
LEMMA GetReturnsStep ==
    ASSUME IInv, GetReturns
    PROVE  IInv' /\ buf = [k \in start .. end - 1 |-> View[k]]
  <1>0. TypeOK /\ ChainsWellFormed /\ CallProgress
    BY DEF IInv
  <1>1. buf = [k \in start .. end - 1 |-> View[k]]
    BY <1>0 DEF CallProgress, GetReturns
  <1>2. View \in [Blknos -> Data]
    BY <1>0, ViewType
  <1>3. buf \in [start .. end - 1 -> Data]
    BY <1>0, <1>1, <1>2, CallInts
  <1>4. start \in 0 .. NBlocks /\ end \in 0 .. NBlocks /\ start <= end
    BY <1>0, CallInts
  <1>5. [rc |-> 0, data |-> buf] \in Results
    BY <1>3, <1>4, ResultTypes
  <1>6. IInv'
    BY <1>5, ReturnStep DEF GetReturns, IInv, TypeOK
  <1> QED
    BY <1>1, <1>6

\* The chains after Close.
LEMMA EmptyWellFormed ==
    /\ EmptyChains \in [Slots -> Seq(Block)]
    /\ WF(EmptyChains)
    /\ \A b \in Blknos : ~Has(EmptyChains, b)
  <1>1. \A s \in Slots : Len(EmptyChains[s]) = 0
    BY DEF EmptyChains
  <1> QED
    BY <1>1, SlotType DEF EmptyChains, WF, Has

\* Closing the device and opening it again.
LEMMA CloseStep ==
    ASSUME IInv, Close \/ NewCacheBlkdev
    PROVE  IInv'
  <1>1. CASE Close
    <2>1. ChainsWellFormed'
      BY <1>1, EmptyWellFormed, RenamingPrimed DEF Close
    <2>2. TypeOK'
      BY <1>1, EmptyWellFormed, ResultTypes DEF IInv, TypeOK, Close, call, PCs
    <2>3. CallProgress'
      BY <1>1 DEF IInv, CallProgress, Close, call
    <2> QED
      BY <2>1, <2>2, <2>3 DEF IInv
  <1>2. CASE NewCacheBlkdev
    <2>1. ChainsWellFormed'
      BY <1>2, FrameView DEF IInv, NewCacheBlkdev
    <2>2. TypeOK'
      BY <1>2, ResultTypes DEF IInv, TypeOK, NewCacheBlkdev, call, PCs
    <2>3. CallProgress'
      BY <1>2 DEF IInv, CallProgress, NewCacheBlkdev, call
    <2> QED
      BY <2>1, <2>2, <2>3 DEF IInv
  <1> QED
    BY <1>1, <1>2

\* SetFlags changes the flags and nothing else.
LEMMA SetFlagsStep ==
    ASSUME IInv, NEW f \in 0 .. 2, SetFlags(f)
    PROVE  IInv'
  <1>1. ChainsWellFormed'
    BY FrameView DEF IInv, SetFlags
  <1>2. TypeOK'
    BY ResultTypes DEF IInv, TypeOK, SetFlags, call, BLKDEV_ENABLE_CACHING
  <1>3. CallProgress'
    BY DEF IInv, CallProgress, SetFlags, call
  <1> QED
    BY <1>1, <1>2, <1>3 DEF IInv

\* Every step keeps the invariant.
LEMMA NextIInv == IInv /\ [Next]_vars => IInv'
  <1> SUFFICES ASSUME IInv, [Next]_vars PROVE IInv'
    OBVIOUS
  <1>1. ASSUME NEW r \in Ranges, GetN(r[1], r[2]) PROVE IInv'
    BY <1>1, GetNStep DEF Ranges
  <1>2. ASSUME NEW r \in Ranges, NEW d \in Buffers(r[1], r[2]), PutN(r[1], r[2], d)
        PROVE  IInv'
    BY <1>2, PutNStep DEF Ranges
  <1>3. CASE ReadRunFails \/ AllocFails \/ PutCachedReturns
    BY <1>3, ReturnStep, ResultTypes
      DEF ReadRunFails, AllocFails, PutCachedReturns, IInv, TypeOK
  <1>4. CASE GetCached
    BY <1>4, GetCachedStep
  <1>5. CASE ReadRun
    BY <1>5, ReadRunStep
  <1>6. CASE Fill
    BY <1>6, FillStep
  <1>7. CASE GetReturns
    BY <1>7, GetReturnsStep
  <1>8. CASE PutCached
    BY <1>8, PutCachedStep
  <1>9. CASE PutChild \/ PutChildFails
    BY <1>9, PutChildStep
  <1>10. ASSUME NEW f \in 0 .. 2, SetFlags(f) PROVE IInv'
    BY <1>10, SetFlagsStep
  <1>11. CASE Close \/ NewCacheBlkdev
    BY <1>11, CloseStep
  <1>12. CASE UNCHANGED vars
    <2>1. ChainsWellFormed' /\ View' = View /\ \A b : InCache(b)' <=> InCache(b)
      BY <1>12, FrameView DEF IInv, vars
    <2>2. TypeOK'
      BY <1>12 DEF IInv, TypeOK, vars
    <2>3. CallProgress'
      BY <1>12, <2>1 DEF IInv, CallProgress, vars, Caching
    <2> QED
      BY <2>1, <2>2, <2>3 DEF IInv
  <1> QED
    BY <1>1, <1>2, <1>3, <1>4, <1>5, <1>6, <1>7, <1>8, <1>9, <1>10, <1>11, <1>12
      DEF Next

\* The inductive invariant holds in every reachable state.
THEOREM Invariance == Spec => []IInv
  BY InitIInv, NextIInv, PTL DEF Spec

\* The variables keep their types and a call stays inside the range of blocks
\* it was given, in every loop iteration of _GetN and _PutN.
THEOREM TypeCorrect == Spec => []TypeOK
  <1>1. IInv => TypeOK
    BY DEF IInv
  <1> QED
    BY <1>1, Invariance, PTL

\* No block ever has two nodes in the hash table, and every node is where
\* _GetCache looks for it.
THEOREM NoDuplicateNodes == Spec => []ChainsWellFormed
  <1>1. IInv => ChainsWellFormed
    BY DEF IInv
  <1> QED
    BY <1>1, Invariance, PTL

\* Inside a GetN the buffer always holds what a reader should see, and filling
\* the cache never meets a block that is already there.
THEOREM LoopInvariants == Spec => []CallProgress
  <1>1. IInv => CallProgress
    BY DEF IInv
  <1> QED
    BY <1>1, Invariance, PTL

-----------------------------------------------------------------------------
(* What steps may not do.                                                  *)

\* A successful GetN returns the last data written to each of its blocks.
THEOREM ReadsAreCorrect == Spec => ReadReturnsView
  <1>1. IInv /\ [Next]_vars =>
          [pc = "get" /\ pc' = "idle" /\ ret'.rc = 0
             => ret'.data = [k \in start .. end - 1 |-> View[k]]]_vars
    <2> SUFFICES ASSUME IInv, Next, pc = "get", pc' = "idle", ret'.rc = 0
                 PROVE  ret'.data = [k \in start .. end - 1 |-> View[k]]
      OBVIOUS
    <2>1. GetReturns \/ ReadRunFails
      BY DEF Next, GetN, GetCached, ReadRun, Fill, AllocFails, PutN, PutCached,
        PutCachedReturns, PutChild, PutChildFails, SetFlags, Close, NewCacheBlkdev,
        Caching
    <2>2. ~ReadRunFails
      BY DEF ReadRunFails, Return, Failed
    <2>3. GetReturns
      BY <2>1, <2>2
    <2> QED
      BY <2>3, GetReturnsStep DEF GetReturns, Return
  <1> QED
    BY <1>1, Invariance, PTL DEF Spec, ReadReturnsView

\* A GetN, complete or not, changes nothing a reader can see.
THEOREM ReadsAreInvisible == Spec => ReadsLeaveView
  <1>1. IInv /\ [Next]_vars => [(pc \in {"get", "fill"}) => View' = View]_vars
    <2> SUFFICES ASSUME IInv, Next, pc \in {"get", "fill"}
                 PROVE  View' = View
      OBVIOUS
    <2>1. GetCached \/ ReadRun \/ ReadRunFails \/ Fill \/ AllocFails \/ GetReturns
      BY DEF Next, GetN, PutN, PutCached, PutCachedReturns, PutChild, PutChildFails,
        SetFlags, Close, NewCacheBlkdev
    <2>2. CASE Fill
      BY <2>2, FillStep
    <2>3. CASE ~Fill
      BY <2>1, <2>3, FrameView
        DEF GetCached, ReadRun, ReadRunFails, AllocFails, GetReturns
    <2> QED
      BY <2>2, <2>3
  <1> QED
    BY <1>1, Invariance, PTL DEF Spec, ReadsLeaveView

-----------------------------------------------------------------------------
(* The refinement, for a client that never turns caching off again.        *)

OInv == IInv /\ CacheEmptyWhenOff

\* While caching is off the cache is empty: nothing is ever put into it.
LEMMA NextOInv ==
    ASSUME MayDisable = FALSE, OInv, [Next]_vars
    PROVE  OInv'
  <1>1. IInv'
    BY NextIInv DEF OInv
  <1>2. CacheEmptyWhenOff'
    BY DEF OInv, IInv, TypeOK, CallProgress, CacheEmptyWhenOff, Caching, Next, vars,
      GetN, GetCached, ReadRun, ReadRunFails, Fill, AllocFails, GetReturns, PutN,
      PutCached, PutCachedReturns, PutChild, PutChildFails, SetFlags, Close,
      NewCacheBlkdev, Return, call, BLKDEV_ENABLE_CACHING
  <1> QED
    BY <1>1, <1>2 DEF OInv

\* With an empty cache a reader sees the child.
LEMMA EmptyView ==
    ASSUME child \in [Blknos -> Data], chains = EmptyChains
    PROVE  View = child
  BY EmptyWellFormed, ViewIsViewOf DEF ViewOf

\* The same for the next state.
LEMMA EmptyViewPrimed ==
    ASSUME child' \in [Blknos -> Data], chains' = EmptyChains
    PROVE  View' = child'
  BY EmptyWellFormed, ViewIsViewOf DEF ViewOf

\* The two modules name the same results.
LEMMA SameResults ==
    Overlay!Failed = Failed /\ Overlay!Done = Done /\ Overlay!Blknos = Blknos
  BY DEF Overlay!Failed, Overlay!Done, Overlay!NoData, Overlay!Blknos,
    Failed, Done, NoData, Nothing, Blknos

\* Every step of the cache device is a step of the overlay device or leaves
\* it as it is.
LEMMA StepSimulation ==
    ASSUME MayDisable = FALSE, OInv, OInv', [Next]_vars
    PROVE  [Overlay!ONext]_(Overlay!ovars)
  <1>0. IInv /\ IInv' /\ TypeOK /\ TypeOK'
    BY DEF OInv, IInv
  <1>1. ASSUME UNCHANGED <<child, chains, flags, ret>>
        PROVE  UNCHANGED Overlay!ovars
    BY <1>1, FrameView DEF Overlay!ovars, Caching
  <1>2. ASSUME UNCHANGED <<child, chains, flags>>, ret' \in {Failed, Done}
        PROVE  Overlay!OEnd
    BY <1>2, FrameView, SameResults DEF Overlay!OEnd, Caching
  <1>3. CASE \/ \E r \in Ranges : GetN(r[1], r[2])
             \/ GetCached \/ ReadRun
             \/ \E r \in Ranges : \E d \in Buffers(r[1], r[2]) : PutN(r[1], r[2], d)
             \/ UNCHANGED vars
    BY <1>1, <1>3 DEF GetN, GetCached, ReadRun, PutN, vars
  <1>4. CASE ReadRunFails \/ AllocFails \/ PutCachedReturns \/ NewCacheBlkdev
    BY <1>2, <1>4 DEF ReadRunFails, AllocFails, PutCachedReturns, NewCacheBlkdev,
      Return, Overlay!ONext
  <1>5. CASE Fill
    BY <1>0, <1>5, FillStep DEF Fill, Overlay!ovars, Caching
  <1>6. CASE GetReturns
    <2>1. View' = View
      BY <1>6, FrameView DEF GetReturns
    <2>2. ret' = [rc |-> 0, data |-> [k \in start .. end - 1 |-> View[k]]]
      BY <1>0, <1>6, GetReturnsStep DEF GetReturns, Return
    <2>3. start \in 0 .. NBlocks /\ end \in 0 .. NBlocks
      BY <1>0, CallInts
    <2>4. UNCHANGED <<child, Caching>>
      BY <1>6 DEF GetReturns, Caching
    <2> QED
      BY <2>1, <2>2, <2>3, <2>4 DEF Overlay!ORead, Overlay!ONext
  <1>7. CASE PutCached
    <2>1. cur \in Blknos /\ buf[cur] \in Data /\ View' = [View EXCEPT ![cur] = buf[cur]]
      BY <1>0, <1>7, PutCachedStep
    <2>2. Caching /\ UNCHANGED <<child, Caching, ret>>
      BY <1>7 DEF PutCached, Caching
    <2> QED
      BY <2>1, <2>2, SameResults DEF Overlay!OWriteView, Overlay!ONext
  <1>8. CASE PutChild \/ PutChildFails
    <2>1. ~Caching /\ UNCHANGED <<chains, Caching>> /\ ret' \in {Failed, Done}
      BY <1>8 DEF PutChild, PutChildFails, Return, Caching
    <2>2. chains' = EmptyChains
      BY <2>1 DEF OInv, CacheEmptyWhenOff
    <2>3. child' \in [Blknos -> Data]
      BY <1>0 DEF TypeOK
    <2>4. View' = child'
      BY <2>2, <2>3, EmptyViewPrimed
    <2> QED
      BY <2>1, <2>3, <2>4, SameResults DEF Overlay!OWriteBase, Overlay!ONext
  <1>9. ASSUME NEW f \in 0 .. 2, SetFlags(f)
        PROVE  [Overlay!ONext]_(Overlay!ovars)
    <2>1. CASE flags' = flags
      BY <1>2, <1>9, <2>1 DEF SetFlags, Overlay!ONext
    <2>2. CASE flags' # flags
      <3>1. flags' = BLKDEV_ENABLE_CACHING /\ ret' = Done
        BY <1>0, <1>9, <2>2 DEF SetFlags, TypeOK, Caching, BLKDEV_ENABLE_CACHING
      <3>2. View' = View /\ child' = child
        BY <1>9, FrameView DEF SetFlags
      <3>3. Caching' = TRUE
        BY <3>1 DEF Caching
      <3> QED
        BY <3>1, <3>2, <3>3, SameResults DEF Overlay!OTurnOn, Overlay!ONext
    <2> QED
      BY <2>1, <2>2
  <1>10. CASE Close
    <2>1. child' = child /\ chains' = EmptyChains /\ ret' \in {Failed, Done}
      BY <1>10 DEF Close
    <2>2. View' = child
      BY <1>0, <2>1, EmptyViewPrimed DEF TypeOK
    <2>3. Caching' = FALSE
      BY <1>10 DEF Close, Caching, BLKDEV_ENABLE_CACHING
    <2> QED
      BY <2>1, <2>2, <2>3, SameResults DEF Overlay!ODrop, Overlay!ONext
  <1> QED
    BY <1>3, <1>4, <1>5, <1>6, <1>7, <1>8, <1>9, <1>10 DEF Next

\* A client that only ever turns caching on has an overlay over its disk.
THEOREM Refinement ==
    ASSUME MayDisable = FALSE
    PROVE  Spec => ImplementsOverlay
  <1>1. Init => OInv /\ Overlay!OInit
    <2> SUFFICES ASSUME Init PROVE OInv /\ Overlay!OInit
      OBVIOUS
    <2>1. OInv
      BY InitIInv DEF Init, OInv, CacheEmptyWhenOff
    <2>2. child \in [Blknos -> Data] /\ chains = EmptyChains /\ ret = Done
      BY DEF Init
    <2>3. View = child
      BY <2>2, EmptyView
    <2>4. Caching = FALSE
      BY DEF Init, Caching, BLKDEV_ENABLE_CACHING
    <2> QED
      BY <2>1, <2>2, <2>3, <2>4, SameResults DEF Overlay!OInit
  <1>2. OInv /\ [Next]_vars => OInv'
    BY NextOInv
  <1>3. OInv /\ OInv' /\ [Next]_vars => [Overlay!ONext]_(Overlay!ovars)
    BY StepSimulation
  <1> QED
    BY <1>1, <1>2, <1>3, PTL DEF Spec, ImplementsOverlay, Overlay!OSpec
=============================================================================
