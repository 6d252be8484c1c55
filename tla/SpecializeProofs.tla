-------------------------- MODULE SpecializeProofs ---------------------------
(***************************************************************************)
(* Proofs about LoadDecryptCopySpecializeFile (Specialize), for any list   *)
(* of files, any number of specializations the host delivers and any       *)
(* number of failures and resets.                                          *)
(*                                                                         *)
(* SpecializeIInv adds to SpecializeInv what the call relies on while it   *)
(* is under way:                                                           *)
(*   LoopProgress  the loop starts at the first file, and the files before *)
(*                 the current one are there; nothing is done without an   *)
(*                 archive                                                 *)
(*   FilesKept     a file is one that was there when the archive was       *)
(*                 delivered, or one of the archive, or not there yet      *)
(*   Directories   without a fault in one, exactly the directory that is   *)
(*                 being rewritten has its blocks marked free              *)
(***************************************************************************)
EXTENDS Specialize, TLAPS

LoopProgress ==
    /\ pc \in {"load", "mkdir", "linkdir", "booted", "corrupt"} => i = 1
    /\ pc \in Places \ {"load"} => spec # None
    /\ pc \in {"put", "link"} => \A j \in 1 .. i - 1 : files[Names[j]] # None
    /\ pc = "link" => i <= Len(Names) /\ files[Names[i]] = None
    /\ pc = "delete" => \A n \in FileNames : files[n] # None

FilesKept ==
    spec # None =>
        \A n \in FileNames : IF before[n] = None THEN files[n] \in {None, spec}
                             ELSE files[n] = before[n]

Directories ==
    \/ hurt
    \/ /\ pc # "corrupt"
       /\ pc = "linkdir" => parent = "freed" /\ dir = "none"
       /\ pc = "link" => parent = "ok" /\ dir = "freed"
       /\ pc \notin {"linkdir", "link"} => parent = "ok" /\ dir \in {"none", "ok"}

SpecializeIInv == TypeOK /\ LoopProgress /\ FilesKept /\ Directories

-----------------------------------------------------------------------------

\* The machine's first boot: no directory and no file yet.
LEMMA InitIInv == ASSUME Init PROVE SpecializeIInv
<1>1. hurt \in BOOLEAN
    BY Zenon DEF Init
<1>2. TypeOK
    BY <1>1, NamesAssumption, FaultsAssumption DEF Init, TypeOK, NoFiles, DirStates, Places
<1>3. LoopProgress
    BY DEF Init, LoopProgress, Places
<1>4. FilesKept
    BY DEF Init, FilesKept, NoFiles
<1>5. Directories
    BY DEF Init, Directories
<1>6. QED
    BY <1>2, <1>3, <1>4, <1>5 DEF SpecializeIInv

\* A fault counts against the bound, and is remembered if it hits a directory.
LEMMA FaultFacts ==
    ASSUME TypeOK, Fault
    PROVE  /\ faults' \in 0 .. MaxFaults /\ hurt' \in BOOLEAN /\ before' = before
           /\ hurt => hurt'
           /\ pc \in {"linkdir", "link"} => hurt'
<1>1. hurt' \in BOOLEAN /\ (hurt => hurt') /\ (pc \in {"linkdir", "link"} => hurt')
    BY Zenon DEF Fault, TypeOK, Updating
<1>2. QED
    BY <1>1, FaultsAssumption DEF Fault, TypeOK

\* Storing the file that is missing keeps the others.
LEMMA WithFileFacts ==
    ASSUME TypeOK, LoopProgress, FilesKept, pc = "link"
    PROVE  /\ WithFile(Names[i]) \in [FileNames -> Versions \cup {None}]
           /\ WithFile(Names[i])[Names[i]] = spec /\ spec # None
           /\ \A n \in FileNames : files[n] # None => WithFile(Names[i])[n] = files[n]
           /\ \A n \in FileNames :
                 IF before[n] = None THEN WithFile(Names[i])[n] \in {None, spec}
                 ELSE WithFile(Names[i])[n] = before[n]
<1>1. Names[i] \in FileNames /\ files[Names[i]] = None /\ spec # None
    BY NamesAssumption DEF LoopProgress, TypeOK, FileNames, Places
<1>2. before[Names[i]] = None
    BY <1>1 DEF FilesKept
<1>3. \A n \in FileNames : WithFile(Names[i])[n] = IF n = Names[i] THEN spec ELSE files[n]
    BY DEF WithFile, TypeOK
<1>4. WithFile(Names[i]) \in [FileNames -> Versions \cup {None}]
    BY DEF WithFile, TypeOK
<1>5. QED
    BY <1>1, <1>2, <1>3, <1>4 DEF FilesKept

\* Giving up, or a reset, while no directory is being rewritten: the files stay,
\* the loop will start again.
LEMMA LeaveKeeps ==
    ASSUME SpecializeIInv, pc \notin {"linkdir", "link"},
           pc' \in {"booted", "load"}, i' = 1, Ok \/ Fault,
           UNCHANGED <<spec, parent, dir, files>>
    PROVE  SpecializeIInv'
<1> USE DEF SpecializeIInv
<1>1. /\ faults' \in 0 .. MaxFaults /\ hurt' \in BOOLEAN /\ before' = before
      /\ hurt => hurt'
    BY FaultFacts DEF Ok, TypeOK
<1>2. TypeOK'
    BY <1>1, NamesAssumption DEF TypeOK, Places
<1>3. LoopProgress'
    BY DEF LoopProgress, Places
<1>4. FilesKept'
    BY <1>1 DEF FilesKept
<1>5. Directories'
    BY <1>1 DEF Directories
<1>6. QED
    BY <1>2, <1>3, <1>4, <1>5

\* A fault while the new directory is being entered.
LEMMA HurtLinkDirKeeps ==
    ASSUME SpecializeIInv, pc = "linkdir", Fault,
           pc' \in {"booted", "load"}, i' = 1,
           parent' \in {"freed", "ok"}, dir' \in {"none", "ok"},
           UNCHANGED <<spec, files>>
    PROVE  SpecializeIInv'
<1> USE DEF SpecializeIInv
<1>1. /\ faults' \in 0 .. MaxFaults /\ hurt' \in BOOLEAN /\ before' = before
      /\ hurt'
    BY FaultFacts
<1>2. TypeOK'
    BY <1>1, NamesAssumption DEF TypeOK, Places, DirStates
<1>3. LoopProgress' /\ FilesKept' /\ Directories'
    BY <1>1 DEF LoopProgress, Places, FilesKept, Directories
<1>4. QED
    BY <1>2, <1>3

\* A fault while a file is being entered: it is there or it is not.
LEMMA HurtLinkKeeps ==
    ASSUME SpecializeIInv, pc = "link", Fault,
           pc' \in {"booted", "load"}, i' = 1,
           dir' \in {"freed", "ok"}, files' \in {files, WithFile(Names[i])},
           UNCHANGED <<spec, parent>>
    PROVE  SpecializeIInv'
<1> USE DEF SpecializeIInv
<1>1. /\ faults' \in 0 .. MaxFaults /\ hurt' \in BOOLEAN /\ before' = before
      /\ hurt'
    BY FaultFacts
<1>2. files' \in [FileNames -> Versions \cup {None}]
    BY WithFileFacts DEF TypeOK
<1>3. TypeOK'
    BY <1>1, <1>2, NamesAssumption DEF TypeOK, Places, DirStates
<1>4. FilesKept'
    BY <1>1, WithFileFacts DEF FilesKept
<1>5. LoopProgress' /\ Directories'
    BY <1>1 DEF LoopProgress, Places, Directories
<1>6. QED
    BY <1>3, <1>4, <1>5

\* Blocks of a directory that is marked free are taken: only after a fault.
LEMMA OverwritesKeeps ==
    ASSUME SpecializeIInv, pc \in {"mkdir", "put"}, Overwrites,
           UNCHANGED <<spec, files>>
    PROVE  SpecializeIInv'
<1> USE DEF SpecializeIInv
<1>1. /\ hurt' = hurt /\ UNCHANGED <<faults, before, parent, dir>>
      /\ pc' = "corrupt" /\ i' = 1 /\ "freed" \in {parent, dir}
    BY DEF Overwrites, Ok, Goto
<1>2. hurt
    BY <1>1 DEF Directories
<1>3. TypeOK'
    BY <1>1, NamesAssumption DEF TypeOK, Places
<1>4. LoopProgress' /\ FilesKept' /\ Directories'
    BY <1>1, <1>2 DEF LoopProgress, Places, FilesKept, Directories
<1>5. QED
    BY <1>3, <1>4

\* Loading the archive.
LEMMA LoadKeeps == ASSUME SpecializeIInv, Load PROVE SpecializeIInv'
<1> USE DEF SpecializeIInv
<1>1. pc = "load" /\ UNCHANGED <<spec, parent, dir, files>>
    BY DEF Load
<1>2. CASE (Ok \/ Fault) /\ GiveUp
    BY <1>1, <1>2, LeaveKeeps DEF GiveUp, Goto
<1>3. CASE spec # None /\ Ok /\ Goto("mkdir") /\ UNCHANGED i
  <2>1. TypeOK'
      BY <1>1, <1>3 DEF TypeOK, Ok, Goto, Places
  <2>2. LoopProgress' /\ FilesKept' /\ Directories'
      BY <1>1, <1>3 DEF LoopProgress, Places, FilesKept, Directories, Ok, Goto
  <2>3. QED
      BY <2>1, <2>2
<1>4. QED
    BY <1>2, <1>3 DEF Load

\* Making the directory.
LEMMA MkDirKeeps == ASSUME SpecializeIInv, MkDir PROVE SpecializeIInv'
<1> USE DEF SpecializeIInv
<1>1. pc = "mkdir" /\ UNCHANGED <<spec, files>>
    BY DEF MkDir
<1>2. CASE dir # "none" /\ Ok /\ Goto("put") /\ UNCHANGED <<parent, dir, i>>
  <2>1. TypeOK'
      BY <1>1, <1>2 DEF TypeOK, Ok, Goto, Places
  <2>2. LoopProgress'
      BY <1>1, <1>2 DEF LoopProgress, Places, Ok, Goto
  <2>3. FilesKept' /\ Directories'
      BY <1>1, <1>2 DEF FilesKept, Directories, Ok, Goto
  <2>4. QED
      BY <2>1, <2>2, <2>3
<1>3. CASE /\ dir = "none" /\ parent = "ok" /\ Ok /\ Goto("linkdir")
           /\ parent' = "freed" /\ UNCHANGED <<dir, i>>
  <2>1. TypeOK'
      BY <1>1, <1>3 DEF TypeOK, Ok, Goto, Places
  <2>2. LoopProgress' /\ FilesKept' /\ Directories'
      BY <1>1, <1>3 DEF LoopProgress, Places, FilesKept, Directories, Ok, Goto
  <2>3. QED
      BY <2>1, <2>2
<1>4. CASE (Ok \/ Fault) /\ GiveUp /\ UNCHANGED <<parent, dir>>
    BY <1>1, <1>4, LeaveKeeps DEF GiveUp, Goto
<1>5. CASE Overwrites
    BY <1>1, <1>5, OverwritesKeeps
<1>6. QED
    BY <1>2, <1>3, <1>4, <1>5 DEF MkDir

\* Entering the new directory in its parent.
LEMMA LinkDirKeeps == ASSUME SpecializeIInv, LinkDir PROVE SpecializeIInv'
<1> USE DEF SpecializeIInv
<1>1. pc = "linkdir" /\ UNCHANGED <<spec, files>>
    BY DEF LinkDir
<1>2. CASE Ok /\ Goto("put") /\ parent' = "ok" /\ dir' = "ok" /\ UNCHANGED i
  <2>1. TypeOK'
      BY <1>1, <1>2 DEF TypeOK, Ok, Goto, Places, DirStates
  <2>2. LoopProgress'
      BY <1>1, <1>2 DEF LoopProgress, Places, Ok, Goto
  <2>3. FilesKept' /\ Directories'
      BY <1>1, <1>2 DEF FilesKept, Directories, Ok, Goto
  <2>4. QED
      BY <2>1, <2>2, <2>3
<1>3. CASE Fault /\ GiveUp /\ parent' \in {"freed", "ok"} /\ dir' \in {"none", "ok"}
    BY <1>1, <1>3, HurtLinkDirKeeps DEF GiveUp, Goto
<1>4. QED
    BY <1>2, <1>3 DEF LinkDir

\* The files before the next one are those before this one, and this one.
LEMMA NextFile ==
    ASSUME TypeOK, i <= Len(Names), NEW g,
           \A j \in 1 .. i - 1 : g[Names[j]] # None, g[Names[i]] # None
    PROVE  /\ i + 1 \in 1 .. Len(Names) + 1
           /\ \A j \in 1 .. (i + 1) - 1 : g[Names[j]] # None
<1>1. i \in Nat /\ Len(Names) \in Nat
    BY NamesAssumption DEF TypeOK
<1>2. \A j \in 1 .. (i + 1) - 1 : j \in 1 .. i - 1 \/ j = i
    BY <1>1
<1>3. QED
    BY <1>1, <1>2 DEF TypeOK

\* Storing a file up to its directory entry, or finding it there.
LEMMA PutKeeps == ASSUME SpecializeIInv, Put PROVE SpecializeIInv'
<1> USE DEF SpecializeIInv
<1>1. pc = "put" /\ i <= Len(Names) /\ UNCHANGED <<spec, files>>
    BY DEF Put
<1>2. CASE /\ files[Names[i]] # None /\ Ok
           /\ Goto("put") /\ i' = i + 1 /\ UNCHANGED <<parent, dir>>
  <2>1. /\ i' \in 1 .. Len(Names) + 1
        /\ \A j \in 1 .. i' - 1 : files[Names[j]] # None
      BY <1>1, <1>2, NextFile DEF LoopProgress
  <2>2. TypeOK'
      BY <1>1, <1>2, <2>1 DEF TypeOK, Ok, Goto, Places
  <2>3. LoopProgress'
      BY <1>1, <1>2, <2>1 DEF LoopProgress, Places, Ok, Goto
  <2>4. FilesKept' /\ Directories'
      BY <1>1, <1>2 DEF FilesKept, Directories, Ok, Goto
  <2>5. QED
      BY <2>2, <2>3, <2>4
<1>3. CASE /\ files[Names[i]] = None /\ dir = "ok" /\ Ok
           /\ Goto("link") /\ dir' = "freed" /\ UNCHANGED <<parent, i>>
  <2>1. TypeOK'
      BY <1>1, <1>3 DEF TypeOK, Ok, Goto, Places, DirStates
  <2>2. LoopProgress'
      BY <1>1, <1>3 DEF LoopProgress, Places, Ok, Goto
  <2>3. FilesKept' /\ Directories'
      BY <1>1, <1>3 DEF FilesKept, Directories, Ok, Goto
  <2>4. QED
      BY <2>1, <2>2, <2>3
<1>4. CASE (Ok \/ Fault) /\ GiveUp /\ UNCHANGED <<parent, dir>>
    BY <1>1, <1>4, LeaveKeeps DEF GiveUp, Goto
<1>5. CASE Overwrites
    BY <1>1, <1>5, OverwritesKeeps
<1>6. QED
    BY <1>2, <1>3, <1>4, <1>5 DEF Put

\* Entering a file in the directory.
LEMMA LinkKeeps == ASSUME SpecializeIInv, Link PROVE SpecializeIInv'
<1> USE DEF SpecializeIInv
<1>1. pc = "link" /\ UNCHANGED <<spec, parent>>
    BY DEF Link
<1>2. CASE /\ Ok /\ Goto("put") /\ i' = i + 1
           /\ dir' = "ok" /\ files' = WithFile(Names[i])
  <2>1. \A j \in 1 .. i - 1 : files'[Names[j]] = files[Names[j]]
    <3>1. \A j \in 1 .. i - 1 : Names[j] \in FileNames
        BY NamesAssumption DEF TypeOK, FileNames
    <3>2. QED
        BY <1>1, <1>2, <3>1, WithFileFacts DEF LoopProgress
  <2>2. /\ i' \in 1 .. Len(Names) + 1
        /\ \A j \in 1 .. i' - 1 : files'[Names[j]] # None
    <3> DEFINE g == files'
    <3>1. i <= Len(Names) /\ i' = i + 1
        BY <1>1, <1>2 DEF LoopProgress
    <3>2. g[Names[i]] # None
        BY <1>1, <1>2, WithFileFacts
    <3>3. \A j \in 1 .. i - 1 : g[Names[j]] # None
        BY <1>1, <2>1 DEF LoopProgress
    <3> HIDE DEF g
    <3>4. /\ i + 1 \in 1 .. Len(Names) + 1
          /\ \A j \in 1 .. (i + 1) - 1 : g[Names[j]] # None
        BY <3>1, <3>2, <3>3, NextFile
    <3>5. QED
        BY <3>1, <3>4 DEF g
  <2>3. TypeOK'
      BY <1>1, <1>2, <2>2, WithFileFacts DEF TypeOK, Ok, Goto, Places, DirStates
  <2>4. LoopProgress'
      BY <1>1, <1>2, <2>2 DEF LoopProgress, Places, Goto
  <2>5. FilesKept'
      BY <1>1, <1>2, WithFileFacts DEF FilesKept, Ok
  <2>6. Directories'
      BY <1>1, <1>2 DEF Directories, Ok, Goto
  <2>7. QED
      BY <2>3, <2>4, <2>5, <2>6
<1>3. CASE /\ Fault /\ GiveUp /\ dir' \in {"freed", "ok"}
           /\ files' \in {files, WithFile(Names[i])}
    BY <1>1, <1>3, HurtLinkKeeps DEF GiveUp, Goto
<1>4. QED
    BY <1>2, <1>3 DEF Link

\* The loop ends with every file there; deleting the archive; restarting.
LEMMA RestKeeps ==
    ASSUME SpecializeIInv, PutsDone \/ Delete \/ Boot
    PROVE  SpecializeIInv'
<1> USE DEF SpecializeIInv
<1>1. CASE PutsDone
  <2>1. \A n \in FileNames : files[n] # None
    <3>1. i = Len(Names) + 1
        BY <1>1, NamesAssumption DEF PutsDone, TypeOK
    <3>2. \A j \in 1 .. Len(Names) : files[Names[j]] # None
        BY <1>1, <3>1, NamesAssumption DEF PutsDone, LoopProgress
    <3>3. QED
        BY <3>2 DEF FileNames
  <2>2. TypeOK'
      BY <1>1 DEF PutsDone, TypeOK, Ok, Goto, Places
  <2>3. LoopProgress' /\ FilesKept' /\ Directories'
      BY <1>1, <2>1 DEF PutsDone, LoopProgress, Places, FilesKept, Directories, Ok, Goto
  <2>4. QED
      BY <2>2, <2>3
<1>2. CASE Delete /\ Fault /\ spec' = spec
  <2>1. pc = "delete" /\ pc' = "booted" /\ i' = 1 /\ UNCHANGED <<parent, dir, files>>
      BY <1>2 DEF Delete, GiveUp, Goto
  <2>2. QED
      BY <1>2, <2>1, LeaveKeeps
<1>3. CASE Delete /\ Ok /\ spec' = None
  <2>1. pc = "delete" /\ pc' = "booted" /\ i' = 1 /\ UNCHANGED <<parent, dir, files>>
      BY <1>3 DEF Delete, GiveUp, Goto
  <2>2. TypeOK'
      BY <1>3, <2>1, NamesAssumption DEF TypeOK, Ok, Places
  <2>3. LoopProgress' /\ FilesKept' /\ Directories'
      BY <1>3, <2>1 DEF LoopProgress, Places, FilesKept, Directories, Ok
  <2>4. QED
      BY <2>2, <2>3
<1>4. CASE Boot
  <2>1. pc = "booted" /\ i = 1 /\ i' = 1
      BY <1>4 DEF Boot, LoopProgress
  <2>2. QED
      BY <1>4, <2>1, LeaveKeeps DEF Boot, Goto
<1>5. QED
    BY <1>1, <1>2, <1>3, <1>4 DEF Delete

\* A reset anywhere in the call.
LEMMA CrashKeeps == ASSUME SpecializeIInv, Crash PROVE SpecializeIInv'
<1>1. /\ pc \in Places /\ Fault /\ pc' = "load" /\ i' = 1 /\ spec' = spec
    BY DEF Crash, Goto
<1>2. CASE pc = "linkdir"
    BY <1>1, <1>2, HurtLinkDirKeeps DEF Crash
<1>3. CASE pc = "link"
  <2>1. /\ dir' \in {"freed", "ok"} /\ parent' = parent
        /\ files' \in {files, WithFile(Names[i])}
      BY <1>3 DEF Crash
  <2>2. QED
      BY <1>1, <1>3, <2>1, HurtLinkKeeps
<1>4. CASE pc \notin {"linkdir", "link"}
  <2>1. UNCHANGED <<parent, dir, files>>
      BY <1>4 DEF Crash
  <2>2. QED
      BY <1>1, <1>4, <2>1, LeaveKeeps
<1>5. QED
    BY <1>2, <1>3, <1>4

\* The host stores an archive: the files there are now the ones there were.
LEMMA DeliverKeeps ==
    ASSUME SpecializeIInv, NEW v \in Versions, Deliver(v)
    PROVE  SpecializeIInv'
<1> USE DEF SpecializeIInv
<1>1. TypeOK'
    BY DEF Deliver, TypeOK
<1>2. LoopProgress' /\ FilesKept' /\ Directories'
    BY DEF Deliver, LoopProgress, Places, FilesKept, Directories
<1>3. QED
    BY <1>1, <1>2

\* Every step of the call, every reset and every delivery keep the invariant.
LEMMA NextIInv == ASSUME SpecializeIInv, [Next]_vars PROVE SpecializeIInv'
<1>1. CASE UNCHANGED vars
    BY <1>1 DEF vars, SpecializeIInv, TypeOK, LoopProgress, FilesKept, Directories
<1>2. QED
    BY <1>1, LoadKeeps, MkDirKeeps, LinkDirKeeps, PutKeeps, LinkKeeps, RestKeeps,
       CrashKeeps, DeliverKeeps DEF Next, Step

\* The state a boot leaves half done is always one of those SpecializeIInv names.
THEOREM SpecializeInductive == Spec => []SpecializeIInv
<1>1. Init => SpecializeIInv
    BY InitIInv
<1>2. SpecializeIInv /\ [Next]_vars => SpecializeIInv'
    BY NextIInv
<1>3. QED
    BY <1>1, <1>2, PTL DEF Spec

\* However often unpacking was begun and given up, the next boot finds
\* directories it can write to, unless a fault has hit the rewriting of one.
THEOREM DirectoriesStayUsable == Spec => []SpecializeInv
<1>1. SpecializeIInv => SpecializeInv
    BY Zenon DEF SpecializeIInv, SpecializeInv, Directories, DirectoriesUsable, Updating
<1>2. QED
    BY <1>1, SpecializeInductive, PTL

\* Only Delete takes the archive away, and then every file is in place.
LEMMA StepCopies ==
    ASSUME SpecializeIInv, [Next]_vars, spec # None, spec' = None,
           NEW n \in FileNames
    PROVE  files[n] # None /\ (before[n] = None => files[n] = spec)
<1>1. pc = "delete"
    BY NoneAssumption
       DEF Next, Step, vars, Load, MkDir, LinkDir, Put, Link, PutsDone, Delete, Boot,
           Crash, Deliver
<1>2. files[n] # None
    BY <1>1 DEF SpecializeIInv, LoopProgress
<1>3. QED
    BY <1>2 DEF SpecializeIInv, FilesKept

\* specialization.aes is deleted only when every file of it is on the boot
\* partition, with its own contents unless the name was in use before it came
\* (DeleteFile after the loop of EXT2Put in specialize.c).
THEOREM NothingDeletedUncopied == Spec => CopiedBeforeDelete
<1>1. SpecializeIInv /\ [Next]_vars =>
        [spec # None /\ spec' = None =>
           \A n \in FileNames : files[n] # None /\ (before[n] = None => files[n] = spec)]_vars
    BY StepCopies
<1>2. QED
    BY <1>1, SpecializeInductive, PTL DEF Spec, CopiedBeforeDelete
=============================================================================
