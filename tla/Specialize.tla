------------------------------ MODULE Specialize ------------------------------
(***************************************************************************)
(* LoadDecryptCopySpecializeFile (lsvmload/specialize.c): the host leaves  *)
(* an encrypted file specialization.aes on the EFI partition; a boot       *)
(* unpacks it into boot:/lsvmload/specialize and deletes it.  A boot that  *)
(* fails or is cut short leaves it for the next one to try again.          *)
(*                                                                         *)
(* The EXT2 operations are modelled as far as their order on the disk      *)
(* matters: EXT2Put writes the file's blocks and inode first and its       *)
(* directory entry last (_AddDirectoryEntry), and a directory is rewritten *)
(* by marking its blocks free, writing the new blocks and then the inode.  *)
(* Blocks are allocated first free first, so blocks of a directory that a  *)
(* reset left marked free may be taken for other data: from then on the    *)
(* file system is corrupt and the model follows it no further.             *)
(*                                                                         *)
(* Writes go to the disk: caching is turned on after this call.  That the  *)
(* disk is not full is assumed here.                                       *)
(***************************************************************************)
EXTENDS Integers, Sequences

CONSTANTS
    Names,      \* the files in a specialization, in order
    Versions,   \* the specializations the host may deliver
    None,       \* no such file
    MaxFaults   \* bound on failed calls and resets during the call

ASSUME NamesAssumption ==
    /\ Len(Names) \in Nat
    /\ \A k, j \in 1 .. Len(Names) : Names[k] = Names[j] => k = j
ASSUME NoneAssumption == None \notin Versions
ASSUME FaultsAssumption == MaxFaults \in Nat

FileNames == {Names[k] : k \in 1 .. Len(Names)}

VARIABLES
    spec,      \* the version in specialization.aes, or None
    parent,    \* boot:/lsvmload
    dir,       \* boot:/lsvmload/specialize
    files,     \* its entries: the version of each file's contents
    pc,        \* where the call is; "booted" after it, or "corrupt"
    i,         \* index of the loop over the files
    faults,    \* faults that may still happen
    hurt,      \* history: a fault has hit the update of a directory
    before     \* history: the files there were when spec was delivered

vars == <<spec, parent, dir, files, pc, i, faults, hurt, before>>

\* A directory: absent, consistent, or with its blocks marked free.
DirStates == {"none", "ok", "freed"}
NoFiles == [n \in FileNames |-> None]
Places == {"load", "mkdir", "linkdir", "put", "link", "delete"}

\* A directory is being rewritten, its blocks marked free.
Updating == pc \in {"linkdir", "link"}

Ok == UNCHANGED <<faults, hurt, before>>
Fault ==
    /\ faults > 0 /\ faults' = faults - 1
    /\ hurt' = (hurt \/ Updating)
    /\ UNCHANGED before
Goto(p) == pc' = p

\* "goto done": the failure is logged and the boot goes on.
GiveUp == Goto("booted") /\ i' = 1

Init ==
    /\ spec \in Versions \cup {None}
    /\ parent = "ok" /\ dir = "none" /\ files = NoFiles
    /\ pc = "load" /\ i = 1
    /\ faults = MaxFaults /\ hurt = FALSE /\ before = NoFiles

\* FileExists, EFILoadFile, _IsValidHeader, the decryption, ExtractSpecFiles.
Load ==
    /\ pc = "load"
    /\ \/ spec = None /\ Ok /\ GiveUp
       \/ spec # None /\ Ok /\ Goto("mkdir") /\ UNCHANGED i
       \/ spec # None /\ Fault /\ GiveUp
    /\ UNCHANGED <<spec, parent, dir, files>>

\* The blocks just allocated were those of a directory.
Overwrites ==
    /\ "freed" \in {parent, dir}
    /\ Ok /\ Goto("corrupt") /\ i' = 1
    /\ UNCHANGED <<parent, dir>>

\* Mutant of MkDir: it fails for a directory that is there, as its comment says.
MkDirFailsIfExists ==
    /\ pc = "mkdir" /\ Ok
    /\ \/ dir # "none" /\ GiveUp /\ UNCHANGED parent
       \/ dir = "none" /\ parent = "ok" /\ Goto("linkdir")
            /\ parent' = "freed" /\ UNCHANGED i
    /\ UNCHANGED <<spec, dir, files>>

\* EXT2MkDir.  For a directory that is there it returns the EXT2_ERR_NONE of
\* the lookup.  _PutBlocks refuses to free what is free already.
MkDir ==
    /\ pc = "mkdir"
    /\ \/ dir # "none" /\ Ok /\ Goto("put") /\ UNCHANGED <<parent, dir, i>>
       \/ dir = "none" /\ parent = "ok" /\ Ok /\ Goto("linkdir")
            /\ parent' = "freed" /\ UNCHANGED <<dir, i>>
       \/ dir = "none" /\ parent = "freed" /\ Ok /\ GiveUp /\ UNCHANGED <<parent, dir>>
       \/ dir = "none" /\ Overwrites
       \/ Fault /\ GiveUp /\ UNCHANGED <<parent, dir>>
    /\ UNCHANGED <<spec, files>>

\* _AddDirectoryEntry of the new directory, its blocks being free: a failure
\* comes before or after the entry and the bitmap are written.
LinkDir ==
    /\ pc = "linkdir"
    /\ \/ Ok /\ Goto("put") /\ parent' = "ok" /\ dir' = "ok" /\ UNCHANGED i
       \/ Fault /\ GiveUp /\ parent' \in {"freed", "ok"} /\ dir' \in {"none", "ok"}
    /\ UNCHANGED <<spec, files>>

\* Mutant of Put: its result is not looked at.
PutUnchecked ==
    /\ pc = "put" /\ i <= Len(Names)
    /\ \/ /\ files[Names[i]] # None /\ Ok
          /\ Goto("put") /\ i' = i + 1 /\ UNCHANGED dir
       \/ /\ files[Names[i]] = None /\ dir = "ok" /\ Ok
          /\ Goto("link") /\ dir' = "freed" /\ UNCHANGED i
       \/ Fault /\ Goto("put") /\ i' = i + 1 /\ UNCHANGED dir
    /\ UNCHANGED <<spec, parent, files>>

\* EXT2Put of file i.  A file that is there is left as it is, and the result
\* is the EXT2_ERR_NONE of the lookup.  Otherwise _WriteData takes the first
\* free blocks, then _AddDirectoryEntry frees those of the directory.
Put ==
    /\ pc = "put" /\ i <= Len(Names)
    /\ \/ /\ files[Names[i]] # None /\ Ok
          /\ Goto("put") /\ i' = i + 1 /\ UNCHANGED <<parent, dir>>
       \/ /\ files[Names[i]] = None /\ dir = "ok" /\ Ok
          /\ Goto("link") /\ dir' = "freed" /\ UNCHANGED <<parent, i>>
       \/ /\ files[Names[i]] = None /\ dir = "freed" /\ Ok
          /\ GiveUp /\ UNCHANGED <<parent, dir>>
       \/ files[Names[i]] = None /\ Overwrites
       \/ Fault /\ GiveUp /\ UNCHANGED <<parent, dir>>
    /\ UNCHANGED <<spec, files>>

WithFile(n) == [files EXCEPT ![n] = spec]

\* Mutant of Link: the bitmap is not written back.
LinkForgetsBitmap ==
    /\ pc = "link" /\ Ok /\ Goto("put") /\ i' = i + 1
    /\ files' = WithFile(Names[i])
    /\ UNCHANGED <<spec, parent, dir>>

\* _AddDirectoryEntry of file i, the directory's blocks being free.
Link ==
    /\ pc = "link"
    /\ \/ /\ Ok /\ Goto("put") /\ i' = i + 1
          /\ dir' = "ok" /\ files' = WithFile(Names[i])
       \/ /\ Fault /\ GiveUp /\ dir' \in {"freed", "ok"}
          /\ files' \in {files, WithFile(Names[i])}
    /\ UNCHANGED <<spec, parent>>

PutsDone ==
    /\ pc = "put" /\ i > Len(Names) /\ Ok
    /\ Goto("delete")
    /\ UNCHANGED <<spec, parent, dir, files, i>>

\* DeleteFile of specialization.aes.
Delete ==
    /\ pc = "delete" /\ GiveUp
    /\ \/ Ok /\ spec' = None
       \/ Fault /\ UNCHANGED spec
    /\ UNCHANGED <<parent, dir, files>>

\* The machine is restarted; the loader comes to this call again.
Boot ==
    /\ pc = "booted" /\ Ok /\ Goto("load")
    /\ UNCHANGED <<spec, parent, dir, files, i>>

\* The machine is reset during the call.  While a directory's blocks are free
\* its new contents may have been written over the old ones.
Crash ==
    /\ pc \in Places /\ Fault
    /\ Goto("load") /\ i' = 1
    /\ parent' \in IF pc = "linkdir" THEN {"freed", "ok"} ELSE {parent}
    /\ dir' \in CASE pc = "linkdir" -> {"none", "ok"}
                  [] pc = "link" -> {"freed", "ok"}
                  [] OTHER -> {dir}
    /\ files' \in IF pc = "link" THEN {files, WithFile(Names[i])} ELSE {files}
    /\ UNCHANGED spec

\* The host stores a specialization, over the one there may be.
Deliver(v) ==
    /\ pc \in {"booted", "corrupt"}
    /\ spec' = v
    /\ before' = files
    /\ UNCHANGED <<parent, dir, files, pc, i, faults, hurt>>

Step == Load \/ MkDir \/ LinkDir \/ Put \/ Link \/ PutsDone \/ Delete \/ Boot

Next == Step \/ Crash \/ (\E v \in Versions : Deliver(v))

Spec == Init /\ [][Next]_vars

\* The call runs to its end and the machine is started again some time.
FairSpec == Spec /\ WF_vars(Step)

-----------------------------------------------------------------------------
(* Properties.                                                             *)

\* The types of the variables; the loop stays inside the list of files.
TypeOK ==
    /\ spec \in Versions \cup {None}
    /\ parent \in {"ok", "freed"} /\ dir \in DirStates
    /\ files \in [FileNames -> Versions \cup {None}]
    /\ pc \in Places \cup {"booted", "corrupt"}
    /\ i \in 1 .. Len(Names) + 1
    /\ faults \in 0 .. MaxFaults /\ hurt \in BOOLEAN
    /\ before \in [FileNames -> Versions \cup {None}]

\* specialization.aes is deleted only when every file of it is on the boot
\* partition, whatever boots before failed or were cut short and left half done
\* (specialize.c: "Copy file to boot partition"), and with its own contents where
\* the name was free when the archive came.  What EXT2Put does with a name that
\* was in use then is not what its comments say (Ext2, ExistingReplaced), and
\* nothing is claimed of such a file but that there is one.
CopiedBeforeDelete ==
    [][spec # None /\ spec' = None =>
         \A n \in FileNames : files[n] # None /\ (before[n] = None => files[n] = spec)]_vars

\* However often unpacking was begun and given up, the directories are ones the
\* next boot, and the kernel, can write to, unless a fault has hit the rewriting
\* of a directory itself (ext2.c, _AddDirectoryEntry: "Return all directory
\* blocks to the free list" comes first).
DirectoriesUsable ==
    \/ hurt
    \/ pc # "corrupt" /\ (~Updating => parent = "ok" /\ dir \in {"none", "ok"})

\* A specialization that is delivered is unpacked in the end, however its
\* first boots fail, if the machine is restarted often enough and no fault hits
\* the rewriting of a directory.
EventuallyUnpacked == (spec # None) ~> (spec = None \/ hurt)

\* What one boot leaves to the next (LoadDecryptCopySpecializeFile): a state of
\* the directories that unpacking can start from.
SpecializeInv == TypeOK /\ DirectoriesUsable
=============================================================================
