------------------------------- MODULE Lsvmload -------------------------------
(***************************************************************************)
(* The boot sequence of lsvmload/main.c (efi_main) with the calls it makes *)
(* in keys.c, bootfs.c, rootfs.c, dbxupdate.c, initrd.c and shim.c, over   *)
(* many boots of one machine.  A boot can be cut short anywhere by a reset *)
(* and any call can fail; both are faults, of which there are MaxFaults.   *)
(*                                                                         *)
(* The keys in the file 'sealedkeys' can be unsealed only while PCR[7] and *)
(* PCR[11] have the values they were sealed for.  The firmware measures    *)
(* the dbx variable into PCR[7] when the machine starts, so applying a DBX *)
(* update means resealing the keys.  A value of dbx is the set of updates  *)
(* appended to it.                                                         *)
(***************************************************************************)
EXTENDS Integers

CONSTANTS
    Updates,        \* the DBX updates there are
    NoUpdate,       \* no file dbxupdate.bin
    Lost,           \* no usable file sealedkeys
    MaxFaults       \* bound on failed calls and unwanted resets

ASSUME FaultsAssumption == MaxFaults \in Nat
ASSUME UpdatesAssumption == 
    /\ NoUpdate \notin Updates
    /\ \A S \in SUBSET Updates : S # Lost

VARIABLES
    dbx,       \* the UEFI variable: the updates appended so far
    update,    \* boot:/lsvmload/dbxupdate.bin: [content, state]
    sealed,    \* the dbx 'sealedkeys' is sealed for, or Lost
    pc,        \* where efi_main is
    tpm,       \* haveTPM, and the registers: [have, pcr7, pcr11]
    globals,   \* the part of struct _Globals that matters, and locals
    faults,    \* faults that may still happen
    hurt       \* history: the critical parts a fault has hit

vars == <<dbx, update, sealed, pc, tpm, globals, faults, hurt>>
disk == <<dbx, update, sealed>>

\* The three measurements of MeasureLinuxScenario, none or only some of them
\* made, all made, and the register capped.
PCR11s == {"zero", "part", "scenario", "capped"}

\* Whose bytes globals.bootkeyData holds: what the TPM unsealed, what was
\* typed, right or wrong.
Bootkeys == {"none", "sealed", "typed", "wrong"}

Globals ==
    [keysFound : BOOLEAN,              \* bootkeyFound and rootkeyFound
     bootkey : Bootkeys,               \* bootkeyData
     bootdev : BOOLEAN,                \* bootdev and cachedev are set
     bootfs : BOOLEAN,                 \* the boot file system is open
     unsealedBootkeyValid : BOOLEAN,
     rootkeyValid : BOOLEAN,
     tries : 0 .. 3,                   \* passphrases asked for
     caching : BOOLEAN,                \* flags of cachedev
     data : {"none", "read", "empty"}, \* what ApplyDBXUpdate has loaded
     blob : {"none", "sealed", "unset"}, \* sealedkeysData of ApplyDBXUpdate
     initrd : {"original", "patched", "gone"}]  \* as bootfs shows it

NoGlobals ==
    [keysFound |-> FALSE, bootkey |-> "none", bootdev |-> FALSE,
     bootfs |-> FALSE, unsealedBootkeyValid |-> FALSE, rootkeyValid |-> FALSE,
     tries |-> 0, caching |-> FALSE, data |-> "none", blob |-> "none", initrd |-> "original"]

\* The file dbxupdate.bin: absent, whole, with its blocks marked free but its
\* inode still listing them, or truncated.
FileStates == {"none", "whole", "freed", "empty"}
NoFile == [content |-> NoUpdate, state |-> "none"]
File(u) == [content |-> u, state |-> "whole"]

\* The critical parts: between SetVariable and the end of EFIPutFile, and inside
\* EXT2Rm.
Reseal == {"seal", "delete", "write"}
Removing == {"remove", "truncate", "unlink"}
Loader == {"start", "init", "measure", "unseal", "cap", "open", "root", "ask",
           "specialize", "load", "set", "reset", "initrd", "inject", "put",
           "shim"} \cup Reseal \cup Removing

-----------------------------------------------------------------------------

Ok == UNCHANGED <<faults, hurt>>
Fault ==
    /\ faults > 0
    /\ faults' = faults - 1
    /\ hurt' = hurt \cup (CASE pc \in Reseal -> {"reseal"}
                            [] pc \in Removing -> {"remove"}
                            [] OTHER -> {})

At(p) == pc = p
Goto(p) == pc' = p

\* "goto done": "No operating system was loaded".
Stop == Goto("stopped") /\ UNCHANGED <<disk, tpm, globals>>

\* The call at p fails and efi_main gives up.
StopsAt(p) == At(p) /\ Fault /\ Stop

Set(g) == globals' = g

\* A machine prepared by lsvmprep: the keys are sealed for the dbx there is.
Init ==
    /\ dbx \in SUBSET Updates
    /\ sealed = dbx
    /\ update \in {NoFile} \cup {File(u) : u \in Updates}
    /\ pc = "start"
    /\ tpm = [have |-> FALSE, pcr7 |-> dbx, pcr11 |-> "zero"]
    /\ globals = NoGlobals
    /\ faults = MaxFaults /\ hurt = {}

\* ResolvePaths, LoadConf, TCG2_GetProtocol (each may fail: StopsAt), then
\* TPM2X_CheckTPMPresentFlag, without which haveTPM stays FALSE.
Start ==
    /\ At("start") /\ Ok /\ Goto("init")
    /\ \E h \in BOOLEAN : tpm' = [tpm EXCEPT !.have = h]
    /\ UNCHANGED <<disk, globals>>

Initialize ==
    /\ At("init") /\ Ok /\ Goto("measure")
    /\ UNCHANGED <<disk, tpm, globals>>

\* Three extensions of PCR[11]; a failure after the first leaves "part".
MeasureLinuxScenario ==
    /\ At("measure")
    /\ \/ /\ Ok /\ Goto("unseal")
          /\ tpm' = IF tpm.have THEN [tpm EXCEPT !.pcr11 = "scenario"] ELSE tpm
       \/ /\ tpm.have /\ Fault /\ Goto("stopped")
          /\ tpm' \in {tpm, [tpm EXCEPT !.pcr11 = "part"]}
    /\ UNCHANGED <<disk, globals>>

\* What the TPM checks in TPM2X_Unseal with the mask PCR[7,11] (external).
CanUnseal == tpm.have /\ tpm.pcr7 = sealed /\ tpm.pcr11 = "scenario"

\* LoadSealedData, UnsealKey, SplitKeys; a failure is only logged: "Will ask
\* for passphrase later".
UnsealKeys ==
    /\ At("unseal") /\ Goto("cap")
    /\ \/ /\ CanUnseal /\ Ok
          /\ Set([globals EXCEPT !.keysFound = TRUE, !.bootkey = "sealed"])
       \/ /\ IF CanUnseal THEN Fault ELSE Ok
          /\ Set(globals)
    /\ UNCHANGED <<disk, tpm>>

\* CapPCR: a failing TPM2X_Cap, and a read of the register that fails or
\* shows no change, all end the boot.
CapPCR ==
    /\ At("cap")
    /\ \/ /\ Ok /\ Goto("open")
          /\ tpm' = IF tpm.have THEN [tpm EXCEPT !.pcr11 = "capped"] ELSE tpm
       \/ /\ tpm.have /\ Fault /\ Goto("stopped")
          /\ tpm' \in {tpm, [tpm EXCEPT !.pcr11 = "capped"]}
    /\ UNCHANGED <<disk, globals>>

\* OpenBootFS with a key that does or does not unlock the partition:
\* GetBootDevice returns the boot device there is whatever the key, and an
\* EXT2New that fails leaves it there.  g is globals afterwards.
Unlocked == [globals EXCEPT !.bootdev = TRUE]
Mounted == [globals EXCEPT !.bootdev = TRUE, !.bootfs = TRUE]
OpenBootFS(unlocks, g) ==
    \/ (globals.bootdev \/ unlocks) /\ Ok /\ g = Mounted
    \/ (globals.bootdev \/ unlocks) /\ Fault /\ g = Unlocked
    \/ ~globals.bootdev /\ (IF unlocks THEN Fault ELSE Ok) /\ g = globals

\* "Try to unlock the boot parition with the unsealed bootkey".
TryUnsealedBootkey ==
    /\ At("open") /\ Goto("root")
    /\ \/ globals.bootkey = "none" /\ Ok /\ Set(globals)
       \/ /\ globals.bootkey # "none"
          /\ \E g \in {globals, Unlocked, Mounted} :
              /\ OpenBootFS(TRUE, g)
              /\ Set(IF g.bootfs THEN [g EXCEPT !.unsealedBootkeyValid = TRUE]
                                 ELSE [g EXCEPT !.bootkey = "none"])
    /\ UNCHANGED <<disk, tpm>>

\* rootkeyData is null when the keys were not unsealed: "bad root device key".
TestRootDevice ==
    /\ At("root")
    /\ Goto(IF globals.unsealedBootkeyValid THEN "specialize" ELSE "ask")
    /\ \/ globals.keysFound /\ Ok /\ Set([globals EXCEPT !.rootkeyValid = TRUE])
       \/ (IF globals.keysFound THEN Fault ELSE Ok) /\ Set(globals)
    /\ UNCHANGED <<disk, tpm>>

\* The condition of the loop.
MoreTries == globals.tries < 3

\* "Ask for passphrase up to N times".  Someone types a passphrase, right or
\* wrong; GetInput can fail, and so can the copy of a passphrase that worked.
AskPassphrase ==
    /\ At("ask") /\ MoreTries
    /\ \/ /\ Fault /\ Goto("ask")
          /\ Set([globals EXCEPT !.tries = @ + 1])
       \/ \E typed \in {"typed", "wrong"}, g \in {globals, Unlocked, Mounted} :
           /\ OpenBootFS(typed = "typed", g)
           /\ IF g.bootfs
              THEN Goto("specialize") /\ Set([g EXCEPT !.bootkey = typed])
              ELSE Goto("ask") /\ Set([g EXCEPT !.tries = @ + 1])
       \/ Fault /\ Goto("stopped") /\ Set(Mounted)
    /\ UNCHANGED <<disk, tpm>>

\* "failed to open the boot partition".
AskedEnough == At("ask") /\ ~MoreTries /\ Ok /\ Stop

\* Mutants of SpecializeThenFreeze: the initrd is patched although the unsealed
\* key did not open the partition; ApplyDBXUpdate is not called.
SpecializeThenPatch ==
    /\ At("specialize") /\ Ok
    /\ Goto(IF tpm.have /\ globals.unsealedBootkeyValid THEN "load" ELSE "initrd")
    /\ Set([globals EXCEPT !.caching = TRUE])
    /\ UNCHANGED <<disk, tpm>>
SpecializeNoUpdate ==
    /\ At("specialize") /\ Ok
    /\ Goto(IF globals.unsealedBootkeyValid THEN "initrd" ELSE "shim")
    /\ Set([globals EXCEPT !.caching = TRUE])
    /\ UNCHANGED <<disk, tpm>>

\* LoadDecryptCopySpecializeFile, whose outcome is only logged (see module
\* Specialize), then "Disable writes to boot device".
SpecializeThenFreeze ==
    /\ At("specialize") /\ Ok
    /\ Goto(CASE ~globals.unsealedBootkeyValid -> "shim"
              [] globals.unsealedBootkeyValid /\ tpm.have -> "load"
              [] OTHER -> "initrd")
    /\ Set([globals EXCEPT !.caching = TRUE])
    /\ UNCHANGED <<disk, tpm>>

-----------------------------------------------------------------------------
(* ApplyDBXUpdate.  It sets reboot to TRUE first, and from SetVariable on its *)
(* status is EFI_SUCCESS, so every later failure ends in a reset.          *)

\* "No DBX updates found": also when the file cannot be read, unless it is a read
\* of several blocks that fails: EXT2LoadFileFromInode drops the error and
\* returns success with no data.
LoadUpdate ==
    /\ At("load")
    /\ \/ update = NoFile /\ Ok /\ Goto("initrd") /\ Set(globals)
       \/ /\ update # NoFile /\ Ok /\ Goto("set")
          /\ Set([globals EXCEPT
                   !.data = IF update.state = "empty" THEN "empty" ELSE "read"])
       \/ update # NoFile /\ Fault /\ Goto("initrd") /\ Set(globals)
       \/ /\ update.state \in {"whole", "freed"} /\ Fault /\ Goto("set")
          /\ Set([globals EXCEPT !.data = "empty"])
    /\ UNCHANGED <<disk, tpm>>

\* Mutant of SetVariable: its status is not looked at.
SetVariableUnchecked ==
    /\ At("set") /\ Goto("seal")
    /\ \/ Ok /\ dbx' = IF globals.data = "empty" THEN dbx ELSE dbx \cup {update.content}
       \/ Fault /\ dbx' = dbx
    /\ UNCHANGED <<update, sealed, tpm, globals>>

\* Appends the file's update.  What the firmware makes of no data is its own
\* affair (external): nothing is appended, or the call fails.
SetVariable ==
    /\ At("set") /\ Ok
    /\ \/ /\ Goto("seal")
          /\ dbx' = IF globals.data = "empty" THEN dbx
                    ELSE dbx \cup {update.content}
       \/ globals.data = "empty" /\ Goto("stopped") /\ dbx' = dbx
    /\ UNCHANGED <<update, sealed, tpm, globals>>

\* Mutant of SealedBlob: the blob is for the registers as they are.
BlobForRegisters == tpm.pcr7

\* The blob SealLSVMLoadPolicy makes: the policy computes PCR[7] from the
\* variables as they are now, not from the register.
SealedBlob == dbx

\* _TestSecureBootVariable, EFILoadFile, SealLSVMLoadPolicy.  TPM2X_Seal does
\* not keep the result of TPM2X_BuildPolicy: if that failed it returns success,
\* and what is serialized is a blob that was never set.
SealLSVMLoadPolicy ==
    /\ At("seal")
    /\ \/ Ok /\ Goto("delete") /\ Set([globals EXCEPT !.blob = "sealed"])
       \/ Fault /\ Goto("delete") /\ Set([globals EXCEPT !.blob = "unset"])
       \/ Fault /\ Goto("reset") /\ Set(globals)
    /\ UNCHANGED <<disk, tpm>>

\* EFIPutFile: "Delete file if it already exists", result not looked at.
DeleteSealedKeys ==
    /\ At("delete") /\ Goto("write")
    /\ \/ Ok /\ sealed' = Lost
       \/ Fault /\ sealed' = sealed
    /\ UNCHANGED <<dbx, update, tpm, globals>>

\* Mutant of WriteSealedKeys: the file is not written.
WriteForgotten ==
    /\ At("write") /\ Ok /\ Goto("remove")
    /\ UNCHANGED <<disk, tpm, globals>>

\* EFIPutFile: the file is created and written; a failed or partial write
\* leaves nothing usable, unless it failed before it touched an old file.
WriteSealedKeys ==
    /\ At("write")
    /\ \/ /\ Ok /\ Goto("remove")
          /\ sealed' = IF globals.blob = "sealed" THEN SealedBlob ELSE Lost
       \/ Fault /\ sealed' \in {sealed, Lost} /\ Goto("reset")
    /\ UNCHANGED <<dbx, update, tpm, globals>>

\* The state of dbxupdate.bin on the disk becomes one of S.
FileBecomes(S) == \E st \in S : update' = [update EXCEPT !.state = st]

\* Mutant of FreeBlocks: the file is not removed.
RemoveForgotten ==
    /\ At("remove") /\ Ok /\ Goto("reset")
    /\ UNCHANGED <<disk, tpm, globals>>

\* Caching off, then EXT2Rm, "Truncate the file first": _PutBlocks frees the
\* blocks.  Its "Sanity check" fails if they are free already.  For a file with
\* no blocks Malloc(0) may fail; if it does not, _Sort runs up to nblks - 1 =
\* 2^32 - 1, far past the end of its array, and does not come back.
FreeBlocks ==
    /\ At("remove")
    /\ \/ update.state = "whole" /\ Ok /\ Goto("truncate") /\ FileBecomes({"freed"})
       \/ update.state = "whole" /\ Fault /\ Goto("reset")
            /\ FileBecomes({"whole", "freed"})
       \/ update.state = "freed" /\ Ok /\ Goto("reset") /\ update' = update
       \/ update.state = "empty" /\ Ok /\ pc' \in {"reset", "hung"} /\ update' = update
    /\ UNCHANGED <<dbx, sealed, tpm, globals>>

\* EXT2Trunc: "Rewrite the inode".
Truncate ==
    /\ At("truncate")
    /\ \/ Ok /\ Goto("unlink") /\ FileBecomes({"empty"})
       \/ Fault /\ Goto("reset") /\ FileBecomes({"freed", "empty"})
    /\ UNCHANGED <<dbx, sealed, tpm, globals>>

\* EXT2Rm: the directory is rewritten without the entry; caching on again.
Unlink ==
    /\ At("unlink") /\ Goto("reset")
    /\ \/ Ok /\ update' = NoFile
       \/ Fault /\ update' \in {update, NoFile}
    /\ UNCHANGED <<dbx, sealed, tpm, globals>>

\* A reset: the firmware measures dbx and starts lsvmload again.
Restart ==
    /\ Goto("start")
    /\ tpm' = [have |-> FALSE, pcr7 |-> dbx, pcr11 |-> "zero"]
    /\ globals' = NoGlobals
    /\ UNCHANGED disk

ResetSystem == At("reset") /\ Ok /\ Restart

-----------------------------------------------------------------------------
(* PatchInitrd and StartShim.                                              *)

GetInitrdPath ==
    /\ At("initrd") /\ Ok
    /\ Goto(IF globals.rootkeyValid /\ globals.keysFound THEN "inject" ELSE "shim")
    /\ UNCHANGED <<disk, tpm, globals>>

\* LoadFileFromBootFS, InitrdInjectFiles and EXT2Rm of the initrd, which fails
\* before or after it spoilt the file.
InjectFiles ==
    /\ At("inject")
    /\ \/ Ok /\ Goto("put") /\ Set([globals EXCEPT !.initrd = "gone"])
       \/ Fault /\ Goto("shim") /\ Set(globals)
       \/ Fault /\ Goto("shim") /\ Set([globals EXCEPT !.initrd = "gone"])
    /\ UNCHANGED <<disk, tpm>>

\* EXT2Put of the new one; efi_main goes on whatever PatchInitrd returned.
PutInitrd ==
    /\ At("put") /\ Goto("shim")
    /\ \/ Ok /\ Set([globals EXCEPT !.initrd = "patched"])
       \/ Fault /\ Set(globals)
    /\ UNCHANGED <<disk, tpm>>

\* shim and GRUB are loaded, the hooks installed and shim executed.
StartShim ==
    /\ At("shim") /\ Ok /\ Goto("running")
    /\ UNCHANGED <<disk, tpm, globals>>

\* Calls whose failure ends the boot, a ResetSystem that returns among them.
Fails == \E p \in {"start", "init", "set", "reset", "initrd", "shim"} : StopsAt(p)

\* The operating system runs: it may store a DBX update for the next boot.
StoreUpdate(u) ==
    /\ At("running") /\ Ok
    /\ update' = File(u)
    /\ UNCHANGED <<dbx, sealed, pc, tpm, globals>>

\* Someone restarts the machine, or the system reboots.
Reboot == pc \in {"running", "stopped", "hung"} /\ Ok /\ Restart

\* Power fails while lsvmload runs.
Crash == pc \in Loader /\ Fault /\ Restart

Step ==
    \/ Start \/ Initialize \/ MeasureLinuxScenario \/ UnsealKeys \/ CapPCR
    \/ TryUnsealedBootkey \/ TestRootDevice \/ AskPassphrase \/ AskedEnough
    \/ SpecializeThenFreeze
    \/ LoadUpdate \/ SetVariable \/ SealLSVMLoadPolicy \/ DeleteSealedKeys
    \/ WriteSealedKeys \/ FreeBlocks \/ Truncate \/ Unlink \/ ResetSystem
    \/ GetInitrdPath \/ InjectFiles \/ PutInitrd \/ StartShim
    \/ Fails

Next == Step \/ (\E u \in Updates : StoreUpdate(u)) \/ Reboot \/ Crash

Spec == Init /\ [][Next]_vars

\* efi_main runs to its end.  Nothing is assumed of the operating system or of
\* the one who restarts the machine.
FairSpec == Spec /\ WF_vars(Step)

-----------------------------------------------------------------------------
(* Properties.                                                             *)

\* The types of the variables; a passphrase is asked for at most three times.
TypeOK ==
    /\ dbx \in SUBSET Updates
    /\ update \in [content : Updates \cup {NoUpdate}, state : FileStates]
    /\ sealed = Lost \/ sealed \in SUBSET Updates
    /\ pc \in Loader \cup {"running", "stopped", "hung"}
    /\ tpm \in [have : BOOLEAN, pcr7 : SUBSET Updates, pcr11 : PCR11s]
    /\ globals \in Globals
    /\ faults \in 0 .. MaxFaults /\ hurt \subseteq {"reseal", "remove"}

\* Unless a fault hits the resealing itself, the sealed keys always match the
\* dbx the next boot will measure: through any number of updates, repeated
\* updates (the file could not be removed), failures and resets elsewhere.
SealedForDbx == pc \notin Reseal /\ "reseal" \notin hurt => sealed = dbx

\* The register matches the dbx of the last reset, and dbx is ahead of it only
\* on the way to the reset ApplyDBXUpdate asks for: lsvmload never goes on to
\* start a system with a dbx it has not been measured with.
MeasuredDbxIsCurrent ==
    pc \notin Reseal \cup Removing \cup {"reset", "stopped", "hung"} => tpm.pcr7 = dbx

\* The initrd gets the keys only in a boot in which the TPM unsealed them, the
\* unsealed key itself opened the boot partition (not a typed passphrase after
\* it failed), the root key was tried, PCR[11] is capped, and writes no longer
\* reach the disk.
PatchOnlyWithUnsealedKeys ==
    globals.initrd # "original" =>
        /\ globals.bootkey = "sealed" /\ globals.unsealedBootkeyValid
        /\ globals.keysFound /\ globals.rootkeyValid
        /\ globals.caching
        /\ tpm.have /\ tpm.pcr11 = "capped"

\* After lsvmload has used the boot partition, whatever runs on this machine
\* until the next reset finds the TPM unwilling to unseal: PCR[11] is capped.
CappedOnceOpen == globals.bootdev /\ tpm.have => tpm.pcr11 = "capped" /\ ~CanUnseal

\* Without faults, no system is started with unsealed keys while an update is
\* waiting: it is applied, the keys resealed, and the machine reset first.
NoUpdateSkipped ==
    [][pc = "shim" /\ pc' = "running" /\ globals.unsealedBootkeyValid
            /\ tpm.have /\ faults = MaxFaults => update = NoFile]_vars

\* dbxupdate.bin is removed only when its update is in dbx, over any number of
\* boots, unless the firmware was given no data for it and did not object.
UpdateNotLost ==
    [][update # NoFile /\ update' = NoFile =>
            update.content \in dbx \/ globals.data = "empty"]_vars

\* Without faults the TPM always unseals, so nobody is asked for a passphrase
\* on a machine whose TPM is found, before or after updates.
NeverAskedWithoutFaults ==
    pc = "ask" /\ tpm.have => faults # MaxFaults

\* A boot that has ended, in a running system, with "No operating system was
\* loaded", or (an empty dbxupdate.bin) with a loader that hangs.
Ended == pc \in {"running", "stopped", "hung"}

\* lsvmload does not reset the machine for ever: with finitely many faults, none
\* of them in the removal of dbxupdate.bin, a boot ends.
BootEnds == (pc = "start") ~> (Ended \/ "remove" \in hurt)
=============================================================================
