---------------------------- MODULE LsvmloadProofs ----------------------------
(***************************************************************************)
(* Proofs about Lsvmload, for every set of DBX updates and every number of *)
(* faults.  The inductive invariant IInv adds to the properties what       *)
(* efi_main knows at each place (BootProgress), what dbxupdate.bin can be  *)
(* (UpdateFile), and what the absence of faults so far means (FaultFree).  *)
(***************************************************************************)
EXTENDS Lsvmload, TLAPS

BeforeCap == {"start", "init", "measure", "unseal", "cap"}

\* The branch of efi_main for an unsealed bootkey that opened the partition.
UnsealedBranch ==
    {"load", "set", "reset", "initrd", "inject", "put"} \cup Reseal \cup Removing

\* What efi_main has done when it gets to a place, and where its keys come from.
BootProgress ==
    /\ globals.keysFound => tpm.have
    /\ globals.bootkey = "sealed" => globals.keysFound
    /\ globals.unsealedBootkeyValid => globals.bootkey = "sealed"
    /\ pc \in BeforeCap \ {"cap"} => ~globals.keysFound
    /\ pc \in BeforeCap =>
          /\ ~globals.bootdev /\ ~globals.unsealedBootkeyValid
          /\ globals.initrd = "original"
    /\ pc \in BeforeCap \cup {"open", "root"} => globals.bootkey \in {"none", "sealed"}
    /\ pc \notin BeforeCap \cup {"stopped"} => (tpm.have => tpm.pcr11 = "capped")
    /\ pc \in {"open", "ask"} => ~globals.unsealedBootkeyValid
    /\ pc \in UnsealedBranch => globals.unsealedBootkeyValid /\ globals.caching
    /\ pc \in {"inject", "put"} => globals.rootkeyValid
    /\ globals.initrd # "original" => pc \in {"put", "shim", "running", "stopped"}

\* A file dbxupdate.bin holds an update; ApplyDBXUpdate works on a file that is
\* there, and after SetVariable its update is in dbx unless nothing was loaded;
\* the blob to be written was sealed unless the sealing met a fault.
UpdateFile ==
    /\ update # NoFile => update.content \in Updates
    /\ pc \in {"set"} \cup Reseal \cup Removing =>
          update # NoFile /\ globals.data \in {"read", "empty"}
    /\ pc \in Reseal \cup Removing => update.content \in dbx \/ globals.data = "empty"
    /\ pc \in {"delete", "write"} => globals.blob = "sealed" \/ "reseal" \in hurt

\* As long as there was no fault, the TPM releases the keys, they open the boot
\* partition, and the branch they lead to looks at the update first.
FaultFree ==
    faults = MaxFaults =>
        /\ hurt = {}
        /\ pc = "unseal" /\ tpm.have => tpm.pcr11 = "scenario"
        /\ pc \in {"cap", "open"} /\ tpm.have => globals.bootkey = "sealed"
        /\ pc = "root" /\ tpm.have => globals.unsealedBootkeyValid
        /\ pc = "ask" => ~tpm.have
        /\ pc \in {"initrd", "inject", "put"} /\ tpm.have => update = NoFile
        /\ pc = "shim" /\ tpm.have /\ globals.unsealedBootkeyValid => update = NoFile

IInv ==
    /\ TypeOK
    /\ UpdateFile
    /\ BootProgress
    /\ FaultFree
    /\ SealedForDbx
    /\ MeasuredDbxIsCurrent
    /\ PatchOnlyWithUnsealedKeys
    /\ CappedOnceOpen

-----------------------------------------------------------------------------

USE DEF At, Goto, Set, Reseal, Removing, BeforeCap, UnsealedBranch

\* What a fault, or its absence, does to the counters.
LEMMA FaultFacts ==
    ASSUME TypeOK, Ok \/ Fault
    PROVE  /\ faults' \in 0 .. MaxFaults
           /\ hurt' \subseteq {"reseal", "remove"}
           /\ hurt \subseteq hurt'
           /\ Fault => faults' # MaxFaults
           /\ Fault /\ pc \in Reseal => "reseal" \in hurt'
           /\ ~Fault => faults' = faults /\ hurt' = hurt
  <1>1. CASE Fault
    BY <1>1, FaultsAssumption DEF TypeOK, Fault
  <1>2. CASE ~Fault
    BY <1>2 DEF TypeOK, Ok
  <1> QED
    BY <1>1, <1>2

\* What an action that leaves these fields alone leaves alone.
SameKeys(g) ==
    /\ g.keysFound = globals.keysFound
    /\ g.bootkey = globals.bootkey
    /\ g.unsealedBootkeyValid = globals.unsealedBootkeyValid
    /\ g.rootkeyValid = globals.rootkeyValid
    /\ g.tries = globals.tries
    /\ g.caching = globals.caching
    /\ g.data = globals.data
    /\ g.initrd = globals.initrd

\* What OpenBootFS can return.
LEMMA OpenFacts ==
    ASSUME NEW u \in BOOLEAN, NEW g, TypeOK, OpenBootFS(u, g)
    PROVE  /\ Ok \/ Fault
           /\ g \in Globals
           /\ SameKeys(g)
           /\ u /\ ~Fault => g.bootfs
  <1>1. Ok \/ Fault
    BY DEF OpenBootFS
  <1>2. g \in {globals, Unlocked, Mounted}
    BY DEF OpenBootFS
  <1>3. CASE g = globals
    <2>1. g \in Globals /\ SameKeys(g)
      BY <1>3 DEF TypeOK, SameKeys
    <2>2. g = Mounted => g.bootfs
      BY DEF TypeOK, Globals, Mounted
    <2>3. u /\ ~Fault => g = Mounted
      BY DEF OpenBootFS
    <2> QED
      BY <1>1, <2>1, <2>2, <2>3
  <1>4. CASE g = Unlocked
    BY <1>1, <1>4 DEF OpenBootFS, TypeOK, SameKeys, Globals, Unlocked, Mounted
  <1>5. CASE g = Mounted
    BY <1>1, <1>5 DEF TypeOK, SameKeys, Globals, Mounted
  <1> QED
    BY <1>2, <1>3, <1>4, <1>5

\* The start of efi_main: only haveTPM is set.
LEMMA StartStep ==
    ASSUME IInv, Start
    PROVE  IInv'
  <1>1. TypeOK /\ (Ok \/ Fault)
    BY DEF IInv, Start
  <1>a. PICK h \in BOOLEAN : tpm' = [tpm EXCEPT !.have = h]
    BY DEF Start
  <1> USE <1>1, <1>a, FaultFacts DEF IInv, TypeOK, Start, disk
  <1>2. TypeOK'
    BY FaultsAssumption, UpdatesAssumption DEF Globals, PCR11s,
      Bootkeys, FileStates, Loader, UpdateFile
  <1>3. UpdateFile'
    BY DEF UpdateFile
  <1>4. BootProgress'
    BY DEF BootProgress, Globals
  <1>5. FaultFree'
    BY DEF FaultFree, BootProgress, SealedForDbx,
        MeasuredDbxIsCurrent, Globals
  <1>6. SealedForDbx'
    BY DEF SealedForDbx
  <1>7. MeasuredDbxIsCurrent'
    BY DEF MeasuredDbxIsCurrent
  <1>8. PatchOnlyWithUnsealedKeys'
    BY DEF PatchOnlyWithUnsealedKeys, BootProgress, Globals
  <1>9. CappedOnceOpen'
    BY DEF CappedOnceOpen, BootProgress, CanUnseal, Globals
  <1> QED
    BY <1>2, <1>3, <1>4, <1>5, <1>6, <1>7, <1>8, <1>9 DEF IInv

\* Initialize changes nothing.
LEMMA InitializeStep ==
    ASSUME IInv, Initialize
    PROVE  IInv'
  <1>1. TypeOK /\ (Ok \/ Fault)
    BY DEF IInv, Initialize
  <1> USE <1>1, FaultFacts DEF IInv, TypeOK, Initialize, disk
  <1>2. TypeOK'
    BY FaultsAssumption, UpdatesAssumption DEF Globals, PCR11s,
      Bootkeys, FileStates, Loader, UpdateFile
  <1>3. UpdateFile'
    BY DEF UpdateFile
  <1>4. BootProgress'
    BY DEF BootProgress, Globals
  <1>5. FaultFree'
    BY DEF FaultFree, BootProgress, SealedForDbx,
        MeasuredDbxIsCurrent, Globals
  <1>6. SealedForDbx'
    BY DEF SealedForDbx
  <1>7. MeasuredDbxIsCurrent'
    BY DEF MeasuredDbxIsCurrent
  <1>8. PatchOnlyWithUnsealedKeys'
    BY DEF PatchOnlyWithUnsealedKeys, BootProgress, Globals
  <1>9. CappedOnceOpen'
    BY DEF CappedOnceOpen, BootProgress, CanUnseal, Globals
  <1> QED
    BY <1>2, <1>3, <1>4, <1>5, <1>6, <1>7, <1>8, <1>9 DEF IInv

\* PCR[11] is extended, completely or not.
LEMMA MeasureLinuxScenarioStep ==
    ASSUME IInv, MeasureLinuxScenario
    PROVE  IInv'
  <1>1. TypeOK /\ (Ok \/ Fault)
    BY DEF IInv, MeasureLinuxScenario
  <1> USE <1>1, FaultFacts DEF IInv, TypeOK, MeasureLinuxScenario, disk
  <1>2. TypeOK'
    BY FaultsAssumption, UpdatesAssumption DEF Globals, PCR11s,
      Bootkeys, FileStates, Loader, UpdateFile
  <1>3. UpdateFile'
    BY DEF UpdateFile
  <1>4. BootProgress'
    BY DEF BootProgress, Globals
  <1>5. FaultFree'
    BY DEF FaultFree, BootProgress, SealedForDbx,
        MeasuredDbxIsCurrent, Globals
  <1>6. SealedForDbx'
    BY DEF SealedForDbx
  <1>7. MeasuredDbxIsCurrent'
    BY DEF MeasuredDbxIsCurrent
  <1>8. PatchOnlyWithUnsealedKeys'
    BY DEF PatchOnlyWithUnsealedKeys, BootProgress, Globals
  <1>9. CappedOnceOpen'
    BY DEF CappedOnceOpen, BootProgress, CanUnseal, Globals
  <1> QED
    BY <1>2, <1>3, <1>4, <1>5, <1>6, <1>7, <1>8, <1>9 DEF IInv

\* The keys are unsealed or not.
LEMMA UnsealKeysStep ==
    ASSUME IInv, UnsealKeys
    PROVE  IInv'
  <1>1. TypeOK /\ (Ok \/ Fault)
    BY DEF IInv, UnsealKeys
  <1> DEFINE g == [globals EXCEPT !.keysFound = TRUE, !.bootkey = "sealed"]
  <1>a. /\ g \in Globals /\ g.keysFound /\ g.bootkey = "sealed"
        /\ g.bootdev = globals.bootdev /\ g.initrd = globals.initrd
        /\ g.unsealedBootkeyValid = globals.unsealedBootkeyValid
        /\ g.data = globals.data
    BY <1>1 DEF TypeOK, Globals, Bootkeys
  <1>b. /\ \/ globals' = g /\ CanUnseal /\ Ok
           \/ globals' = globals /\ (~CanUnseal \/ Fault)
        /\ pc = "unseal" /\ pc' = "cap"
        /\ UNCHANGED <<dbx, update, sealed, tpm>>
    BY DEF UnsealKeys, disk
  <1> HIDE DEF g
  <1> USE <1>1, <1>a, <1>b, FaultFacts DEF IInv, TypeOK, CanUnseal
  <1>2. TypeOK'
    BY FaultsAssumption, UpdatesAssumption DEF Globals, PCR11s,
      Bootkeys, FileStates, Loader, UpdateFile
  <1>3. UpdateFile'
    BY DEF UpdateFile
  <1>4. BootProgress'
    BY DEF BootProgress, Globals
  <1>5. FaultFree'
    BY DEF FaultFree, BootProgress, SealedForDbx,
        MeasuredDbxIsCurrent, Globals
  <1>6. SealedForDbx'
    BY DEF SealedForDbx
  <1>7. MeasuredDbxIsCurrent'
    BY DEF MeasuredDbxIsCurrent
  <1>8. PatchOnlyWithUnsealedKeys'
    BY DEF PatchOnlyWithUnsealedKeys, BootProgress, Globals
  <1>9. CappedOnceOpen'
    BY DEF CappedOnceOpen, BootProgress, CanUnseal, Globals
  <1> QED
    BY <1>2, <1>3, <1>4, <1>5, <1>6, <1>7, <1>8, <1>9 DEF IInv

\* PCR[11] is capped, or the boot stops.
LEMMA CapPCRStep ==
    ASSUME IInv, CapPCR
    PROVE  IInv'
  <1>1. TypeOK /\ (Ok \/ Fault)
    BY DEF IInv, CapPCR
  <1> USE <1>1, FaultFacts DEF IInv, TypeOK, CapPCR, disk
  <1>2. TypeOK'
    BY FaultsAssumption, UpdatesAssumption DEF Globals, PCR11s,
      Bootkeys, FileStates, Loader, UpdateFile
  <1>3. UpdateFile'
    BY DEF UpdateFile
  <1>4. BootProgress'
    BY DEF BootProgress, Globals
  <1>5. FaultFree'
    BY DEF FaultFree, BootProgress, SealedForDbx,
        MeasuredDbxIsCurrent, Globals
  <1>6. SealedForDbx'
    BY DEF SealedForDbx
  <1>7. MeasuredDbxIsCurrent'
    BY DEF MeasuredDbxIsCurrent
  <1>8. PatchOnlyWithUnsealedKeys'
    BY DEF PatchOnlyWithUnsealedKeys, BootProgress, Globals
  <1>9. CappedOnceOpen'
    BY DEF CappedOnceOpen, BootProgress, CanUnseal, Globals
  <1> QED
    BY <1>2, <1>3, <1>4, <1>5, <1>6, <1>7, <1>8, <1>9 DEF IInv

\* The unsealed bootkey opens the partition, or is dropped.
LEMMA TryUnsealedBootkeyStep ==
    ASSUME IInv, TryUnsealedBootkey
    PROVE  IInv'
  <1>a. PICK g \in {globals, Unlocked, Mounted} :
            \/ globals.bootkey = "none" /\ Ok /\ g = globals /\ globals' = globals
            \/ /\ globals.bootkey # "none" /\ OpenBootFS(TRUE, g)
               /\ globals' = IF g.bootfs THEN [g EXCEPT !.unsealedBootkeyValid = TRUE]
                                         ELSE [g EXCEPT !.bootkey = "none"]
    BY DEF TryUnsealedBootkey
  <1>1. TypeOK /\ (Ok \/ Fault)
    BY <1>a, OpenFacts DEF IInv
  <1>b. /\ g \in Globals /\ SameKeys(g)
        /\ globals.bootkey # "none" /\ ~Fault => g.bootfs
    BY <1>1, <1>a, OpenFacts DEF SameKeys, TypeOK
  <1>c. /\ globals' \in Globals
        /\ \/ globals' = globals /\ globals.bootkey = "none"
           \/ /\ globals.bootkey # "none" /\ globals'.unsealedBootkeyValid
              /\ globals'.bootkey = globals.bootkey
           \/ /\ globals'.bootkey = "none" /\ globals.bootkey # "none" /\ Fault
              /\ globals'.unsealedBootkeyValid = globals.unsealedBootkeyValid
        /\ globals'.keysFound = globals.keysFound
        /\ globals'.data = globals.data /\ globals'.initrd = globals.initrd
    <2>1. CASE globals.bootkey = "none" /\ globals' = globals
      BY <1>1, <2>1 DEF TypeOK
    <2>2. CASE /\ globals.bootkey # "none" /\ g.bootfs
               /\ globals' = [g EXCEPT !.unsealedBootkeyValid = TRUE]
      BY <1>b, <2>2 DEF SameKeys, Globals
    <2>3. CASE /\ globals.bootkey # "none" /\ ~g.bootfs
               /\ globals' = [g EXCEPT !.bootkey = "none"]
      BY <1>b, <2>3 DEF SameKeys, Globals, Bootkeys
    <2> QED
      BY <1>a, <2>1, <2>2, <2>3
  <1>d. pc = "open" /\ pc' = "root" /\ UNCHANGED <<dbx, update, sealed, tpm>>
    BY DEF TryUnsealedBootkey, disk
  <1> USE <1>1, <1>c, <1>d, FaultFacts DEF IInv, TypeOK
  <1>2. TypeOK'
    BY FaultsAssumption, UpdatesAssumption DEF Globals, PCR11s,
      Bootkeys, FileStates, Loader, UpdateFile
  <1>3. UpdateFile'
    BY DEF UpdateFile
  <1>4. BootProgress'
    BY DEF BootProgress, Globals
  <1>5. FaultFree'
    BY DEF FaultFree, BootProgress, SealedForDbx,
        MeasuredDbxIsCurrent, Globals
  <1>6. SealedForDbx'
    BY DEF SealedForDbx
  <1>7. MeasuredDbxIsCurrent'
    BY DEF MeasuredDbxIsCurrent
  <1>8. PatchOnlyWithUnsealedKeys'
    BY DEF PatchOnlyWithUnsealedKeys, BootProgress, Globals
  <1>9. CappedOnceOpen'
    BY DEF CappedOnceOpen, BootProgress, CanUnseal, Globals
  <1> QED
    BY <1>2, <1>3, <1>4, <1>5, <1>6, <1>7, <1>8, <1>9 DEF IInv

\* The root key is tried.
LEMMA TestRootDeviceStep ==
    ASSUME IInv, TestRootDevice
    PROVE  IInv'
  <1>1. TypeOK /\ (Ok \/ Fault)
    BY DEF IInv, TestRootDevice
  <1>a. globals' \in Globals
    <2>1. [globals EXCEPT !.rootkeyValid = TRUE] \in Globals
      BY <1>1 DEF TypeOK, Globals
    <2> QED
      BY <1>1, <2>1 DEF TypeOK, TestRootDevice
  <1> USE <1>1, <1>a, FaultFacts DEF IInv, TypeOK, TestRootDevice, disk
  <1>2. TypeOK'
    BY FaultsAssumption DEF Loader
  <1>3. UpdateFile'
    BY DEF UpdateFile
  <1>4. BootProgress'
    BY DEF BootProgress, Globals
  <1>5. FaultFree'
    BY DEF FaultFree, BootProgress, SealedForDbx,
        MeasuredDbxIsCurrent, Globals
  <1>6. SealedForDbx'
    BY DEF SealedForDbx
  <1>7. MeasuredDbxIsCurrent'
    BY DEF MeasuredDbxIsCurrent
  <1>8. PatchOnlyWithUnsealedKeys'
    BY DEF PatchOnlyWithUnsealedKeys, BootProgress, Globals
  <1>9. CappedOnceOpen'
    BY DEF CappedOnceOpen, BootProgress, CanUnseal, Globals
  <1> QED
    BY <1>2, <1>3, <1>4, <1>5, <1>6, <1>7, <1>8, <1>9 DEF IInv

\* A passphrase is asked for.
LEMMA AskPassphraseStep ==
    ASSUME IInv, AskPassphrase
    PROVE  IInv'
  <1>a. PICK typed \in {"typed", "wrong"}, g \in {globals, Unlocked, Mounted} :
            \/ Fault /\ pc' = "ask" /\ globals' = [globals EXCEPT !.tries = @ + 1]
            \/ /\ OpenBootFS(typed = "typed", g)
               /\ IF g.bootfs
                  THEN pc' = "specialize" /\ globals' = [g EXCEPT !.bootkey = typed]
                  ELSE pc' = "ask" /\ globals' = [g EXCEPT !.tries = @ + 1]
            \/ Fault /\ pc' = "stopped" /\ globals' = Mounted
    BY DEF AskPassphrase
  <1>1. TypeOK /\ (Ok \/ Fault)
    BY <1>a, OpenFacts DEF IInv
  <1>b. OpenBootFS(typed = "typed", g) => g \in Globals /\ SameKeys(g)
    BY <1>1, OpenFacts
  <1>c. pc = "ask" /\ globals.tries < 3 /\ UNCHANGED <<dbx, update, sealed, tpm>>
    BY DEF AskPassphrase, MoreTries, disk
  <1>d. /\ globals' \in Globals /\ pc' \in {"ask", "specialize", "stopped"}
        /\ globals'.unsealedBootkeyValid = globals.unsealedBootkeyValid
        /\ globals'.bootkey \in {globals.bootkey, "typed", "wrong"}
        /\ globals'.keysFound = globals.keysFound
        /\ globals'.data = globals.data /\ globals'.initrd = globals.initrd
    <2>1. CASE Fault /\ pc' = "ask" /\ globals' = [globals EXCEPT !.tries = @ + 1]
      BY <1>1, <1>c, <2>1 DEF TypeOK, Globals
    <2>2. CASE OpenBootFS(typed = "typed", g) /\ g.bootfs /\ pc' = "specialize"
                 /\ globals' = [g EXCEPT !.bootkey = typed]
      BY <1>1, <1>b, <2>2 DEF TypeOK, Globals, SameKeys, Bootkeys
    <2>3. CASE OpenBootFS(typed = "typed", g) /\ pc' = "ask"
                 /\ globals' = [g EXCEPT !.tries = @ + 1]
      BY <1>1, <1>b, <1>c, <2>3 DEF TypeOK, Globals, SameKeys
    <2>4. CASE Fault /\ pc' = "stopped" /\ globals' = Mounted
      BY <1>1, <2>4 DEF TypeOK, Globals, Mounted
    <2> QED
      BY <1>a, <2>1, <2>2, <2>3, <2>4
  <1> USE <1>1, <1>c, <1>d, FaultFacts DEF IInv, TypeOK
  <1>2. TypeOK'
    BY FaultsAssumption, UpdatesAssumption DEF Globals, PCR11s,
      Bootkeys, FileStates, Loader, UpdateFile
  <1>3. UpdateFile'
    BY DEF UpdateFile
  <1>4. BootProgress'
    BY DEF BootProgress, Globals
  <1>5. FaultFree'
    BY DEF FaultFree, BootProgress, SealedForDbx,
        MeasuredDbxIsCurrent, Globals
  <1>6. SealedForDbx'
    BY DEF SealedForDbx
  <1>7. MeasuredDbxIsCurrent'
    BY DEF MeasuredDbxIsCurrent
  <1>8. PatchOnlyWithUnsealedKeys'
    BY DEF PatchOnlyWithUnsealedKeys, BootProgress, Globals
  <1>9. CappedOnceOpen'
    BY DEF CappedOnceOpen, BootProgress, CanUnseal, Globals
  <1> QED
    BY <1>2, <1>3, <1>4, <1>5, <1>6, <1>7, <1>8, <1>9 DEF IInv

\* The last passphrase was wrong.
LEMMA AskedEnoughStep ==
    ASSUME IInv, AskedEnough
    PROVE  IInv'
  <1>1. TypeOK /\ (Ok \/ Fault)
    BY DEF IInv, AskedEnough
  <1> USE <1>1, FaultFacts DEF IInv, TypeOK, AskedEnough, Stop, MoreTries, disk
  <1>2. TypeOK'
    BY FaultsAssumption, UpdatesAssumption DEF Globals, PCR11s,
      Bootkeys, FileStates, Loader, UpdateFile
  <1>3. UpdateFile'
    BY DEF UpdateFile
  <1>4. BootProgress'
    BY DEF BootProgress, Globals
  <1>5. FaultFree'
    BY DEF FaultFree, BootProgress, SealedForDbx,
        MeasuredDbxIsCurrent, Globals
  <1>6. SealedForDbx'
    BY DEF SealedForDbx
  <1>7. MeasuredDbxIsCurrent'
    BY DEF MeasuredDbxIsCurrent
  <1>8. PatchOnlyWithUnsealedKeys'
    BY DEF PatchOnlyWithUnsealedKeys, BootProgress, Globals
  <1>9. CappedOnceOpen'
    BY DEF CappedOnceOpen, BootProgress, CanUnseal, Globals
  <1> QED
    BY <1>2, <1>3, <1>4, <1>5, <1>6, <1>7, <1>8, <1>9 DEF IInv

\* Caching is turned on.
LEMMA SpecializeThenFreezeStep ==
    ASSUME IInv, SpecializeThenFreeze
    PROVE  IInv'
  <1>1. TypeOK /\ (Ok \/ Fault)
    BY DEF IInv, SpecializeThenFreeze
  <1> USE <1>1, FaultFacts DEF IInv, TypeOK, SpecializeThenFreeze, disk
  <1>2. TypeOK'
    BY FaultsAssumption, UpdatesAssumption DEF Globals, PCR11s,
      Bootkeys, FileStates, Loader, UpdateFile
  <1>3. UpdateFile'
    BY DEF UpdateFile
  <1>4. BootProgress'
    BY DEF BootProgress, Globals
  <1>5. FaultFree'
    BY DEF FaultFree, BootProgress, SealedForDbx,
        MeasuredDbxIsCurrent, Globals
  <1>6. SealedForDbx'
    BY DEF SealedForDbx
  <1>7. MeasuredDbxIsCurrent'
    BY DEF MeasuredDbxIsCurrent
  <1>8. PatchOnlyWithUnsealedKeys'
    BY DEF PatchOnlyWithUnsealedKeys, BootProgress, Globals
  <1>9. CappedOnceOpen'
    BY DEF CappedOnceOpen, BootProgress, CanUnseal, Globals
  <1> QED
    BY <1>2, <1>3, <1>4, <1>5, <1>6, <1>7, <1>8, <1>9 DEF IInv

\* The update is looked for and read.
LEMMA LoadUpdateStep ==
    ASSUME IInv, LoadUpdate
    PROVE  IInv'
  <1>1. TypeOK /\ (Ok \/ Fault)
    BY DEF IInv, LoadUpdate
  <1> USE <1>1, FaultFacts DEF IInv, TypeOK, LoadUpdate, disk, NoFile
  <1>2. TypeOK'
    BY FaultsAssumption, UpdatesAssumption DEF Globals, PCR11s,
      Bootkeys, FileStates, Loader, UpdateFile
  <1>3. UpdateFile'
    <2>1. pc' = "set" => update # NoFile
      BY DEF UpdateFile
    <2>2. pc' = "set" => globals'.data \in {"read", "empty"}
      BY DEF UpdateFile, Globals
    <2> QED
      BY <2>1, <2>2 DEF UpdateFile
  <1>4. BootProgress'
    BY DEF BootProgress, Globals
  <1>5. FaultFree'
    BY DEF FaultFree, BootProgress, SealedForDbx,
        MeasuredDbxIsCurrent, Globals
  <1>6. SealedForDbx'
    BY DEF SealedForDbx
  <1>7. MeasuredDbxIsCurrent'
    BY DEF MeasuredDbxIsCurrent
  <1>8. PatchOnlyWithUnsealedKeys'
    BY DEF PatchOnlyWithUnsealedKeys, BootProgress, Globals
  <1>9. CappedOnceOpen'
    BY DEF CappedOnceOpen, BootProgress, CanUnseal, Globals
  <1> QED
    BY <1>2, <1>3, <1>4, <1>5, <1>6, <1>7, <1>8, <1>9 DEF IInv

\* The update is appended to dbx: the register is now behind it.
LEMMA SetVariableStep ==
    ASSUME IInv, SetVariable
    PROVE  IInv'
  <1>1. TypeOK /\ (Ok \/ Fault)
    BY DEF IInv, SetVariable
  <1> USE <1>1, FaultFacts DEF IInv, TypeOK, SetVariable
  <1>2. TypeOK'
    BY FaultsAssumption, UpdatesAssumption DEF Globals, PCR11s,
      Bootkeys, FileStates, Loader, UpdateFile
  <1>3. UpdateFile'
    BY DEF UpdateFile
  <1>4. BootProgress'
    BY DEF BootProgress, Globals
  <1>5. FaultFree'
    BY DEF FaultFree, BootProgress, SealedForDbx,
        MeasuredDbxIsCurrent, Globals
  <1>6. SealedForDbx'
    BY DEF SealedForDbx
  <1>7. MeasuredDbxIsCurrent'
    BY DEF MeasuredDbxIsCurrent
  <1>8. PatchOnlyWithUnsealedKeys'
    BY DEF PatchOnlyWithUnsealedKeys, BootProgress, Globals
  <1>9. CappedOnceOpen'
    BY DEF CappedOnceOpen, BootProgress, CanUnseal, Globals
  <1> QED
    BY <1>2, <1>3, <1>4, <1>5, <1>6, <1>7, <1>8, <1>9 DEF IInv

\* Sealing changes no state outside memory.
LEMMA SealLSVMLoadPolicyStep ==
    ASSUME IInv, SealLSVMLoadPolicy
    PROVE  IInv'
  <1>1. TypeOK /\ (Ok \/ Fault)
    BY DEF IInv, SealLSVMLoadPolicy
  <1> USE <1>1, FaultFacts DEF IInv, TypeOK, SealLSVMLoadPolicy, disk
  <1>2. TypeOK'
    BY FaultsAssumption, UpdatesAssumption DEF Globals, PCR11s,
      Bootkeys, FileStates, Loader, UpdateFile
  <1>3. UpdateFile'
    BY DEF UpdateFile, Globals
  <1>4. BootProgress'
    BY DEF BootProgress, Globals
  <1>5. FaultFree'
    BY DEF FaultFree, BootProgress, SealedForDbx,
        MeasuredDbxIsCurrent, Globals
  <1>6. SealedForDbx'
    BY DEF SealedForDbx
  <1>7. MeasuredDbxIsCurrent'
    BY DEF MeasuredDbxIsCurrent
  <1>8. PatchOnlyWithUnsealedKeys'
    BY DEF PatchOnlyWithUnsealedKeys, BootProgress, Globals
  <1>9. CappedOnceOpen'
    BY DEF CappedOnceOpen, BootProgress, CanUnseal, Globals
  <1> QED
    BY <1>2, <1>3, <1>4, <1>5, <1>6, <1>7, <1>8, <1>9 DEF IInv

\* The old sealedkeys file is deleted.
LEMMA DeleteSealedKeysStep ==
    ASSUME IInv, DeleteSealedKeys
    PROVE  IInv'
  <1>1. TypeOK /\ (Ok \/ Fault)
    BY DEF IInv, DeleteSealedKeys
  <1> USE <1>1, FaultFacts DEF IInv, TypeOK, DeleteSealedKeys
  <1>2. TypeOK'
    BY FaultsAssumption, UpdatesAssumption DEF Globals, PCR11s,
      Bootkeys, FileStates, Loader, UpdateFile
  <1>3. UpdateFile'
    BY DEF UpdateFile
  <1>4. BootProgress'
    BY DEF BootProgress, Globals
  <1>5. FaultFree'
    BY DEF FaultFree, BootProgress, SealedForDbx,
        MeasuredDbxIsCurrent, Globals
  <1>6. SealedForDbx'
    BY DEF SealedForDbx
  <1>7. MeasuredDbxIsCurrent'
    BY DEF MeasuredDbxIsCurrent
  <1>8. PatchOnlyWithUnsealedKeys'
    BY DEF PatchOnlyWithUnsealedKeys, BootProgress, Globals
  <1>9. CappedOnceOpen'
    BY DEF CappedOnceOpen, BootProgress, CanUnseal, Globals
  <1> QED
    BY <1>2, <1>3, <1>4, <1>5, <1>6, <1>7, <1>8, <1>9 DEF IInv

\* The new sealedkeys file is written.
LEMMA WriteSealedKeysStep ==
    ASSUME IInv, WriteSealedKeys
    PROVE  IInv'
  <1>1. TypeOK /\ (Ok \/ Fault)
    BY DEF IInv, WriteSealedKeys
  <1> USE <1>1, FaultFacts DEF IInv, TypeOK, WriteSealedKeys, SealedBlob
  <1>2. TypeOK'
    BY FaultsAssumption, UpdatesAssumption DEF Globals, PCR11s,
      Bootkeys, FileStates, Loader, UpdateFile
  <1>3. UpdateFile'
    BY DEF UpdateFile
  <1>4. BootProgress'
    BY DEF BootProgress, Globals
  <1>5. FaultFree'
    BY DEF FaultFree, BootProgress, SealedForDbx,
        MeasuredDbxIsCurrent, Globals
  <1>6. SealedForDbx'
    BY DEF SealedForDbx, UpdateFile
  <1>7. MeasuredDbxIsCurrent'
    BY DEF MeasuredDbxIsCurrent
  <1>8. PatchOnlyWithUnsealedKeys'
    BY DEF PatchOnlyWithUnsealedKeys, BootProgress, Globals
  <1>9. CappedOnceOpen'
    BY DEF CappedOnceOpen, BootProgress, CanUnseal, Globals
  <1> QED
    BY <1>2, <1>3, <1>4, <1>5, <1>6, <1>7, <1>8, <1>9 DEF IInv

\* The blocks of dbxupdate.bin are freed.
LEMMA FreeBlocksStep ==
    ASSUME IInv, FreeBlocks
    PROVE  IInv'
  <1>1. TypeOK /\ (Ok \/ Fault)
    BY DEF IInv, FreeBlocks
  <1> USE <1>1, FaultFacts DEF IInv, TypeOK, FreeBlocks, FileBecomes
  <1>2. TypeOK'
    BY FaultsAssumption, UpdatesAssumption DEF Globals, PCR11s,
      Bootkeys, FileStates, Loader, UpdateFile
  <1>3. UpdateFile'
    <2>1. update # NoFile /\ update.content \in Updates
      BY DEF UpdateFile
    <2>2. update'.content = update.content
      BY DEF UpdateFile
    <2>3. update' # NoFile
      BY <2>1, <2>2, UpdatesAssumption DEF NoFile
    <2> QED
      BY <2>1, <2>2, <2>3 DEF UpdateFile
  <1>4. BootProgress'
    BY DEF BootProgress, Globals
  <1>5. FaultFree'
    BY DEF FaultFree, BootProgress, SealedForDbx,
        MeasuredDbxIsCurrent, Globals
  <1>6. SealedForDbx'
    BY DEF SealedForDbx
  <1>7. MeasuredDbxIsCurrent'
    BY DEF MeasuredDbxIsCurrent
  <1>8. PatchOnlyWithUnsealedKeys'
    BY DEF PatchOnlyWithUnsealedKeys, BootProgress, Globals
  <1>9. CappedOnceOpen'
    BY DEF CappedOnceOpen, BootProgress, CanUnseal, Globals
  <1> QED
    BY <1>2, <1>3, <1>4, <1>5, <1>6, <1>7, <1>8, <1>9 DEF IInv

\* Its inode is rewritten.
LEMMA TruncateStep ==
    ASSUME IInv, Truncate
    PROVE  IInv'
  <1>1. TypeOK /\ (Ok \/ Fault)
    BY DEF IInv, Truncate
  <1> USE <1>1, FaultFacts DEF IInv, TypeOK, Truncate, FileBecomes
  <1>2. TypeOK'
    BY FaultsAssumption, UpdatesAssumption DEF Globals, PCR11s,
      Bootkeys, FileStates, Loader, UpdateFile
  <1>3. UpdateFile'
    <2>1. update # NoFile /\ update.content \in Updates
      BY DEF UpdateFile
    <2>2. update'.content = update.content
      BY DEF UpdateFile
    <2>3. update' # NoFile
      BY <2>1, <2>2, UpdatesAssumption DEF NoFile
    <2> QED
      BY <2>1, <2>2, <2>3 DEF UpdateFile
  <1>4. BootProgress'
    BY DEF BootProgress, Globals
  <1>5. FaultFree'
    BY DEF FaultFree, BootProgress, SealedForDbx,
        MeasuredDbxIsCurrent, Globals
  <1>6. SealedForDbx'
    BY DEF SealedForDbx
  <1>7. MeasuredDbxIsCurrent'
    BY DEF MeasuredDbxIsCurrent
  <1>8. PatchOnlyWithUnsealedKeys'
    BY DEF PatchOnlyWithUnsealedKeys, BootProgress, Globals
  <1>9. CappedOnceOpen'
    BY DEF CappedOnceOpen, BootProgress, CanUnseal, Globals
  <1> QED
    BY <1>2, <1>3, <1>4, <1>5, <1>6, <1>7, <1>8, <1>9 DEF IInv

\* Its directory entry is removed.
LEMMA UnlinkStep ==
    ASSUME IInv, Unlink
    PROVE  IInv'
  <1>1. TypeOK /\ (Ok \/ Fault)
    BY DEF IInv, Unlink
  <1> USE <1>1, FaultFacts DEF IInv, TypeOK, Unlink, NoFile
  <1>2. TypeOK'
    BY FaultsAssumption, UpdatesAssumption DEF Globals, PCR11s,
      Bootkeys, FileStates, Loader, UpdateFile
  <1>3. UpdateFile'
    BY DEF UpdateFile
  <1>4. BootProgress'
    BY DEF BootProgress, Globals
  <1>5. FaultFree'
    BY DEF FaultFree, BootProgress, SealedForDbx,
        MeasuredDbxIsCurrent, Globals
  <1>6. SealedForDbx'
    BY DEF SealedForDbx
  <1>7. MeasuredDbxIsCurrent'
    BY DEF MeasuredDbxIsCurrent
  <1>8. PatchOnlyWithUnsealedKeys'
    BY DEF PatchOnlyWithUnsealedKeys, BootProgress, Globals
  <1>9. CappedOnceOpen'
    BY DEF CappedOnceOpen, BootProgress, CanUnseal, Globals
  <1> QED
    BY <1>2, <1>3, <1>4, <1>5, <1>6, <1>7, <1>8, <1>9 DEF IInv

\* The reset after an update.
LEMMA ResetSystemStep ==
    ASSUME IInv, ResetSystem
    PROVE  IInv'
  <1>1. TypeOK /\ (Ok \/ Fault)
    BY DEF IInv, ResetSystem
  <1> USE <1>1, FaultFacts DEF IInv, TypeOK, ResetSystem, Restart, disk,
      NoGlobals
  <1>2. TypeOK'
    BY FaultsAssumption, UpdatesAssumption DEF Globals, PCR11s,
      Bootkeys, FileStates, Loader, UpdateFile
  <1>3. UpdateFile'
    BY DEF UpdateFile
  <1>4. BootProgress'
    BY DEF BootProgress, Globals
  <1>5. FaultFree'
    BY DEF FaultFree, BootProgress, SealedForDbx,
        MeasuredDbxIsCurrent, Globals
  <1>6. SealedForDbx'
    BY DEF SealedForDbx
  <1>7. MeasuredDbxIsCurrent'
    BY DEF MeasuredDbxIsCurrent
  <1>8. PatchOnlyWithUnsealedKeys'
    BY DEF PatchOnlyWithUnsealedKeys, BootProgress, Globals
  <1>9. CappedOnceOpen'
    BY DEF CappedOnceOpen, BootProgress, CanUnseal, Globals
  <1> QED
    BY <1>2, <1>3, <1>4, <1>5, <1>6, <1>7, <1>8, <1>9 DEF IInv

\* PatchInitrd is called, and goes on with valid keys only.
LEMMA GetInitrdPathStep ==
    ASSUME IInv, GetInitrdPath
    PROVE  IInv'
  <1>1. TypeOK /\ (Ok \/ Fault)
    BY DEF IInv, GetInitrdPath
  <1> USE <1>1, FaultFacts DEF IInv, TypeOK, GetInitrdPath, disk
  <1>2. TypeOK'
    BY FaultsAssumption, UpdatesAssumption DEF Globals, PCR11s,
      Bootkeys, FileStates, Loader, UpdateFile
  <1>3. UpdateFile'
    BY DEF UpdateFile
  <1>4. BootProgress'
    BY DEF BootProgress, Globals
  <1>5. FaultFree'
    BY DEF FaultFree, BootProgress, SealedForDbx,
        MeasuredDbxIsCurrent, Globals
  <1>6. SealedForDbx'
    BY DEF SealedForDbx
  <1>7. MeasuredDbxIsCurrent'
    BY DEF MeasuredDbxIsCurrent
  <1>8. PatchOnlyWithUnsealedKeys'
    BY DEF PatchOnlyWithUnsealedKeys, BootProgress, Globals
  <1>9. CappedOnceOpen'
    BY DEF CappedOnceOpen, BootProgress, CanUnseal, Globals
  <1> QED
    BY <1>2, <1>3, <1>4, <1>5, <1>6, <1>7, <1>8, <1>9 DEF IInv

\* The original initrd is removed from the cached file system.
LEMMA InjectFilesStep ==
    ASSUME IInv, InjectFiles
    PROVE  IInv'
  <1>1. TypeOK /\ (Ok \/ Fault)
    BY DEF IInv, InjectFiles
  <1> USE <1>1, FaultFacts DEF IInv, TypeOK, InjectFiles, disk
  <1>2. TypeOK'
    BY FaultsAssumption, UpdatesAssumption DEF Globals, PCR11s,
      Bootkeys, FileStates, Loader, UpdateFile
  <1>3. UpdateFile'
    BY DEF UpdateFile
  <1>4. BootProgress'
    BY DEF BootProgress, Globals
  <1>5. FaultFree'
    BY DEF FaultFree, BootProgress, SealedForDbx,
        MeasuredDbxIsCurrent, Globals
  <1>6. SealedForDbx'
    BY DEF SealedForDbx
  <1>7. MeasuredDbxIsCurrent'
    BY DEF MeasuredDbxIsCurrent
  <1>8. PatchOnlyWithUnsealedKeys'
    BY DEF PatchOnlyWithUnsealedKeys, BootProgress, Globals
  <1>9. CappedOnceOpen'
    BY DEF CappedOnceOpen, BootProgress, CanUnseal, Globals
  <1> QED
    BY <1>2, <1>3, <1>4, <1>5, <1>6, <1>7, <1>8, <1>9 DEF IInv

\* The patched initrd is put in its place.
LEMMA PutInitrdStep ==
    ASSUME IInv, PutInitrd
    PROVE  IInv'
  <1>1. TypeOK /\ (Ok \/ Fault)
    BY DEF IInv, PutInitrd
  <1> USE <1>1, FaultFacts DEF IInv, TypeOK, PutInitrd, disk
  <1>2. TypeOK'
    BY FaultsAssumption, UpdatesAssumption DEF Globals, PCR11s,
      Bootkeys, FileStates, Loader, UpdateFile
  <1>3. UpdateFile'
    BY DEF UpdateFile
  <1>4. BootProgress'
    BY DEF BootProgress, Globals
  <1>5. FaultFree'
    BY DEF FaultFree, BootProgress, SealedForDbx,
        MeasuredDbxIsCurrent, Globals
  <1>6. SealedForDbx'
    BY DEF SealedForDbx
  <1>7. MeasuredDbxIsCurrent'
    BY DEF MeasuredDbxIsCurrent
  <1>8. PatchOnlyWithUnsealedKeys'
    BY DEF PatchOnlyWithUnsealedKeys, BootProgress, Globals
  <1>9. CappedOnceOpen'
    BY DEF CappedOnceOpen, BootProgress, CanUnseal, Globals
  <1> QED
    BY <1>2, <1>3, <1>4, <1>5, <1>6, <1>7, <1>8, <1>9 DEF IInv

\* shim is started.
LEMMA StartShimStep ==
    ASSUME IInv, StartShim
    PROVE  IInv'
  <1>1. TypeOK /\ (Ok \/ Fault)
    BY DEF IInv, StartShim
  <1> USE <1>1, FaultFacts DEF IInv, TypeOK, StartShim, disk
  <1>2. TypeOK'
    BY FaultsAssumption, UpdatesAssumption DEF Globals, PCR11s,
      Bootkeys, FileStates, Loader, UpdateFile
  <1>3. UpdateFile'
    BY DEF UpdateFile
  <1>4. BootProgress'
    BY DEF BootProgress, Globals
  <1>5. FaultFree'
    BY DEF FaultFree, BootProgress, SealedForDbx,
        MeasuredDbxIsCurrent, Globals
  <1>6. SealedForDbx'
    BY DEF SealedForDbx
  <1>7. MeasuredDbxIsCurrent'
    BY DEF MeasuredDbxIsCurrent
  <1>8. PatchOnlyWithUnsealedKeys'
    BY DEF PatchOnlyWithUnsealedKeys, BootProgress, Globals
  <1>9. CappedOnceOpen'
    BY DEF CappedOnceOpen, BootProgress, CanUnseal, Globals
  <1> QED
    BY <1>2, <1>3, <1>4, <1>5, <1>6, <1>7, <1>8, <1>9 DEF IInv

\* A call fails and the boot stops.
LEMMA FailsStep ==
    ASSUME IInv, Fails
    PROVE  IInv'
  <1>1. TypeOK /\ (Ok \/ Fault)
    BY DEF IInv, Fails, StopsAt
  <1> USE <1>1, FaultFacts DEF IInv, TypeOK, Fails, StopsAt, Stop, disk
  <1>2. TypeOK'
    BY FaultsAssumption, UpdatesAssumption DEF Globals, PCR11s,
      Bootkeys, FileStates, Loader, UpdateFile
  <1>3. UpdateFile'
    BY DEF UpdateFile
  <1>4. BootProgress'
    BY DEF BootProgress, Globals
  <1>5. FaultFree'
    BY DEF FaultFree, BootProgress, SealedForDbx,
        MeasuredDbxIsCurrent, Globals
  <1>6. SealedForDbx'
    BY DEF SealedForDbx
  <1>7. MeasuredDbxIsCurrent'
    BY DEF MeasuredDbxIsCurrent
  <1>8. PatchOnlyWithUnsealedKeys'
    BY DEF PatchOnlyWithUnsealedKeys, BootProgress, Globals
  <1>9. CappedOnceOpen'
    BY DEF CappedOnceOpen, BootProgress, CanUnseal, Globals
  <1> QED
    BY <1>2, <1>3, <1>4, <1>5, <1>6, <1>7, <1>8, <1>9 DEF IInv

\* The machine is restarted.
LEMMA RebootStep ==
    ASSUME IInv, Reboot
    PROVE  IInv'
  <1>1. TypeOK /\ (Ok \/ Fault)
    BY DEF IInv, Reboot
  <1> USE <1>1, FaultFacts DEF IInv, TypeOK, Reboot, Restart, disk, NoGlobals
  <1>2. TypeOK'
    BY FaultsAssumption, UpdatesAssumption DEF Globals, PCR11s,
      Bootkeys, FileStates, Loader, UpdateFile
  <1>3. UpdateFile'
    BY DEF UpdateFile
  <1>4. BootProgress'
    BY DEF BootProgress, Globals
  <1>5. FaultFree'
    BY DEF FaultFree, BootProgress, SealedForDbx,
        MeasuredDbxIsCurrent, Globals
  <1>6. SealedForDbx'
    BY DEF SealedForDbx
  <1>7. MeasuredDbxIsCurrent'
    BY DEF MeasuredDbxIsCurrent
  <1>8. PatchOnlyWithUnsealedKeys'
    BY DEF PatchOnlyWithUnsealedKeys, BootProgress, Globals
  <1>9. CappedOnceOpen'
    BY DEF CappedOnceOpen, BootProgress, CanUnseal, Globals
  <1> QED
    BY <1>2, <1>3, <1>4, <1>5, <1>6, <1>7, <1>8, <1>9 DEF IInv

\* The machine is reset while lsvmload runs.
LEMMA CrashStep ==
    ASSUME IInv, Crash
    PROVE  IInv'
  <1>1. TypeOK /\ (Ok \/ Fault)
    BY DEF IInv, Crash
  <1> USE <1>1, FaultFacts DEF IInv, TypeOK, Crash, Restart, Loader, disk,
      NoGlobals
  <1>2. TypeOK'
    BY FaultsAssumption, UpdatesAssumption DEF Globals, PCR11s,
      Bootkeys, FileStates, UpdateFile
  <1>3. UpdateFile'
    BY DEF UpdateFile
  <1>4. BootProgress'
    BY DEF BootProgress, Globals
  <1>5. FaultFree'
    BY DEF FaultFree, BootProgress, SealedForDbx,
        MeasuredDbxIsCurrent, Globals
  <1>6. SealedForDbx'
    BY DEF SealedForDbx
  <1>7. MeasuredDbxIsCurrent'
    BY DEF MeasuredDbxIsCurrent
  <1>8. PatchOnlyWithUnsealedKeys'
    BY DEF PatchOnlyWithUnsealedKeys, BootProgress, Globals
  <1>9. CappedOnceOpen'
    BY DEF CappedOnceOpen, BootProgress, CanUnseal, Globals
  <1> QED
    BY <1>2, <1>3, <1>4, <1>5, <1>6, <1>7, <1>8, <1>9 DEF IInv

\* The operating system stores an update.
LEMMA StoreUpdateStep ==
    ASSUME IInv, NEW u \in Updates, StoreUpdate(u)
    PROVE  IInv'
  BY UpdatesAssumption DEF IInv, StoreUpdate, File, NoFile, Ok, TypeOK, FileStates, UpdateFile,
    BootProgress, FaultFree, SealedForDbx, MeasuredDbxIsCurrent,
    PatchOnlyWithUnsealedKeys, CappedOnceOpen, CanUnseal

\* A machine prepared by lsvmprep.
LEMMA InitIInv == Init => IInv
  BY FaultsAssumption, UpdatesAssumption DEF Init, IInv, NoGlobals, NoFile, File, TypeOK,
    Globals, PCR11s, Bootkeys, FileStates, Loader, UpdateFile, BootProgress, FaultFree,
    SealedForDbx, MeasuredDbxIsCurrent, PatchOnlyWithUnsealedKeys, CappedOnceOpen,
    CanUnseal

\* Every step keeps the invariant.
LEMMA NextIInv == IInv /\ [Next]_vars => IInv'
  <1> SUFFICES ASSUME IInv, [Next]_vars PROVE IInv'
    OBVIOUS
  <1>1. CASE Step
    BY <1>1, StartStep, InitializeStep, MeasureLinuxScenarioStep,
      UnsealKeysStep, CapPCRStep, TryUnsealedBootkeyStep, TestRootDeviceStep,
      AskPassphraseStep, AskedEnoughStep, SpecializeThenFreezeStep, LoadUpdateStep,
      SetVariableStep, SealLSVMLoadPolicyStep, DeleteSealedKeysStep,
      WriteSealedKeysStep, FreeBlocksStep, TruncateStep, UnlinkStep,
      ResetSystemStep, GetInitrdPathStep, InjectFilesStep, PutInitrdStep,
      StartShimStep, FailsStep DEF Step
  <1>2. CASE \E u \in Updates : StoreUpdate(u)
    BY <1>2, StoreUpdateStep
  <1>3. CASE Reboot
    BY <1>3, RebootStep
  <1>4. CASE Crash
    BY <1>4, CrashStep
  <1>5. CASE UNCHANGED vars
    BY <1>5 DEF vars, IInv, TypeOK, UpdateFile, BootProgress, FaultFree, SealedForDbx,
      MeasuredDbxIsCurrent, PatchOnlyWithUnsealedKeys, CappedOnceOpen, CanUnseal
  <1> QED
    BY <1>1, <1>2, <1>3, <1>4, <1>5 DEF Next

\* The inductive invariant holds in every reachable state.
THEOREM Invariance == Spec => []IInv
  BY InitIInv, NextIInv, PTL DEF Spec

-----------------------------------------------------------------------------

\* The sealed keys match the dbx the next boot will measure, after any number of
\* updates, boots and faults, unless a fault hit the resealing itself.
THEOREM KeysStaySealed == Spec => []SealedForDbx
  <1>1. IInv => SealedForDbx
    BY DEF IInv
  <1> QED
    BY <1>1, Invariance, PTL

\* efi_main never goes on past an update with a register that is behind dbx.
THEOREM RegisterIsCurrent == Spec => []MeasuredDbxIsCurrent
  <1>1. IInv => MeasuredDbxIsCurrent
    BY DEF IInv
  <1> QED
    BY <1>1, Invariance, PTL

\* The initrd gets the keys only when the TPM released them in this boot and they
\* opened both partitions, with PCR[11] capped and writes kept from the disk.
THEOREM KeysHandedOnSafely == Spec => []PatchOnlyWithUnsealedKeys
  <1>1. IInv => PatchOnlyWithUnsealedKeys
    BY DEF IInv
  <1> QED
    BY <1>1, Invariance, PTL

\* Once the boot partition has been opened the TPM unseals no more until a reset.
THEOREM CappedAfterOpen == Spec => []CappedOnceOpen
  <1>1. IInv => CappedOnceOpen
    BY DEF IInv
  <1> QED
    BY <1>1, Invariance, PTL

\* Before the first fault nobody with a TPM is asked for a passphrase.
THEOREM NeverAsked == Spec => []NeverAskedWithoutFaults
  <1>1. IInv => NeverAskedWithoutFaults
    BY DEF IInv, FaultFree, NeverAskedWithoutFaults
  <1> QED
    BY <1>1, Invariance, PTL

\* Before the first fault no update is left behind by a boot with unsealed keys.
THEOREM UpdateSeen == Spec => NoUpdateSkipped
  <1>1. IInv => (pc = "shim" /\ globals.unsealedBootkeyValid /\ tpm.have
                   /\ faults = MaxFaults => update = NoFile)
    BY DEF IInv, FaultFree
  <1>2. IInv /\ [Next]_vars =>
          [pc = "shim" /\ pc' = "running" /\ globals.unsealedBootkeyValid
            /\ tpm.have /\ faults = MaxFaults => update = NoFile]_vars
    BY <1>1
  <1> QED
    BY <1>2, Invariance, PTL DEF Spec, NoUpdateSkipped

\* dbxupdate.bin is removed only after its update got into dbx.
THEOREM UpdateKept == Spec => UpdateNotLost
  <1>1. IInv /\ [Next]_vars =>
          [update # NoFile /\ update' = NoFile =>
             update.content \in dbx \/ globals.data = "empty"]_vars
    <2> SUFFICES ASSUME IInv, Next, update # NoFile, update' = NoFile
                 PROVE  update.content \in dbx \/ globals.data = "empty"
      OBVIOUS
    <2>1. update' # update
      OBVIOUS
    <2>2. pc \in Removing
      BY <2>1, UpdatesAssumption DEF Next, Step, Start, Initialize,
        MeasureLinuxScenario, UnsealKeys, CapPCR, TryUnsealedBootkey,
        TestRootDevice, AskPassphrase, AskedEnough, SpecializeThenFreeze,
        LoadUpdate, SetVariable, SealLSVMLoadPolicy, DeleteSealedKeys,
        WriteSealedKeys, FreeBlocks, Truncate, Unlink, ResetSystem, GetInitrdPath,
        InjectFiles, PutInitrd, StartShim, Fails, Reboot, Crash, StoreUpdate,
        NoFile, File, disk, Stop, StopsAt, Restart
    <2> QED
      BY <2>2 DEF IInv, UpdateFile
  <1> QED
    BY <1>1, Invariance, PTL DEF Spec, UpdateNotLost
=============================================================================
