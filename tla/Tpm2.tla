--------------------------------- MODULE Tpm2 ---------------------------------
(***************************************************************************)
(* The TPM 2.0 commands of lsvmutils/tpm2.c as their callers see them.     *)
(*                                                                         *)
(* The chip is external: a record of two banks of registers, the sessions  *)
(* and the transient objects, in a few slots each.  A register is the      *)
(* sequence of what was extended into it, which is what its hash stands    *)
(* for.  Each function TPM2_xxx packs a request, submits it and unpacks the *)
(* answer; it is the set of outcomes it can have on chip t.  The wire      *)
(* formats are in TpmWire.                                                 *)
(***************************************************************************)
EXTENDS Naturals, Sequences, FiniteSets

CONSTANTS
    MaxSessions,     \* sessions the chip can hold
    MaxObjects,      \* transient objects the chip can hold
    Nil,             \* no value
    Garbage          \* the bytes of an uninitialized blob

ASSUME SlotsAssumption == MaxSessions \in Nat \ {0} /\ MaxObjects \in Nat \ {0}

Banks == {"SHA1", "SHA256"}
PCRs == {0, 7, 11}                \* of the 24, the ones that matter

Sessions == 1 .. MaxSessions
Objects == 1 .. MaxObjects
SRKHandle == 0                    \* TPM2X_SRK_HANDLE

\* The chip after the firmware's measurements m[p] into register p; persistent
\* says whether the key TPM2X_SRK_HANDLE exists.
Chip(m, persistent) ==
    [pcr |-> [b \in Banks |-> m],
     session |-> [s \in Sessions |-> Nil],
     object |-> [o \in Objects |-> Nil],
     tries |-> "default", persistent |-> persistent]

FreeSlots(slots) == {i \in DOMAIN slots : slots[i] = Nil}
FreeSlot(slots) == CHOOSE i \in FreeSlots(slots) : \A j \in FreeSlots(slots) : i <= j

\* What authorizes an object: the password and PCR parts of a policy digest.
Policy(password, pcrs) == [password |-> password, pcrs |-> pcrs]

SRK == [what |-> "srk", policy |-> Nil]
Sealed(policy) == [what |-> "sealed", policy |-> policy]

-----------------------------------------------------------------------------
(* Every command has the same error paths: the request does not pack or    *)
(* does not reach the chip; the chip refuses it; the chip obeys, and the   *)
(* answer is lost or does not unpack, which the caller cannot tell from    *)
(* the first.                                                              *)

Answer(t, out) == [rc |-> "success", tpm |-> t, out |-> out, fault |-> "none"]
Refuse(t, code) == [rc |-> code, tpm |-> t, out |-> Nil, fault |-> "none"]

_SubmitCommand(t, done) ==
    {done,
     [rc |-> "failure", tpm |-> t, out |-> Nil, fault |-> "unsent"],
     [rc |-> "failure", tpm |-> done.tpm, out |-> Nil, fault |-> "lost"]}

TPM2_GetCapability(t, property) == _SubmitCommand(t, Answer(t, property))

TPM2_PCR_Read(t, bank, mask) ==
    _SubmitCommand(t, Answer(t, [p \in mask |-> t.pcr[bank][p]]))

TPM2_DictionaryAttackLockReset(t) == _SubmitCommand(t, Answer(t, Nil))

TPM2_DictionaryAttackParameters(t) ==
    _SubmitCommand(t, Answer([t EXCEPT !.tries = "relaxed"], Nil))

TPM2_CreatePrimary(t) ==
    _SubmitCommand(t,
        IF FreeSlots(t.object) = {} THEN Refuse(t, "memory")
        ELSE LET o == FreeSlot(t.object)
             IN Answer([t EXCEPT !.object[o] = SRK], o))

\* One handle space for sessions and one for objects: kind says which.
TPM2_FlushContext(t, kind, h) ==
    _SubmitCommand(t,
        CASE kind = "session" /\ h \in Sessions /\ t.session[h] # Nil ->
                Answer([t EXCEPT !.session[h] = Nil], Nil)
          [] kind = "object" /\ h \in Objects /\ t.object[h] # Nil ->
                Answer([t EXCEPT !.object[h] = Nil], Nil)
          [] OTHER -> Refuse(t, "handle"))

TPM2_StartAuthSession(t, type) ==
    _SubmitCommand(t,
        IF FreeSlots(t.session) = {} THEN Refuse(t, "memory")
        ELSE LET s == FreeSlot(t.session)
                 new == [type |-> type, policy |-> Policy(FALSE, Nil)]
             IN Answer([t EXCEPT !.session[s] = new], s))

TPM2_PolicyPassword(t, s) ==
    _SubmitCommand(t, Answer([t EXCEPT !.session[s].policy.password = TRUE], Nil))

\* The chip compares the digest with the registers, except in a trial session.
TPM2_PolicyPCR(t, s, bank, pcrs) ==
    _SubmitCommand(t,
        IF /\ t.session[s].type = "policy"
           /\ pcrs # [p \in DOMAIN pcrs |-> t.pcr[bank][p]]
        THEN Refuse(t, "value")
        ELSE Answer([t EXCEPT !.session[s].policy.pcrs = pcrs], Nil))

TPM2_PolicyGetDigest(t, s) ==
    _SubmitCommand(t, Answer(t, t.session[s].policy))

\* A sealed blob leaves the chip: it takes no slot.
TPM2_Create(t, parent, policy) == _SubmitCommand(t, Answer(t, policy))

TPM2_Load(t, parent, policy) ==
    _SubmitCommand(t,
        IF policy = Garbage THEN Refuse(t, "integrity")
        ELSE IF FreeSlots(t.object) = {} THEN Refuse(t, "memory")
        ELSE LET o == FreeSlot(t.object)
             IN Answer([t EXCEPT !.object[o] = Sealed(policy)], o))

\* "TPM2_Unseal() seems to implicitly release 'sessionHandle'"
TPM2_Unseal(t, o, s) ==
    _SubmitCommand(t,
        IF t.session[s].policy # t.object[o].policy THEN Refuse(t, "policy")
        ELSE Answer([t EXCEPT !.session[s] = Nil], "keys"))

TPM2_PCR_Extend(t, bank, p, digest) ==
    _SubmitCommand(t, Answer([t EXCEPT !.pcr[bank][p] = Append(@, digest)], Nil))

TPM2_ReadPublic(t, h) ==
    _SubmitCommand(t,
        IF h = SRKHandle /\ t.persistent THEN Answer(t, "public")
        ELSE Refuse(t, "handle"))

-----------------------------------------------------------------------------
(* The TPM2X functions that are one command.                               *)

TPM2X_SetLockoutParams(t) == TPM2_DictionaryAttackParameters(t)
TPM2X_SetDictionaryAttackLockReset(t) == TPM2_DictionaryAttackLockReset(t)
TPM2X_CreateSRKKey(t) == TPM2_CreatePrimary(t)
TPM2X_StartAuthSession(t, trial) ==
    TPM2_StartAuthSession(t, IF trial THEN "trial" ELSE "policy")
TPM2X_ReadPCRSHA1(t, p) == TPM2_PCR_Read(t, "SHA1", {p})
TPM2X_ReadPCRSHA256(t, p) == TPM2_PCR_Read(t, "SHA256", {p})
TPM2X_ExtendPCR_SHA1(t, p, digest) == TPM2_PCR_Extend(t, "SHA1", p, digest)
TPM2X_ExtendPCR_SHA256(t, p, digest) == TPM2_PCR_Extend(t, "SHA256", p, digest)

\* HashLogExtendEvent of the firmware (external): both banks at once.
HashLogExtendEvent(t, p, digest) ==
    {Answer([t EXCEPT !.pcr = [b \in Banks |-> [t.pcr[b] EXCEPT ![p] = Append(@, digest)]]], Nil),
     [rc |-> "failure", tpm |-> t, out |-> Nil, fault |-> "unsent"]}

\* TPM2X_SerializeBlob of an initialized blob works and TPM2X_DeserializeBlob
\* returns it (TpmWire).  Of a blob that holds what was on the stack, anything.
TPM2X_SerializeBlob(blob) == IF blob = Garbage THEN {Garbage, Nil} ELSE {blob}
TPM2X_DeserializeBlob(file) ==
    IF file = Garbage THEN {Garbage, Nil} ELSE {file}
===============================================================================
