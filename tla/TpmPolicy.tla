------------------------------- MODULE TpmPolicy -------------------------------
(***************************************************************************)
(* What keys are sealed for: lsvmutils/policy.c, lsvmloadpolicy.c, vars.c  *)
(* and the predicting side of measure.c, next to what lsvmload measures in *)
(* lsvmload/measure.c and what the firmware measures (external).           *)
(*                                                                         *)
(* A path is a pair of a name and an extension; the bytes of a variable or *)
(* file are a string.  HashVariable and ComputeSHA are what they hash.     *)
(***************************************************************************)
EXTENDS Tpm2

\* var.path -> data: an entry of Vars, and an entry of Policy.
Var(name, ext, data) == [path |-> <<name, ext>>, data |-> data]
Entry(name, ext, type, pcr) == [path |-> <<name, ext>>, type |-> type, pcr |-> pcr]

\* The static tables of lsvmloadpolicy.c.
StaticVars ==
    <<Var("SecureBoot", "False", "00"), Var("SecureBoot", "True", "01"),
      Var("SEPARATOR", "", "00000000"),
      Var("ALLOW_PREBOOT_SEALING", "", "10000000"),
      Var("LINUX_SCENARIO_ID", "", "0200F000"),
      Var("LINUX_SCENARIO_VERSION", "", "01000000")>>

CommonEntries ==
    <<Entry("PK", "", "EFIVAR", 7), Entry("KEK", "", "EFIVAR", 7),
      Entry("db", "", "EFIVAR", 7), Entry("dbx", "", "EFIVAR", 7),
      Entry("SEPARATOR", "", "BINARY", 7)>>
ScenarioEntries ==
    <<Entry("ALLOW_PREBOOT_SEALING", "", "BINARY", 11),
      Entry("LINUX_SCENARIO_ID", "", "BINARY", 11),
      Entry("LINUX_SCENARIO_VERSION", "", "BINARY", 11)>>

_policy ==
    <<Entry("SecureBoot", "False", "EFIVAR", 7)>> \o CommonEntries \o ScenarioEntries

_secureBootPolicy ==
    <<Entry("SecureBoot", "True", "EFIVAR", 7)>> \o CommonEntries
    \o <<Entry("db", "Entry", "EFIVAR", 7)>> \o ScenarioEntries

\* policy/final.policy: the registers as they are after PCR[11] was capped.
FinalPolicy == _policy \o <<Entry("", "", "CAP", 11)>>

-----------------------------------------------------------------------------

\* The data of the first entry with this name, or Nil.
VarsFind(vars, path) ==
    LET hits == {i \in DOMAIN vars : vars[i].path = path}
    IN IF hits = {} THEN Nil
       ELSE vars[CHOOSE i \in hits : \A j \in hits : i <= j].data
VarsLoad(vars, path) == VarsFind(vars, path)

\* files: what the administrator keeps in files of these names (none in EFI).
_LoadVariableOrFile(vars, files, path) ==
    IF VarsLoad(vars, path) # Nil THEN VarsLoad(vars, path)
    ELSE IF path \in DOMAIN files THEN files[path] ELSE Nil

\* nv: the UEFI variables.
LoadEFIVar(nv, name) == IF name \in DOMAIN nv THEN nv[name] ELSE Nil

HashVariable(name, data) == <<name, data>>
ComputeHash(data) == <<"", data>>
Zeros == ComputeHash("zeros")

\* _ExtendSHA1 and _ExtendSHA256: a prediction has both banks.
_Extend(banks, pcr, digest) ==
    [b \in Banks |-> [banks[b] EXCEPT ![pcr] = Append(@, digest)]]

Measure(m, pcr, digest) ==
    [m EXCEPT !.ok = TRUE, !.banks = _Extend(@, pcr, digest), !.mask = @ \cup {pcr}]
Unmeasured(m) == [m EXCEPT !.ok = FALSE]

MeasureBinaryFile(m, vars, files, ent) ==
    LET data == _LoadVariableOrFile(vars, files, ent.path)
    IN IF data = Nil THEN Unmeasured(m) ELSE Measure(m, ent.pcr, ComputeHash(data))

\* The extension only selects the value: it is no part of the measured name.
MeasureEFIVariable(m, vars, files, nv, ent) ==
    LET name == ent.path[1]
        own == _LoadVariableOrFile(vars, files, ent.path)
        data == IF own # Nil THEN own ELSE LoadEFIVar(nv, name)
    IN IF data = Nil THEN Unmeasured(m) ELSE Measure(m, ent.pcr, HashVariable(name, data))

MeasureCap(m, ent) == Measure(m, ent.pcr, Zeros)

MeasureEntry(m, vars, files, nv, ent) ==
    CASE ent.type = "EFIVAR" -> MeasureEFIVariable(m, vars, files, nv, ent)
      [] ent.type = "BINARY" -> MeasureBinaryFile(m, vars, files, ent)
      [] ent.type = "CAP" -> MeasureCap(m, ent)
      [] OTHER -> Unmeasured(m)

\* All entries in order; the first that cannot be measured ends it.
MeasurePolicy(vars, files, nv, policy) ==
    LET upTo[n \in 0 .. Len(policy)] ==
            IF n = 0 THEN [ok |-> TRUE, mask |-> {},
                           banks |-> [b \in Banks |-> [p \in PCRs |-> <<>>]]]
            ELSE IF ~upTo[n - 1].ok THEN upTo[n - 1]
            ELSE MeasureEntry(upTo[n - 1], vars, files, nv, policy[n])
    IN upTo[Len(policy)]

\* What Seal is given: the registers of the mask, SHA256 bank.
Predicted(m) == [p \in m.mask |-> m.banks["SHA256"][p]]

-----------------------------------------------------------------------------
(* What really happens at a boot.                                          *)

\* The entry of db that vouches for lsvmload, if there is one.
CheckImageDB(db) == IF db = "trusted" THEN "entry" ELSE Nil

\* The firmware (external): the variables in their order, the separator, and
\* with secure boot the entry of db that lets lsvmload run.
Firmware(nv) ==
    [p \in PCRs |->
        IF p # 7 THEN <<>>
        ELSE <<HashVariable("SecureBoot", nv["SecureBoot"]),
               HashVariable("PK", nv["PK"]), HashVariable("KEK", nv["KEK"]),
               HashVariable("db", nv["db"]), HashVariable("dbx", nv["dbx"]),
               ComputeHash("00000000")>>
             \o (IF nv["SecureBoot"] = "01"
                 THEN <<HashVariable("db", CheckImageDB(nv["db"]))>> ELSE <<>>)]

\* Mutant of MeasureLinuxScenario: two of the values in the other order.
MeasureLinuxScenarioSwapped == <<"10000000", "01000000", "0200F000">>

\* The three values lsvmload/measure.c extends PCR[11] with.
MeasureLinuxScenario == <<"10000000", "0200F000", "01000000">>
===============================================================================
