----------------------------- MODULE TpmKeysProofs -----------------------------
(***************************************************************************)
(* When the keys are released (TpmClients), for every number of slots of   *)
(* the chip, every number of faults and commands, and every contents of    *)
(* dbx.                                                                    *)
(*                                                                         *)
(* The invariant KeysIInv goes with ClientsIInv:                           *)
(*   RegistersKnown  what the two registers hold at each step of lsvmload, *)
(*                   and that PCR[11] is capped once a system runs         *)
(*   FileMeans       the blob in the file is sealed to the registers that  *)
(*                   belong to the command that wrote it                   *)
(*   Sealing         a sealing command carries these registers, predicted  *)
(*                   or read, from step to step into its blob              *)
(*   Opening         a client that unseals has the registers of the chip   *)
(*                   in its session and the file in its object             *)
(*   DataReleased    what was unsealed was unsealed as KeysOnlyAsSealed    *)
(*                   says                                                  *)
(*                                                                         *)
(* And when they are not withheld: the invariant Unfailed, at the end.     *)
(***************************************************************************)
EXTENDS TpmClientsProofs

Reg(p) == tpm.pcr["SHA256"][p]
Capped(s) == \E i \in DOMAIN s : s[i] = Zeros

\* What lsvmload has measured after n steps of MeasureLinuxScenario.
ScenarioUpTo(n) == [i \in 1 .. n |-> ComputeHash(MeasureLinuxScenario[i])]

\* The registers of a boot with these variables, when lsvmload unseals.
BootTable(s) == [p \in Mask |-> IF p = 7 THEN s ELSE ScenarioUpTo(3)]
BootRegisters(secureBoot, v) ==
    BootTable(Firmware([v EXCEPT !["SecureBoot"] = secureBoot])[7])

\* The registers in a blob, and the command and variables it was sealed with.
Means(s, h) ==
    /\ h \in [client : Sealers, nv : Variables]
    /\ h.client = "seallsvmloadpolicy" => s = BootRegisters("00", h.nv)
    /\ h.client = "seallsvmloadpolicy --secureboot" => s = BootRegisters("01", h.nv)
    /\ h.client \in {"seal", "sealpolicy"} => 11 \in DOMAIN s /\ Capped(s[11])

\* Steps of lsvmload between its measurements and the cap.
Booted == UnsealSteps \cup PolicySteps
          \cup {"readpublic", "srk", "flushsrk", "split", "cap.before", "cap.sha1", "cap.sha256"}

RegistersKnown ==
    /\ f.client # "lsvmload" => phase = "os"
    /\ phase = "os" => Capped(Reg(11)) /\ (f.client = "lsvmload" => pc = "idle")
    /\ f.client = "lsvmload" => Reg(7) = Firmware(nv)[7]
    /\ f.client = "lsvmload" /\ pc \in {"lockreset", "lockout"} => Reg(11) = <<>>
    /\ pc = "scenario" => Reg(11) = ScenarioUpTo(f.i)
    /\ f.client = "lsvmload" /\ pc \in Booted => Reg(11) = ScenarioUpTo(3)
    /\ pc = "cap.after" => Capped(Reg(11))

FileMeans == file \in SealPolicies => Means(file.pcrs, sealedFor)

Predicting == {"srk", "seal.session"} \cup PolicySteps
Unpredicted == {"lockreset", "lockout", "predict", "policy.read"}
Sealing ==
    f.client \in Sealers =>
        /\ pc \in Unpredicted => f.pcrs = Nil
        /\ f.pcrs # Nil => Means(f.pcrs, [client |-> f.client, nv |-> nv])
        /\ f.client \in PolicySealers /\ pc \in Predicting => f.pcrs # Nil
        /\ pc = "seal.digest" => tpm.session[f.session].policy.pcrs = f.pcrs
        /\ pc = "seal.create" => f.digest.pcrs = f.pcrs
        /\ f.blob \in SealPolicies => f.blob.pcrs = f.pcrs

\* The registers of the chip, as TPM2X_BuildPolicy reads them.
ChipRegisters == [p \in Mask |-> Reg(p)]
Early == {"lockreset", "lockout", "scenario", "load", "readpublic", "srk",
          "unseal.session", "policy.password"}
Opening ==
    f.client \in Openers =>
        /\ f.blob \in SealPolicies => f.blob = file
        /\ pc \in Early => f.pcrs = Nil
        /\ pc = "policy.pcr" => f.pcrs = ChipRegisters
        /\ pc \in {"unseal.load", "unseal.unseal"} =>
             /\ tpm.session[f.session] # Nil
             /\ tpm.session[f.session].policy.pcrs = ChipRegisters
        /\ pc = "unseal.unseal" => tpm.object[f.object].policy = f.blob

DataReleased == f.data # Nil => f.client \in Openers /\ KeysOnlyAsSealed

KeysIInv == RegistersKnown /\ FileMeans /\ Sealing /\ Opening /\ DataReleased

-----------------------------------------------------------------------------
(* Registers as sequences of what was extended into them.                  *)

Upto(s, n) == [i \in 1 .. n |-> s[i]]

LEMMA UptoNext ==
    ASSUME NEW s \in Seq(Digests), NEW n \in Nat, NEW m, m = n + 1, m <= Len(s)
    PROVE  Append(Upto(s, n), s[m]) = Upto(s, m)
<1>1. \A i \in 1 .. m : s[i] \in Digests
    BY ElementOfSeq
<1>2. Upto(s, n) \in [1 .. n -> Digests] /\ Upto(s, m) \in [1 .. m -> Digests]
    BY <1>1 DEF Upto
<1>3. Upto(s, n) \in Seq(Digests) /\ Upto(s, m) \in Seq(Digests) /\ m \in Nat
    BY <1>2, SeqDef
<1>4. Len(Upto(s, n)) = n /\ Len(Upto(s, m)) = m
    BY <1>2, <1>3, LenProperties
<1> DEFINE a == Append(Upto(s, n), s[m])
<1>5. s[m] \in Digests
    BY <1>1
<1>6. /\ a \in Seq(Digests) /\ Len(a) = m /\ a[m] = s[m]
      /\ \A i \in 1 .. n : a[i] = Upto(s, n)[i]
    BY <1>3, <1>4, <1>5, AppendProperties
<1>7. \A i \in 1 .. m : a[i] = Upto(s, m)[i]
    BY <1>6 DEF Upto
<1> HIDE DEF a
<1>8. a = Upto(s, m)
    BY <1>3, <1>4, <1>6, <1>7, SeqEqual
<1>9. QED
    BY <1>8 DEF a

LEMMA UptoAll ==
    ASSUME NEW s \in Seq(Digests)
    PROVE  Upto(s, Len(s)) = s /\ Upto(s, 0) = <<>>
<1>1. s \in [1 .. Len(s) -> Digests]
    BY LenProperties
<1>2. QED
    BY <1>1 DEF Upto

\* The three values of MeasureLinuxScenario.
ScenarioDigests == ScenarioUpTo(3)

LEMMA ScenarioTyped ==
    /\ ScenarioDigests \in Seq(Digests) /\ Len(ScenarioDigests) = 3
    /\ ScenarioDigests[1] = <<"", "10000000">> /\ ScenarioDigests[2] = <<"", "0200F000">>
    /\ ScenarioDigests[3] = <<"", "01000000">>
    /\ \A n \in 0 .. 3 : ScenarioUpTo(n) = Upto(ScenarioDigests, n)
<1>1. /\ ScenarioDigests[1] = <<"", "10000000">> /\ ScenarioDigests[2] = <<"", "0200F000">>
      /\ ScenarioDigests[3] = <<"", "01000000">>
  <2>1. /\ MeasureLinuxScenario[1] = "10000000" /\ MeasureLinuxScenario[2] = "0200F000"
        /\ MeasureLinuxScenario[3] = "01000000"
      BY DEF MeasureLinuxScenario
  <2>2. \A i \in 1 .. 3 : ScenarioDigests[i] = <<"", MeasureLinuxScenario[i]>>
      BY DEF ScenarioDigests, ScenarioUpTo, ComputeHash
  <2>3. 1 \in 1 .. 3 /\ 2 \in 1 .. 3 /\ 3 \in 1 .. 3
      OBVIOUS
  <2>4. QED
      BY <2>1, <2>2, <2>3, Zenon
<1>2. \A i \in 1 .. 3 : ScenarioDigests[i] \in Digests
  <2>1. /\ <<"", "10000000">> \in Digests /\ <<"", "0200F000">> \in Digests
        /\ <<"", "01000000">> \in Digests
      BY DEF Digests, Texts
  <2>2. \A i \in 1 .. 3 : i = 1 \/ i = 2 \/ i = 3
      OBVIOUS
  <2>3. QED
      BY <1>1, <2>1, <2>2, Zenon
<1>3. ScenarioDigests \in [1 .. 3 -> Digests]
    BY <1>2 DEF ScenarioDigests, ScenarioUpTo
<1>4. ScenarioDigests \in Seq(Digests)
    BY <1>3, SeqDef
<1>5. Len(ScenarioDigests) = 3
    BY <1>3, <1>4, LenProperties
<1>6. \A n \in 0 .. 3 : ScenarioUpTo(n) = Upto(ScenarioDigests, n)
    BY DEF ScenarioDigests, ScenarioUpTo, Upto
<1>7. QED
    BY <1>1, <1>4, <1>5, <1>6

LEMMA ScenarioNext ==
    ASSUME NEW n \in {0, 1, 2}, NEW m, m = n + 1
    PROVE  Append(Upto(ScenarioDigests, n), ScenarioDigests[m]) = Upto(ScenarioDigests, m)
<1>1. ScenarioDigests \in Seq(Digests) /\ Len(ScenarioDigests) = 3
    BY ScenarioTyped
<1>2. n \in Nat /\ m <= Len(ScenarioDigests)
    BY <1>1
<1>3. QED
    BY <1>1, <1>2, UptoNext, Zenon

\* What lsvmload has measured is not capped; a capped register stays capped.
LEMMA NotCapped == ~Capped(ScenarioUpTo(3))
<1>1. \A i \in 1 .. 3 : ScenarioUpTo(3)[i] # Zeros
  <2>1. /\ <<"", "10000000">> # <<"", "zeros">> /\ <<"", "0200F000">> # <<"", "zeros">>
        /\ <<"", "01000000">> # <<"", "zeros">>
      OBVIOUS
  <2>2. Zeros = <<"", "zeros">>
      BY DEF Zeros, ComputeHash
  <2>3. \A i \in 1 .. 3 : i = 1 \/ i = 2 \/ i = 3
      OBVIOUS
  <2>4. QED
      BY <2>1, <2>2, <2>3, ScenarioTyped, Zenon DEF ScenarioDigests
<1>2. DOMAIN ScenarioUpTo(3) = 1 .. 3
    BY DEF ScenarioUpTo
<1>3. QED
    BY <1>1, <1>2 DEF Capped

LEMMA CapAppended ==
    ASSUME NEW s \in Seq(Digests), NEW d \in Digests
    PROVE  /\ d = Zeros => Capped(Append(s, d))
           /\ Capped(s) => Capped(Append(s, d))
<1>1. /\ Append(s, d) \in Seq(Digests) /\ Len(Append(s, d)) = Len(s) + 1 /\ Len(s) \in Nat
      /\ Append(s, d)[Len(s) + 1] = d
      /\ \A i \in 1 .. Len(s) : Append(s, d)[i] = s[i]
    BY AppendProperties, LenProperties
<1>2. DOMAIN Append(s, d) = 1 .. Len(s) + 1 /\ DOMAIN s = 1 .. Len(s)
    BY <1>1, LenProperties
<1>3. QED
    BY <1>1, <1>2 DEF Capped

\* The measurements of the firmware, one by one.
LEMMA FirmwareMeasures ==
    ASSUME NEW v \in Variables, NEW F, F = Firmware(v)[7]
    PROVE  /\ F \in Seq(Digests)
           /\ v["SecureBoot"] = "00" => Len(F) = 6
           /\ v["SecureBoot"] = "01" => Len(F) = 7 /\ F[7] = <<"db", "entry">>
           /\ F[1] = <<"SecureBoot", v["SecureBoot"]>>
           /\ F[2] = <<"PK", v["PK"]>> /\ F[3] = <<"KEK", v["KEK"]>>
           /\ F[4] = <<"db", v["db"]>> /\ F[5] = <<"dbx", v["dbx"]>>
           /\ F[6] = <<"", "00000000">>
<1> DEFINE a == <<HashVariable("SecureBoot", v["SecureBoot"]),
                  HashVariable("PK", v["PK"]), HashVariable("KEK", v["KEK"]),
                  HashVariable("db", v["db"]), HashVariable("dbx", v["dbx"]),
                  ComputeHash("00000000")>>
           d == IF v["SecureBoot"] = "01"
                THEN <<HashVariable("db", CheckImageDB(v["db"]))>> ELSE <<>>
<1>1. Firmware(v) \in Registers /\ 7 \in PCRs
    BY FirmwareTyped DEF PCRs
<1>2. F \in Seq(Digests)
    BY <1>1 DEF Registers
<1>3. F = a \o d
    BY <1>1 DEF Firmware
<1>4. /\ Len(a) = 6 /\ a[1] = <<"SecureBoot", v["SecureBoot"]>>
      /\ a[2] = <<"PK", v["PK"]>> /\ a[3] = <<"KEK", v["KEK"]>>
      /\ a[4] = <<"db", v["db"]>> /\ a[5] = <<"dbx", v["dbx"]>>
      /\ a[6] = <<"", "00000000">>
    BY DEF HashVariable, ComputeHash
<1>5. /\ v["SecureBoot"] = "00" => Len(d) = 0
      /\ v["SecureBoot"] = "01" => Len(d) = 1 /\ d[1] = <<"db", "entry">>
  <2>1. v["db"] = "trusted"
      BY DEF Variables
  <2>2. QED
      BY <2>1 DEF HashVariable, CheckImageDB
<1>6. v["SecureBoot"] \in {"00", "01"}
    BY DEF Variables
<1> DEFINE S == {a[1], a[2], a[3], a[4], a[5], a[6], HashVariable("db", CheckImageDB(v["db"]))}
<1>7. a \in Seq(S)
    OBVIOUS
<1>8. d \in Seq(S)
  <2>1. <<HashVariable("db", CheckImageDB(v["db"]))>> \in Seq(S) /\ <<>> \in Seq(S)
      OBVIOUS
  <2> HIDE DEF S
  <2>2. QED
      BY <2>1
<1> HIDE DEF a, d, S
<1>9. /\ Len(F) = Len(a) + Len(d)
      /\ \A i \in 1 .. Len(a) + Len(d) : F[i] = IF i <= Len(a) THEN a[i] ELSE d[i - Len(a)]
    BY <1>3, <1>7, <1>8, ConcatProperties
<1>10. Len(d) \in Nat
    BY <1>5, <1>6
<1>14. Len(a) = 6 /\ (v["SecureBoot"] = "01" => Len(d) = 1) /\ (v["SecureBoot"] = "00" => Len(d) = 0)
    BY <1>4, <1>5
<1>11. \A i \in 1 .. 6 : F[i] = a[i]
    BY <1>9, <1>10, <1>14
<1>12. Len(d) = 1 => F[7] = d[1] /\ Len(F) = 7
    BY <1>9, <1>14
<1>19. Len(d) = 0 => Len(F) = 6
    BY <1>9, <1>14
<1>15. F[1] = a[1] /\ F[2] = a[2] /\ F[3] = a[3] /\ F[4] = a[4] /\ F[5] = a[5] /\ F[6] = a[6]
    BY <1>11
<1>16. (v["SecureBoot"] = "01" => Len(F) = 7) /\ (v["SecureBoot"] = "00" => Len(F) = 6)
    BY <1>12, <1>14, <1>19, Zenon
<1>17. v["SecureBoot"] = "01" => F[7] = <<"db", "entry">>
    BY <1>5, <1>12, <1>14, Zenon
<1>18. QED
    BY <1>2, <1>4, <1>15, <1>16, <1>17, Zenon

\* Two boots with the same PCR[7] have the same variables.
LEMMA FirmwareTells ==
    ASSUME NEW v \in Variables, NEW w \in Variables, Firmware(v)[7] = Firmware(w)[7]
    PROVE  v["SecureBoot"] = w["SecureBoot"] /\ v["dbx"] = w["dbx"]
<1> DEFINE F == Firmware(v)[7]
<1>0. F = Firmware(w)[7]
    OBVIOUS
<1>1. F[1] = <<"SecureBoot", v["SecureBoot"]>> /\ F[5] = <<"dbx", v["dbx"]>>
    BY FirmwareMeasures
<1> HIDE DEF F
<1>2. F[1] = <<"SecureBoot", w["SecureBoot"]>> /\ F[5] = <<"dbx", w["dbx"]>>
    BY <1>0, FirmwareMeasures
<1>3. /\ <<"SecureBoot", v["SecureBoot"]>> = <<"SecureBoot", w["SecureBoot"]>>
      /\ <<"dbx", v["dbx"]>> = <<"dbx", w["dbx"]>>
    BY <1>1, <1>2
<1>4. QED
    BY <1>3

-----------------------------------------------------------------------------
(* What the policies predict.                                              *)

\* Both tables begin with the static entries; only one has the entry of db.
TableOf(vs, n) ==
    /\ DOMAIN vs = 1 .. n
    /\ vs[1].path = <<"SecureBoot", "False">> /\ vs[1].data = "00"
    /\ vs[2].path = <<"SecureBoot", "True">> /\ vs[2].data = "01"
    /\ vs[3].path = <<"SEPARATOR", "">> /\ vs[3].data = "00000000"
    /\ vs[4].path = <<"ALLOW_PREBOOT_SEALING", "">> /\ vs[4].data = "10000000"
    /\ vs[5].path = <<"LINUX_SCENARIO_ID", "">> /\ vs[5].data = "0200F000"
    /\ vs[6].path = <<"LINUX_SCENARIO_VERSION", "">> /\ vs[6].data = "01000000"
    /\ n = 7 => vs[7].path = <<"db", "Entry">> /\ vs[7].data = "entry"

LEMMA Tables == TableOf(StaticVars, 6) /\ TableOf(VarsWithEntry, 7)
<1> DEFINE x == Var("db", "Entry", "entry")
           S == {Var("SecureBoot", "False", "00"), Var("SecureBoot", "True", "01"),
                 Var("SEPARATOR", "", "00000000"),
                 Var("ALLOW_PREBOOT_SEALING", "", "10000000"),
                 Var("LINUX_SCENARIO_ID", "", "0200F000"),
                 Var("LINUX_SCENARIO_VERSION", "", "01000000"), x}
<1>1. Len(StaticVars) = 6
    BY DEF StaticVars
<1>2. StaticVars \in Seq(S) /\ x \in S
    BY DEF StaticVars
<1>3. /\ StaticVars[1].path = <<"SecureBoot", "False">> /\ StaticVars[1].data = "00"
      /\ StaticVars[2].path = <<"SecureBoot", "True">> /\ StaticVars[2].data = "01"
      /\ StaticVars[3].path = <<"SEPARATOR", "">> /\ StaticVars[3].data = "00000000"
    BY DEF StaticVars, Var
<1>4. /\ StaticVars[4].path = <<"ALLOW_PREBOOT_SEALING", "">> /\ StaticVars[4].data = "10000000"
      /\ StaticVars[5].path = <<"LINUX_SCENARIO_ID", "">> /\ StaticVars[5].data = "0200F000"
      /\ StaticVars[6].path = <<"LINUX_SCENARIO_VERSION", "">> /\ StaticVars[6].data = "01000000"
    BY DEF StaticVars, Var
<1>5. x.path = <<"db", "Entry">> /\ x.data = "entry"
    BY DEF Var
<1>6. DOMAIN StaticVars = 1 .. 6 /\ 6 # 7
    BY DEF StaticVars
<1>7. TableOf(StaticVars, 6)
    BY <1>3, <1>4, <1>6, Zenon DEF TableOf
<1> HIDE DEF S, x
<1>8. VarsWithEntry = Append(StaticVars, x)
    BY DEF VarsWithEntry, x
<1>9. /\ VarsWithEntry \in Seq(S) /\ Len(VarsWithEntry) = 7 /\ VarsWithEntry[7] = x
      /\ \A i \in 1 .. 6 : VarsWithEntry[i] = StaticVars[i]
  <2>1. /\ Append(StaticVars, x) \in Seq(S)
        /\ Len(Append(StaticVars, x)) = Len(StaticVars) + 1
        /\ \A i \in 1 .. Len(StaticVars) : Append(StaticVars, x)[i] = StaticVars[i]
        /\ Append(StaticVars, x)[Len(StaticVars) + 1] = x
      BY <1>2, AppendProperties
  <2>2. QED
      BY <1>1, <1>8, <2>1
<1>10. DOMAIN VarsWithEntry = 1 .. 7
    BY <1>9, LenProperties
<1>11. /\ VarsWithEntry[1] = StaticVars[1] /\ VarsWithEntry[2] = StaticVars[2]
       /\ VarsWithEntry[3] = StaticVars[3] /\ VarsWithEntry[4] = StaticVars[4]
       /\ VarsWithEntry[5] = StaticVars[5] /\ VarsWithEntry[6] = StaticVars[6]
    BY <1>9
<1>12. TableOf(VarsWithEntry, 7)
    BY <1>3, <1>4, <1>5, <1>9, <1>10, <1>11, Zenon DEF TableOf
<1>13. QED
    BY <1>7, <1>12

\* A path that is in the table once, and one that is not.
LEMMA FoundOnce ==
    ASSUME NEW vs, NEW n \in Nat, DOMAIN vs = 1 .. n, NEW path, NEW i \in 1 .. n,
           vs[i].path = path, \A j \in 1 .. n : vs[j].path = path => j = i
    PROVE  VarsFind(vs, path) = vs[i].data
<1> DEFINE hits == {j \in DOMAIN vs : vs[j].path = path}
           k == CHOOSE j \in hits : \A m \in hits : j <= m
<1>1. hits = {i}
    OBVIOUS
<1>2. VarsFind(vs, path) = vs[k].data
    BY <1>1 DEF VarsFind
<1> HIDE DEF hits
<1>3. i \in hits /\ \A m \in hits : i <= m
    BY <1>1
<1>4. k \in hits
    BY <1>3, Zenon
<1>5. k = i
    BY <1>1, <1>4
<1>6. QED
    BY <1>2, <1>5

LEMMA FoundNever ==
    ASSUME NEW vs, NEW n, DOMAIN vs = 1 .. n, NEW path,
           \A j \in 1 .. n : vs[j].path # path
    PROVE  VarsFind(vs, path) = Nil
    BY DEF VarsFind

\* A table with seven different paths, or the first six of them.
PathsOf(vs, n, p1, p2, p3, p4, p5, p6, p7) ==
    /\ DOMAIN vs = 1 .. n
    /\ p1 \notin {p2, p3, p4, p5, p6, p7} /\ p2 \notin {p3, p4, p5, p6, p7}
    /\ p3 \notin {p4, p5, p6, p7} /\ p4 \notin {p5, p6, p7} /\ p5 \notin {p6, p7} /\ p6 # p7
    /\ vs[1].path = p1 /\ vs[2].path = p2 /\ vs[3].path = p3 /\ vs[4].path = p4
    /\ vs[5].path = p5 /\ vs[6].path = p6 /\ (n = 7 => vs[7].path = p7)

LEMMA TableFinds ==
    ASSUME NEW vs, NEW n \in {6, 7},
           NEW p1, NEW p2, NEW p3, NEW p4, NEW p5, NEW p6, NEW p7,
           PathsOf(vs, n, p1, p2, p3, p4, p5, p6, p7)
    PROVE  /\ VarsFind(vs, p1) = vs[1].data /\ VarsFind(vs, p2) = vs[2].data
           /\ VarsFind(vs, p3) = vs[3].data /\ VarsFind(vs, p4) = vs[4].data
           /\ VarsFind(vs, p5) = vs[5].data /\ VarsFind(vs, p6) = vs[6].data
           /\ n = 7 => VarsFind(vs, p7) = vs[7].data
           /\ \A q : q \notin {p1, p2, p3, p4, p5, p6, p7} => VarsFind(vs, q) = Nil
<1> USE DEF PathsOf
<1>1. \A j \in 1 .. n :
        j = 1 \/ j = 2 \/ j = 3 \/ j = 4 \/ j = 5 \/ j = 6 \/ (n = 7 /\ j = 7)
    OBVIOUS
<1>2. n \in Nat /\ 1 \in 1 .. n /\ 2 \in 1 .. n /\ 3 \in 1 .. n /\ 4 \in 1 .. n
      /\ 5 \in 1 .. n /\ 6 \in 1 .. n
    OBVIOUS
<1>4. \A j \in 1 .. n : vs[j].path = p1 => j = 1
    BY <1>1, Zenon
<1>5. \A j \in 1 .. n : vs[j].path = p2 => j = 2
    BY <1>1, Zenon
<1>6. \A j \in 1 .. n : vs[j].path = p3 => j = 3
    BY <1>1, Zenon
<1>7. \A j \in 1 .. n : vs[j].path = p4 => j = 4
    BY <1>1, Zenon
<1>8. \A j \in 1 .. n : vs[j].path = p5 => j = 5
    BY <1>1, Zenon
<1>9. \A j \in 1 .. n : vs[j].path = p6 => j = 6
    BY <1>1, Zenon
<1>10. \A j \in 1 .. n : vs[j].path = p7 => j = 7
    BY <1>1, Zenon
<1>11. \A j \in 1 .. n : vs[j].path \in {p1, p2, p3, p4, p5, p6, p7}
    BY <1>1, Zenon
<1>12. VarsFind(vs, p1) = vs[1].data /\ VarsFind(vs, p2) = vs[2].data
    BY <1>2, <1>4, <1>5, FoundOnce
<1>13. VarsFind(vs, p3) = vs[3].data /\ VarsFind(vs, p4) = vs[4].data
    BY <1>2, <1>6, <1>7, FoundOnce
<1>14. VarsFind(vs, p5) = vs[5].data /\ VarsFind(vs, p6) = vs[6].data
    BY <1>2, <1>8, <1>9, FoundOnce
<1>15. n = 7 => VarsFind(vs, p7) = vs[7].data
  <2>1. SUFFICES ASSUME n = 7 PROVE VarsFind(vs, p7) = vs[7].data
      OBVIOUS
  <2>2. 7 \in 1 .. n /\ vs[7].path = p7
      BY <2>1
  <2>3. QED
      BY <1>2, <1>10, <2>2, FoundOnce
<1>16. ASSUME NEW q, q \notin {p1, p2, p3, p4, p5, p6, p7}
       PROVE  VarsFind(vs, q) = Nil
  <2>1. \A j \in 1 .. n : vs[j].path # q
      BY <1>11, <1>16, Zenon
  <2>2. QED
      BY <2>1, FoundNever
<1>17. QED
    BY <1>12, <1>13, <1>14, <1>15, <1>16, Zenon

\* What the tables say of every path a policy names.
LEMMA TableLookups ==
    ASSUME NEW vs, NEW n \in {6, 7}, TableOf(vs, n)
    PROVE  /\ VarsFind(vs, <<"SecureBoot", "False">>) = "00"
           /\ VarsFind(vs, <<"SecureBoot", "True">>) = "01"
           /\ VarsFind(vs, <<"PK", "">>) = Nil /\ VarsFind(vs, <<"KEK", "">>) = Nil
           /\ VarsFind(vs, <<"db", "">>) = Nil /\ VarsFind(vs, <<"dbx", "">>) = Nil
           /\ VarsFind(vs, <<"SEPARATOR", "">>) = "00000000"
           /\ VarsFind(vs, <<"ALLOW_PREBOOT_SEALING", "">>) = "10000000"
           /\ VarsFind(vs, <<"LINUX_SCENARIO_ID", "">>) = "0200F000"
           /\ VarsFind(vs, <<"LINUX_SCENARIO_VERSION", "">>) = "01000000"
           /\ n = 7 => VarsFind(vs, <<"db", "Entry">>) = "entry"
<1> DEFINE p1 == <<"SecureBoot", "False">>
           p2 == <<"SecureBoot", "True">>
           p3 == <<"SEPARATOR", "">>
           p4 == <<"ALLOW_PREBOOT_SEALING", "">>
           p5 == <<"LINUX_SCENARIO_ID", "">>
           p6 == <<"LINUX_SCENARIO_VERSION", "">>
           p7 == <<"db", "Entry">>
<1>1. /\ DOMAIN vs = 1 .. n
      /\ vs[1].path = p1 /\ vs[1].data = "00"
      /\ vs[2].path = p2 /\ vs[2].data = "01"
      /\ vs[3].path = p3 /\ vs[3].data = "00000000"
      /\ vs[4].path = p4 /\ vs[4].data = "10000000"
      /\ vs[5].path = p5 /\ vs[5].data = "0200F000"
      /\ vs[6].path = p6 /\ vs[6].data = "01000000"
    BY Zenon DEF TableOf
<1>2. n = 7 => vs[7].path = p7 /\ vs[7].data = "entry"
    BY Zenon DEF TableOf
<1>3. p1 \notin {p2, p3, p4, p5, p6, p7} /\ p2 \notin {p3, p4, p5, p6, p7}
    OBVIOUS
<1>4. p3 \notin {p4, p5, p6, p7} /\ p4 \notin {p5, p6, p7} /\ p5 \notin {p6, p7} /\ p6 # p7
    OBVIOUS
<1>5. /\ <<"PK", "">> \notin {p1, p2, p3, p4, p5, p6, p7}
      /\ <<"KEK", "">> \notin {p1, p2, p3, p4, p5, p6, p7}
      /\ <<"db", "">> \notin {p1, p2, p3, p4, p5, p6, p7}
      /\ <<"dbx", "">> \notin {p1, p2, p3, p4, p5, p6, p7}
    OBVIOUS
<1> HIDE DEF p1, p2, p3, p4, p5, p6, p7
<1>6. /\ VarsFind(vs, p1) = vs[1].data /\ VarsFind(vs, p2) = vs[2].data
      /\ VarsFind(vs, p3) = vs[3].data /\ VarsFind(vs, p4) = vs[4].data
      /\ VarsFind(vs, p5) = vs[5].data /\ VarsFind(vs, p6) = vs[6].data
      /\ n = 7 => VarsFind(vs, p7) = vs[7].data
      /\ \A q : q \notin {p1, p2, p3, p4, p5, p6, p7} => VarsFind(vs, q) = Nil
  <2>1. PathsOf(vs, n, p1, p2, p3, p4, p5, p6, p7)
      BY <1>1, <1>2, <1>3, <1>4, Zenon DEF PathsOf
  <2>2. QED
      BY <2>1, TableFinds
<1>7. QED
    BY <1>1, <1>2, <1>5, <1>6, Zenon DEF p1, p2, p3, p4, p5, p6, p7

\* The registers of a prediction, SHA256 bank, and its mask.
Shows(m, mask, s, t) ==
    /\ m \in Measures /\ m.ok /\ m.mask = mask
    /\ m.banks["SHA256"][7] = s /\ m.banks["SHA256"][11] = t

LEMMA MeasureShows ==
    ASSUME NEW m, NEW mask, NEW s, NEW t, Shows(m, mask, s, t), NEW d \in Digests
    PROVE  /\ Shows(Measure(m, 7, d), mask \cup {7}, Append(s, d), t)
           /\ Shows(Measure(m, 11, d), mask \cup {11}, s, Append(t, d))
<1>1. m \in Measures /\ m.banks["SHA256"] \in Registers
    BY DEF Shows, Measures, Banks
<1>2. ASSUME NEW p \in Mask
      PROVE  /\ Measure(m, p, d) \in Measures /\ Measure(m, p, d).ok
             /\ Measure(m, p, d).mask = m.mask \cup {p}
             /\ Measure(m, p, d).banks["SHA256"]
                  = [m.banks["SHA256"] EXCEPT ![p] = Append(m.banks["SHA256"][p], d)]
  <2>1. Measure(m, p, d) \in Measures
      BY <1>1, Measured
  <2> DEFINE x == _Extend(m.banks, p, d)
             k == m.mask \cup {p}
  <2>2. x["SHA256"] = [m.banks["SHA256"] EXCEPT ![p] = Append(m.banks["SHA256"][p], d)]
      BY DEF _Extend, Banks
  <2>3. Measure(m, p, d) = [m EXCEPT !.ok = TRUE, !.banks = x, !.mask = k]
      BY DEF Measure
  <2> HIDE DEF x, k
  <2>4. Measure(m, p, d).ok /\ Measure(m, p, d).mask = k /\ Measure(m, p, d).banks = x
      BY <1>1, <2>3 DEF Measures
  <2>5. QED
      BY <2>1, <2>2, <2>4 DEF k
<1>3. 7 \in Mask /\ 11 \in Mask /\ 7 \in PCRs /\ 11 \in PCRs /\ 7 # 11
    BY DEF Mask, PCRs
<1>4. /\ [m.banks["SHA256"] EXCEPT ![7] = Append(m.banks["SHA256"][7], d)][7] = Append(s, d)
      /\ [m.banks["SHA256"] EXCEPT ![7] = Append(m.banks["SHA256"][7], d)][11] = t
      /\ [m.banks["SHA256"] EXCEPT ![11] = Append(m.banks["SHA256"][11], d)][11] = Append(t, d)
      /\ [m.banks["SHA256"] EXCEPT ![11] = Append(m.banks["SHA256"][11], d)][7] = s
    BY <1>1, <1>3 DEF Shows, Registers
<1>5. Shows(Measure(m, 7, d), mask \cup {7}, Append(s, d), t)
    BY <1>2, <1>3, <1>4 DEF Shows
<1>6. Shows(Measure(m, 11, d), mask \cup {11}, s, Append(t, d))
    BY <1>2, <1>3, <1>4 DEF Shows
<1>7. QED
    BY <1>5, <1>6

\* What one entry adds, if it can be measured.
EntryIs(e, name, ext, type, pcr) ==
    e.path = <<name, ext>> /\ e.path[1] = name /\ e.type = type /\ e.pcr = pcr

LEMMA FieldsOfEntry ==
    ASSUME NEW name, NEW ext, NEW type, NEW pcr
    PROVE  EntryIs(Entry(name, ext, type, pcr), name, ext, type, pcr)
    BY DEF EntryIs, Entry

LEMMA NotMeasured ==
    ASSUME NEW r \in Measures
    PROVE  ~Unmeasured(r).ok
    BY DEF Unmeasured, Measures

LEMMA NoFilesLoaded ==
    ASSUME NEW vs, NEW path
    PROVE  _LoadVariableOrFile(vs, NoFiles, path) = VarsFind(vs, path)
    BY DEF _LoadVariableOrFile, VarsLoad, NoFiles

LEMMA StepTaken ==
    ASSUME NEW r \in Measures, NEW vs, NEW files, NEW v, NEW e, NEW x,
           x = MeasureStep(r, vs, files, v, e), x.ok
    PROVE  r.ok /\ x = MeasureEntry(r, vs, files, v, e) /\ x # Unmeasured(r)
    BY NotMeasured DEF MeasureStep

StepOf(x, r, vs, v, e) ==
    r \in Measures /\ x = MeasureStep(r, vs, NoFiles, v, e) /\ x.ok
Measurement(x, r, p, d) == r.ok /\ x = Measure(r, p, d)

LEMMA StepFound ==
    ASSUME NEW r, NEW vs, NEW v, NEW e, NEW x, StepOf(x, r, vs, v, e),
           NEW name, NEW ext, NEW p, EntryIs(e, name, ext, "EFIVAR", p),
           VarsFind(vs, <<name, ext>>) # Nil
    PROVE  Measurement(x, r, p, <<name, VarsFind(vs, <<name, ext>>)>>)
<1>1. r.ok /\ x = MeasureEntry(r, vs, NoFiles, v, e)
    BY StepTaken DEF StepOf
<1> DEFINE d == VarsFind(vs, <<name, ext>>)
<1>2. _LoadVariableOrFile(vs, NoFiles, e.path) = d /\ d # Nil
    BY NoFilesLoaded DEF EntryIs
<1> HIDE DEF d
<1>3. x = Measure(r, p, <<name, d>>)
    BY <1>1, <1>2 DEF EntryIs, MeasureEntry, MeasureEFIVariable, HashVariable
<1>4. QED
    BY <1>1, <1>3 DEF d, Measurement

LEMMA StepFromFirmware ==
    ASSUME NEW r, NEW vs, NEW v, NEW e, NEW x, StepOf(x, r, vs, v, e),
           NEW name, NEW ext, NEW p, EntryIs(e, name, ext, "EFIVAR", p),
           VarsFind(vs, <<name, ext>>) = Nil, name \in DOMAIN v
    PROVE  Measurement(x, r, p, <<name, v[name]>>)
<1>1. r.ok /\ x = MeasureEntry(r, vs, NoFiles, v, e) /\ x # Unmeasured(r)
    BY StepTaken DEF StepOf
<1>2. _LoadVariableOrFile(vs, NoFiles, e.path) = Nil
    BY NoFilesLoaded DEF EntryIs
<1>3. LoadEFIVar(v, e.path[1]) = v[name]
    BY DEF EntryIs, LoadEFIVar
<1>4. x = Measure(r, p, <<name, v[name]>>)
    BY <1>1, <1>2, <1>3 DEF EntryIs, MeasureEntry, MeasureEFIVariable, HashVariable
<1>5. QED
    BY <1>1, <1>4 DEF Measurement

LEMMA StepBinary ==
    ASSUME NEW r, NEW vs, NEW v, NEW e, NEW x, StepOf(x, r, vs, v, e),
           NEW name, NEW ext, NEW p, EntryIs(e, name, ext, "BINARY", p)
    PROVE  Measurement(x, r, p, <<"", VarsFind(vs, <<name, ext>>)>>)
<1>1. r.ok /\ x = MeasureEntry(r, vs, NoFiles, v, e) /\ x # Unmeasured(r)
    BY StepTaken DEF StepOf
<1> DEFINE d == VarsFind(vs, <<name, ext>>)
<1>2. _LoadVariableOrFile(vs, NoFiles, e.path) = d
    BY NoFilesLoaded DEF EntryIs
<1> HIDE DEF d
<1>3. x = Measure(r, p, <<"", d>>)
    BY <1>1, <1>2 DEF EntryIs, MeasureEntry, MeasureBinaryFile, ComputeHash
<1>4. QED
    BY <1>1, <1>3 DEF d, Measurement

\* Entries that predict F in PCR[7] and then the scenario in PCR[11].
Predicts(g, k, F) ==
    /\ k \in Nat \ {0} /\ F \in Seq(Digests) /\ Len(F) = k
    /\ g[0] = Unextended /\ Unextended \in Measures
    /\ \A n \in 1 .. k : g[n].ok => Measurement(g[n], g[n - 1], 7, F[n])
    /\ \A n \in 1 .. 3 :
         g[k + n].ok => Measurement(g[k + n], g[k + n - 1], 11, ScenarioDigests[n])
    /\ g[k + 3].ok

LEMMA PredictionShown ==
    ASSUME NEW g, NEW k, NEW F, Predicts(g, k, F)
    PROVE  Predicted(g[k + 3]) = BootTable(F)
<1> /\ k \in Nat \ {0} /\ F \in Seq(Digests) /\ Len(F) = k
    /\ g[0] = Unextended /\ Unextended \in Measures
    /\ \A n \in 1 .. k : g[n].ok => g[n - 1].ok /\ g[n] = Measure(g[n - 1], 7, F[n])
    /\ \A n \in 1 .. 3 :
         g[k + n].ok => /\ g[k + n - 1].ok
                        /\ g[k + n] = Measure(g[k + n - 1], 11, ScenarioDigests[n])
    /\ g[k + 3].ok
    BY Zenon DEF Predicts, Measurement
<1>1. Shows(g[0], {}, Upto(F, 0), <<>>)
  <2>1. Upto(F, 0) = <<>>
      BY UptoAll
  <2>2. QED
      BY <2>1 DEF Shows, Unextended, Banks, PCRs
<1> DEFINE K(n) == IF n = 0 THEN {} ELSE {7}
           Fits(n) == g[n].ok => Shows(g[n], K(n), Upto(F, n), <<>>)
<1> HIDE DEF K
<1>2. ASSUME NEW n \in 1 .. k, Fits(n - 1)
      PROVE  Fits(n)
  <2>1. SUFFICES ASSUME g[n].ok PROVE Shows(g[n], {7}, Upto(F, n), <<>>)
      BY DEF K
  <2>2. Shows(g[n - 1], K(n - 1), Upto(F, n - 1), <<>>) /\ g[n] = Measure(g[n - 1], 7, F[n])
      BY <1>2, <2>1
  <2>3. F[n] \in Digests
      BY ElementOfSeq
  <2>4. Shows(g[n], K(n - 1) \cup {7}, Append(Upto(F, n - 1), F[n]), <<>>)
    <3>1. Shows(Measure(g[n - 1], 7, F[n]), K(n - 1) \cup {7}, Append(Upto(F, n - 1), F[n]), <<>>)
        BY <2>2, <2>3, MeasureShows, Zenon
    <3>2. QED
        BY <2>2, <3>1, Zenon
  <2>5. Append(Upto(F, n - 1), F[n]) = Upto(F, n)
    <3>1. n - 1 \in Nat /\ n = (n - 1) + 1 /\ n <= Len(F)
        OBVIOUS
    <3>2. QED
        BY <3>1, UptoNext
  <2>6. K(n - 1) \cup {7} = {7}
      BY DEF K
  <2>7. QED
      BY <2>4, <2>5, <2>6
<1>3. \A n \in 0 .. k : Fits(n)
  <2> DEFINE S == {n \in 0 .. k : ~Fits(n)}
  <2>1. SUFFICES ASSUME S # {} PROVE FALSE
      OBVIOUS
  <2>2. PICK j \in S : \A i \in S : j <= i
    <3>1. S \subseteq Nat
        OBVIOUS
    <3> HIDE DEF S
    <3>2. QED
        BY <2>1, <3>1, LeastElement
  <2>3. j \in 0 .. k /\ ~Fits(j)
      BY Zenon
  <2>4. Fits(0)
      BY <1>1 DEF K
  <2>5. j # 0
      BY <2>3, <2>4, Zenon
  <2>6. j \in 1 .. k /\ j - 1 \in 0 .. k /\ ~(j <= j - 1)
      BY <2>3, <2>5
  <2>7. Fits(j - 1)
      BY <2>2, <2>6, Zenon
  <2>8. QED
      BY <1>2, <2>3, <2>6, <2>7, Zenon
<1>4. /\ g[k + 3].ok /\ g[k + 2].ok /\ g[k + 1].ok /\ g[k].ok
      /\ g[k + 1] = Measure(g[k], 11, ScenarioDigests[1])
      /\ g[k + 2] = Measure(g[k + 1], 11, ScenarioDigests[2])
      /\ g[k + 3] = Measure(g[k + 2], 11, ScenarioDigests[3])
  <2>1. g[k + 2].ok /\ g[k + 3] = Measure(g[k + 2], 11, ScenarioDigests[3])
    <3>1. 3 \in 1 .. 3 /\ k + 3 - 1 = k + 2
        OBVIOUS
    <3>2. QED
        BY <3>1
  <2>2. g[k + 1].ok /\ g[k + 2] = Measure(g[k + 1], 11, ScenarioDigests[2])
    <3>1. 2 \in 1 .. 3 /\ k + 2 - 1 = k + 1
        OBVIOUS
    <3>2. QED
        BY <2>1, <3>1
  <2>3. g[k].ok /\ g[k + 1] = Measure(g[k], 11, ScenarioDigests[1])
    <3>1. 1 \in 1 .. 3 /\ k + 1 - 1 = k
        OBVIOUS
    <3>2. QED
        BY <2>2, <3>1
  <2>4. QED
      BY <2>1, <2>2, <2>3
<1>5. Shows(g[k], {7}, F, <<>>)
  <2>1. Fits(k)
      BY <1>3
  <2>2. Upto(F, k) = F
      BY UptoAll
  <2>3. QED
      BY <1>4, <2>1, <2>2 DEF K
<1>6. /\ ScenarioDigests \in Seq(Digests) /\ Len(ScenarioDigests) = 3
      /\ Upto(ScenarioDigests, 3) = ScenarioUpTo(3)
  <2>1. 3 \in 0 .. 3
      OBVIOUS
  <2>2. QED
      BY <2>1, ScenarioTyped, Zenon
<1>7. /\ ScenarioDigests[1] \in Digests /\ ScenarioDigests[2] \in Digests
      /\ ScenarioDigests[3] \in Digests
  <2>1. \A i \in 1 .. Len(ScenarioDigests) : ScenarioDigests[i] \in Digests
      BY <1>6, ElementOfSeq
  <2>2. QED
      BY <1>6, <2>1
<1>8. Shows(g[k + 1], {7} \cup {11}, F, Upto(ScenarioDigests, 1))
  <2>1. Append(<<>>, ScenarioDigests[1]) = Upto(ScenarioDigests, 1)
    <3>1. Append(Upto(ScenarioDigests, 0), ScenarioDigests[1]) = Upto(ScenarioDigests, 1)
        BY ScenarioNext
    <3>2. Upto(ScenarioDigests, 0) = <<>>
        BY <1>6, UptoAll
    <3>3. QED
        BY <3>1, <3>2
  <2>2. Shows(Measure(g[k], 11, ScenarioDigests[1]), {7} \cup {11}, F,
              Append(<<>>, ScenarioDigests[1]))
      BY <1>5, <1>7, MeasureShows
  <2>3. QED
      BY <1>4, <2>1, <2>2, Zenon
<1>9. Shows(g[k + 2], {7} \cup {11} \cup {11}, F, Upto(ScenarioDigests, 2))
  <2>1. Append(Upto(ScenarioDigests, 1), ScenarioDigests[2]) = Upto(ScenarioDigests, 2)
      BY ScenarioNext
  <2>2. Shows(Measure(g[k + 1], 11, ScenarioDigests[2]), {7} \cup {11} \cup {11}, F,
              Append(Upto(ScenarioDigests, 1), ScenarioDigests[2]))
      BY <1>7, <1>8, MeasureShows
  <2>3. QED
      BY <1>4, <2>1, <2>2, Zenon
<1>10. Shows(g[k + 3], {7} \cup {11} \cup {11} \cup {11}, F, Upto(ScenarioDigests, 3))
  <2>1. Append(Upto(ScenarioDigests, 2), ScenarioDigests[3]) = Upto(ScenarioDigests, 3)
      BY ScenarioNext
  <2>2. Shows(Measure(g[k + 2], 11, ScenarioDigests[3]), {7} \cup {11} \cup {11} \cup {11}, F,
              Append(Upto(ScenarioDigests, 2), ScenarioDigests[3]))
      BY <1>7, <1>9, MeasureShows
  <2>3. QED
      BY <1>4, <2>1, <2>2, Zenon
<1>11. {7} \cup {11} \cup {11} \cup {11} = Mask
    BY DEF Mask
<1>12. Shows(g[k + 3], Mask, F, ScenarioUpTo(3))
    BY <1>6, <1>10, <1>11
<1>13. QED
    BY <1>12 DEF Shows, Predicted, Mask, BootTable

\* The entries of the policies, one by one.
Joins(s, t, m, k, S) ==
    /\ s \o t \in Seq(S) /\ Len(s \o t) = k
    /\ \A i \in 1 .. m : (s \o t)[i] = s[i]
    /\ \A i \in m + 1 .. k : (s \o t)[i] = t[i - m]

LEMMA Joined ==
    ASSUME NEW S, NEW s \in Seq(S), NEW t \in Seq(S), NEW m \in Nat, NEW n \in Nat, NEW k,
           Len(s) = m, Len(t) = n, k = m + n
    PROVE  Joins(s, t, m, k, S)
<1>1. /\ s \o t \in Seq(S) /\ Len(s \o t) = Len(s) + Len(t)
      /\ \A i \in 1 .. Len(s) + Len(t) :
           (s \o t)[i] = IF i <= Len(s) THEN s[i] ELSE t[i - Len(s)]
    BY ConcatProperties
<1>2. \A i \in 1 .. m : (s \o t)[i] = s[i]
    BY <1>1
<1>3. \A i \in m + 1 .. k : (s \o t)[i] = t[i - m]
    BY <1>1
<1>4. QED
    BY <1>1, <1>2, <1>3 DEF Joins

LEMMA EntriesListed ==
    /\ Len(_policy) = 9 /\ Len(_secureBootPolicy) = 10 /\ Len(FinalPolicy) = 10
    /\ _policy[1] = Entry("SecureBoot", "False", "EFIVAR", 7)
    /\ _secureBootPolicy[1] = Entry("SecureBoot", "True", "EFIVAR", 7)
    /\ _secureBootPolicy[7] = Entry("db", "Entry", "EFIVAR", 7)
    /\ FinalPolicy[10] = Entry("", "", "CAP", 11)
    /\ \A n \in 2 .. 6 : _policy[n] = CommonEntries[n - 1]
    /\ \A n \in 2 .. 6 : _secureBootPolicy[n] = CommonEntries[n - 1]
    /\ \A n \in 7 .. 9 : _policy[n] = ScenarioEntries[n - 6]
    /\ \A n \in 8 .. 10 : _secureBootPolicy[n] = ScenarioEntries[n - 7]
<1> DEFINE a == <<Entry("SecureBoot", "False", "EFIVAR", 7)>>
           b == <<Entry("SecureBoot", "True", "EFIVAR", 7)>>
           c == <<Entry("db", "Entry", "EFIVAR", 7)>>
           d == <<Entry("", "", "CAP", 11)>>
           E == {Entry("SecureBoot", "False", "EFIVAR", 7), Entry("SecureBoot", "True", "EFIVAR", 7),
                 Entry("PK", "", "EFIVAR", 7), Entry("KEK", "", "EFIVAR", 7),
                 Entry("db", "", "EFIVAR", 7), Entry("dbx", "", "EFIVAR", 7),
                 Entry("SEPARATOR", "", "BINARY", 7), Entry("db", "Entry", "EFIVAR", 7),
                 Entry("ALLOW_PREBOOT_SEALING", "", "BINARY", 11),
                 Entry("LINUX_SCENARIO_ID", "", "BINARY", 11),
                 Entry("LINUX_SCENARIO_VERSION", "", "BINARY", 11),
                 Entry("", "", "CAP", 11)}
<1>1. /\ a \in Seq(E) /\ b \in Seq(E) /\ c \in Seq(E) /\ d \in Seq(E)
    OBVIOUS
<1>2. Len(a) = 1 /\ Len(b) = 1 /\ Len(c) = 1 /\ Len(d) = 1
    OBVIOUS
<1>3. /\ a[1] = Entry("SecureBoot", "False", "EFIVAR", 7)
      /\ b[1] = Entry("SecureBoot", "True", "EFIVAR", 7)
      /\ c[1] = Entry("db", "Entry", "EFIVAR", 7)
      /\ d[1] = Entry("", "", "CAP", 11)
    OBVIOUS
<1>4. CommonEntries \in Seq(E)
    BY DEF CommonEntries
<1>5. ScenarioEntries \in Seq(E)
    BY DEF ScenarioEntries
<1>6. Len(CommonEntries) = 5 /\ Len(ScenarioEntries) = 3
    BY DEF CommonEntries, ScenarioEntries
<1> DEFINE ac == a \o CommonEntries
           bc == b \o CommonEntries
           e == bc \o c
<1>7. /\ _policy = ac \o ScenarioEntries
      /\ _secureBootPolicy = e \o ScenarioEntries
      /\ FinalPolicy = _policy \o d
    BY DEF _policy, _secureBootPolicy, FinalPolicy
<1> HIDE DEF a, b, c, d, E
<1>8. 1 \in Nat /\ 3 \in Nat /\ 5 \in Nat /\ 6 \in Nat /\ 7 \in Nat /\ 9 \in Nat
    OBVIOUS
<1>22. 6 = 1 + 5 /\ 9 = 6 + 3 /\ 7 = 6 + 1 /\ 10 = 7 + 3 /\ 10 = 9 + 1
    OBVIOUS
<1>9. Joins(a, CommonEntries, 1, 6, E)
    BY <1>1, <1>2, <1>4, <1>6, <1>8, <1>22, Joined, Zenon
<1>23. Joins(b, CommonEntries, 1, 6, E)
    BY <1>1, <1>2, <1>4, <1>6, <1>8, <1>22, Joined, Zenon
<1>10. /\ ac \in Seq(E) /\ Len(ac) = 6 /\ ac[1] = a[1]
       /\ \A n \in 2 .. 6 : ac[n] = CommonEntries[n - 1]
    BY <1>9 DEF Joins
<1>11. /\ bc \in Seq(E) /\ Len(bc) = 6 /\ bc[1] = b[1]
       /\ \A n \in 2 .. 6 : bc[n] = CommonEntries[n - 1]
    BY <1>23 DEF Joins
<1> HIDE DEF ac, bc
<1>12. Joins(ac, ScenarioEntries, 6, 9, E)
    BY <1>5, <1>6, <1>8, <1>10, <1>22, Joined, Zenon
<1>24. Joins(bc, c, 6, 7, E)
    BY <1>1, <1>2, <1>8, <1>11, <1>22, Joined, Zenon
<1>13. /\ _policy \in Seq(E) /\ Len(_policy) = 9
       /\ \A n \in 1 .. 6 : _policy[n] = ac[n]
       /\ \A n \in 7 .. 9 : _policy[n] = ScenarioEntries[n - 6]
  <2>1. \A n \in 7 .. 9 : (ac \o ScenarioEntries)[n] = ScenarioEntries[n - 6]
    <3>1. \A n \in 7 .. 9 : n \in 6 + 1 .. 9
        OBVIOUS
    <3>2. QED
        BY <1>12, <3>1, Zenon DEF Joins
  <2>2. /\ ac \o ScenarioEntries \in Seq(E) /\ Len(ac \o ScenarioEntries) = 9
        /\ \A n \in 1 .. 6 : (ac \o ScenarioEntries)[n] = ac[n]
      BY <1>12 DEF Joins
  <2>3. QED
      BY <1>7, <2>1, <2>2, Zenon
<1>14. /\ e \in Seq(E) /\ Len(e) = 7 /\ e[7] = c[1]
       /\ \A n \in 1 .. 6 : e[n] = bc[n]
    BY <1>24 DEF Joins
<1> HIDE DEF e
<1>15. Joins(e, ScenarioEntries, 7, 10, E)
    BY <1>5, <1>6, <1>8, <1>14, <1>22, Joined, Zenon
<1>25. Joins(_policy, d, 9, 10, E)
    BY <1>1, <1>2, <1>8, <1>13, <1>22, Joined, Zenon
<1>16. /\ Len(_secureBootPolicy) = 10
       /\ \A n \in 1 .. 7 : _secureBootPolicy[n] = e[n]
       /\ \A n \in 8 .. 10 : _secureBootPolicy[n] = ScenarioEntries[n - 7]
  <2>1. \A n \in 8 .. 10 : (e \o ScenarioEntries)[n] = ScenarioEntries[n - 7]
    <3>1. \A n \in 8 .. 10 : n \in 7 + 1 .. 10
        OBVIOUS
    <3>2. QED
        BY <1>15, <3>1, Zenon DEF Joins
  <2>2. /\ Len(e \o ScenarioEntries) = 10
        /\ \A n \in 1 .. 7 : (e \o ScenarioEntries)[n] = e[n]
      BY <1>15 DEF Joins
  <2>3. QED
      BY <1>7, <2>1, <2>2, Zenon
<1>17. Len(FinalPolicy) = 10 /\ FinalPolicy[10] = d[1]
  <2>1. 10 \in 9 + 1 .. 10 /\ 10 - 9 = 1
      OBVIOUS
  <2>2. Len(_policy \o d) = 10 /\ (_policy \o d)[10] = d[10 - 9]
      BY <1>25, <2>1, Zenon DEF Joins
  <2>3. QED
      BY <1>7, <2>1, <2>2, Zenon
<1>18. \A n \in 2 .. 6 : _policy[n] = CommonEntries[n - 1]
    BY <1>10, <1>13
<1>19. \A n \in 2 .. 6 : _secureBootPolicy[n] = CommonEntries[n - 1]
    BY <1>11, <1>14, <1>16
<1>20. _policy[1] = a[1] /\ _secureBootPolicy[1] = b[1] /\ _secureBootPolicy[7] = c[1]
    BY <1>10, <1>11, <1>13, <1>14, <1>16
<1>21. QED
    BY <1>3, <1>13, <1>16, <1>17, <1>18, <1>19, <1>20, Zenon

\* What the firmware measures sixth at the latest, and what the scenario is.
FirmwareEntry(e, n) ==
    \/ n = 2 /\ EntryIs(e, "PK", "", "EFIVAR", 7)
    \/ n = 3 /\ EntryIs(e, "KEK", "", "EFIVAR", 7)
    \/ n = 4 /\ EntryIs(e, "db", "", "EFIVAR", 7)
    \/ n = 5 /\ EntryIs(e, "dbx", "", "EFIVAR", 7)
    \/ n = 6 /\ EntryIs(e, "SEPARATOR", "", "BINARY", 7)
ScenarioEntry(e, n) ==
    \/ n = 1 /\ EntryIs(e, "ALLOW_PREBOOT_SEALING", "", "BINARY", 11)
    \/ n = 2 /\ EntryIs(e, "LINUX_SCENARIO_ID", "", "BINARY", 11)
    \/ n = 3 /\ EntryIs(e, "LINUX_SCENARIO_VERSION", "", "BINARY", 11)

LEMMA CommonListed ==
    /\ \A n \in 2 .. 6 : FirmwareEntry(CommonEntries[n - 1], n)
    /\ \A n \in 1 .. 3 : ScenarioEntry(ScenarioEntries[n], n)
<1>1. /\ CommonEntries[1] = Entry("PK", "", "EFIVAR", 7)
      /\ CommonEntries[2] = Entry("KEK", "", "EFIVAR", 7)
      /\ CommonEntries[3] = Entry("db", "", "EFIVAR", 7)
      /\ CommonEntries[4] = Entry("dbx", "", "EFIVAR", 7)
      /\ CommonEntries[5] = Entry("SEPARATOR", "", "BINARY", 7)
    BY DEF CommonEntries
<1>2. /\ ScenarioEntries[1] = Entry("ALLOW_PREBOOT_SEALING", "", "BINARY", 11)
      /\ ScenarioEntries[2] = Entry("LINUX_SCENARIO_ID", "", "BINARY", 11)
      /\ ScenarioEntries[3] = Entry("LINUX_SCENARIO_VERSION", "", "BINARY", 11)
    BY DEF ScenarioEntries
<1>8. \A n \in 2 .. 6 :
        \/ n = 2 /\ n - 1 = 1
        \/ n = 3 /\ n - 1 = 2
        \/ n = 4 /\ n - 1 = 3
        \/ n = 5 /\ n - 1 = 4
        \/ n = 6 /\ n - 1 = 5
    OBVIOUS
<1>3. \A n \in 2 .. 6 :
        \/ n = 2 /\ CommonEntries[n - 1] = Entry("PK", "", "EFIVAR", 7)
        \/ n = 3 /\ CommonEntries[n - 1] = Entry("KEK", "", "EFIVAR", 7)
        \/ n = 4 /\ CommonEntries[n - 1] = Entry("db", "", "EFIVAR", 7)
        \/ n = 5 /\ CommonEntries[n - 1] = Entry("dbx", "", "EFIVAR", 7)
        \/ n = 6 /\ CommonEntries[n - 1] = Entry("SEPARATOR", "", "BINARY", 7)
    BY <1>1, <1>8, Zenon
<1>4. \A n \in 1 .. 3 : n = 1 \/ n = 2 \/ n = 3
    OBVIOUS
<1>5. \A n \in 2 .. 6 : FirmwareEntry(CommonEntries[n - 1], n)
    BY <1>3, FieldsOfEntry, Zenon DEF FirmwareEntry
<1>6. \A n \in 1 .. 3 : ScenarioEntry(ScenarioEntries[n], n)
    BY <1>2, <1>4, FieldsOfEntry, Zenon DEF ScenarioEntry
<1>7. QED
    BY <1>5, <1>6

Follows(F, v) ==
    /\ F[2] = <<"PK", v["PK"]>> /\ F[3] = <<"KEK", v["KEK"]>>
    /\ F[4] = <<"db", v["db"]>> /\ F[5] = <<"dbx", v["dbx"]>> /\ F[6] = <<"", "00000000">>

LEMMA FirmwareEntryMeasured ==
    ASSUME NEW r, NEW vs, NEW k \in {6, 7}, TableOf(vs, k), NEW v \in Variables,
           NEW e, NEW n, FirmwareEntry(e, n),
           NEW x, StepOf(x, r, vs, v, e), NEW F, Follows(F, v)
    PROVE  Measurement(x, r, 7, F[n])
<1>1. /\ F[2] = <<"PK", v["PK"]>> /\ F[3] = <<"KEK", v["KEK"]>>
      /\ F[4] = <<"db", v["db"]>> /\ F[5] = <<"dbx", v["dbx"]>> /\ F[6] = <<"", "00000000">>
    BY DEF Follows
<1>2. "PK" \in DOMAIN v /\ "KEK" \in DOMAIN v /\ "db" \in DOMAIN v /\ "dbx" \in DOMAIN v
    BY DEF Variables
<1>3. /\ VarsFind(vs, <<"PK", "">>) = Nil /\ VarsFind(vs, <<"KEK", "">>) = Nil
      /\ VarsFind(vs, <<"db", "">>) = Nil /\ VarsFind(vs, <<"dbx", "">>) = Nil
      /\ VarsFind(vs, <<"SEPARATOR", "">>) = "00000000"
    BY TableLookups
<1>4. CASE n = 2 /\ EntryIs(e, "PK", "", "EFIVAR", 7)
    BY <1>1, <1>2, <1>3, <1>4, StepFromFirmware, Zenon
<1>5. CASE n = 3 /\ EntryIs(e, "KEK", "", "EFIVAR", 7)
    BY <1>1, <1>2, <1>3, <1>5, StepFromFirmware, Zenon
<1>6. CASE n = 4 /\ EntryIs(e, "db", "", "EFIVAR", 7)
    BY <1>1, <1>2, <1>3, <1>6, StepFromFirmware, Zenon
<1>7. CASE n = 5 /\ EntryIs(e, "dbx", "", "EFIVAR", 7)
    BY <1>1, <1>2, <1>3, <1>7, StepFromFirmware, Zenon
<1>8. CASE n = 6 /\ EntryIs(e, "SEPARATOR", "", "BINARY", 7)
    BY <1>1, <1>3, <1>8, StepBinary, Zenon
<1>9. QED
    BY <1>4, <1>5, <1>6, <1>7, <1>8 DEF FirmwareEntry

LEMMA ScenarioEntryMeasured ==
    ASSUME NEW r, NEW vs, NEW k \in {6, 7}, TableOf(vs, k), NEW v,
           NEW e, NEW n, ScenarioEntry(e, n),
           NEW x, StepOf(x, r, vs, v, e)
    PROVE  Measurement(x, r, 11, ScenarioDigests[n])
<1>1. /\ VarsFind(vs, <<"ALLOW_PREBOOT_SEALING", "">>) = "10000000"
      /\ VarsFind(vs, <<"LINUX_SCENARIO_ID", "">>) = "0200F000"
      /\ VarsFind(vs, <<"LINUX_SCENARIO_VERSION", "">>) = "01000000"
    BY TableLookups
<1>2. CASE n = 1 /\ EntryIs(e, "ALLOW_PREBOOT_SEALING", "", "BINARY", 11)
    BY <1>1, <1>2, ScenarioTyped, StepBinary, Zenon
<1>3. CASE n = 2 /\ EntryIs(e, "LINUX_SCENARIO_ID", "", "BINARY", 11)
    BY <1>1, <1>3, ScenarioTyped, StepBinary, Zenon
<1>4. CASE n = 3 /\ EntryIs(e, "LINUX_SCENARIO_VERSION", "", "BINARY", 11)
    BY <1>1, <1>4, ScenarioTyped, StepBinary, Zenon
<1>5. QED
    BY <1>2, <1>3, <1>4 DEF ScenarioEntry

\* What the firmware will measure with this value of SecureBoot.
LEMMA FirmwareWith ==
    ASSUME NEW v \in Variables, NEW b \in {"00", "01"}, NEW F,
           F = Firmware([v EXCEPT !["SecureBoot"] = b])[7]
    PROVE  /\ F \in Seq(Digests) /\ F[1] = <<"SecureBoot", b>> /\ Follows(F, v)
           /\ b = "00" => Len(F) = 6
           /\ b = "01" => Len(F) = 7 /\ F[7] = <<"db", "entry">>
<1> DEFINE w == [v EXCEPT !["SecureBoot"] = b]
<1>1. /\ w \in Variables /\ w["SecureBoot"] = b /\ w["PK"] = v["PK"] /\ w["KEK"] = v["KEK"]
      /\ w["db"] = v["db"] /\ w["dbx"] = v["dbx"]
    BY DEF Variables
<1>2. F = Firmware(w)[7]
    OBVIOUS
<1> HIDE DEF w
<1>3. /\ F \in Seq(Digests)
      /\ w["SecureBoot"] = "00" => Len(F) = 6
      /\ w["SecureBoot"] = "01" => Len(F) = 7 /\ F[7] = <<"db", "entry">>
      /\ F[1] = <<"SecureBoot", w["SecureBoot"]>>
      /\ F[2] = <<"PK", w["PK"]>> /\ F[3] = <<"KEK", w["KEK"]>>
      /\ F[4] = <<"db", w["db"]>> /\ F[5] = <<"dbx", w["dbx"]>>
      /\ F[6] = <<"", "00000000">>
    BY <1>1, <1>2, FirmwareMeasures, Zenon
<1>4. QED
    BY <1>1, <1>3 DEF Follows

\* seallsvmloadpolicy predicts a boot without secure boot.
LEMMA PlainPredicted ==
    ASSUME NEW v \in Variables, NEW m, m = MeasurePolicy(StaticVars, NoFiles, v, _policy), m.ok
    PROVE  Predicted(m) = BootRegisters("00", v)
<1> DEFINE F == Firmware([v EXCEPT !["SecureBoot"] = "00"])[7]
<1>1. F \in Seq(Digests) /\ F[1] = <<"SecureBoot", "00">> /\ Follows(F, v) /\ Len(F) = 6
    BY FirmwareWith
<1>2. BootRegisters("00", v) = BootTable(F)
    BY DEF BootRegisters
<1> HIDE DEF F
<1>3. Len(_policy) = 9 /\ VarsTyped(StaticVars) /\ FilesTyped(NoFiles) /\ PolicyTyped(_policy)
    BY EntriesListed, TablesTyped, PoliciesTyped
<1>12. PICK g : Unrolled(g, StaticVars, NoFiles, v, _policy)
    BY <1>3, PolicyUnrolled, Zenon
<1>4. /\ MeasurePolicy(StaticVars, NoFiles, v, _policy) = g[9]
      /\ g[0] = Unextended
      /\ \A n \in 1 .. 9 :
           g[n] = MeasureStep(g[n - 1], StaticVars, NoFiles, v, _policy[n])
      /\ \A n \in 0 .. 9 : g[n] \in Measures
    BY <1>3, <1>12, Zenon DEF Unrolled
<1>5. \A n \in 1 .. 9 : g[n].ok => StepOf(g[n], g[n - 1], StaticVars, v, _policy[n])
  <2>1. \A n \in 1 .. 9 : n - 1 \in 0 .. 9
      OBVIOUS
  <2>2. QED
      BY <1>4, <2>1, Zenon DEF StepOf
<1>6. 6 \in {6, 7} /\ TableOf(StaticVars, 6)
    BY Tables
<1>7. ASSUME NEW n \in 1 .. 6, g[n].ok
      PROVE  Measurement(g[n], g[n - 1], 7, F[n])
  <2>1. n \in 1 .. 9 /\ (n = 1 \/ n \in 2 .. 6)
      OBVIOUS
  <2>2. StepOf(g[n], g[n - 1], StaticVars, v, _policy[n])
      BY <1>5, <1>7, <2>1
  <2>3. CASE n = 1
    <3>1. EntryIs(_policy[n], "SecureBoot", "False", "EFIVAR", 7)
        BY <2>3, EntriesListed, FieldsOfEntry, Zenon
    <3>2. VarsFind(StaticVars, <<"SecureBoot", "False">>) = "00"
        BY <1>6, TableLookups, Zenon
    <3>3. "00" # Nil
        BY NilAssumption DEF Texts
    <3>4. QED
        BY <1>1, <2>2, <2>3, <3>1, <3>2, <3>3, StepFound, Zenon
  <2>4. CASE n \in 2 .. 6
    <3>1. FirmwareEntry(_policy[n], n)
        BY <2>4, EntriesListed, CommonListed, Zenon
    <3>2. QED
        BY <1>1, <1>6, <2>2, <3>1, FirmwareEntryMeasured, Zenon
  <2>5. QED
      BY <2>1, <2>3, <2>4
<1>8. ASSUME NEW n \in 1 .. 3, g[6 + n].ok
      PROVE  Measurement(g[6 + n], g[6 + n - 1], 11, ScenarioDigests[n])
  <2> DEFINE j == 6 + n
  <2>1. j \in 1 .. 9 /\ j \in 7 .. 9 /\ j - 6 = n
      OBVIOUS
  <2>6. g[j].ok
      BY <1>8
  <2> HIDE DEF j
  <2>2. StepOf(g[j], g[j - 1], StaticVars, v, _policy[j])
      BY <1>5, <2>1, <2>6, Zenon
  <2>3. _policy[j] = ScenarioEntries[n]
      BY <2>1, EntriesListed, Zenon
  <2>4. ScenarioEntry(_policy[j], n)
      BY <2>3, CommonListed, Zenon
  <2>5. Measurement(g[j], g[j - 1], 11, ScenarioDigests[n])
      BY <1>6, <2>2, <2>4, ScenarioEntryMeasured, Zenon
  <2>7. QED
      BY <2>5 DEF j
<1>9. 6 \in Nat \ {0} /\ 6 + 3 = 9 /\ 0 \in 0 .. 9
    OBVIOUS
<1>10. Predicts(g, 6, F)
    BY <1>1, <1>4, <1>7, <1>8, <1>9, Zenon DEF Predicts
<1>11. Predicted(g[6 + 3]) = BootRegisters("00", v)
    BY <1>2, <1>10, PredictionShown, Zenon
<1>13. g[6 + 3] = m
    BY <1>4, <1>9, Zenon
<1>14. QED
    BY <1>11, <1>13, Zenon

\* seallsvmloadpolicy --secureboot predicts one with it.
LEMMA SecurePredicted ==
    ASSUME NEW v \in Variables, NEW m,
           m = MeasurePolicy(VarsWithEntry, NoFiles, v, _secureBootPolicy), m.ok
    PROVE  Predicted(m) = BootRegisters("01", v)
<1> DEFINE F == Firmware([v EXCEPT !["SecureBoot"] = "01"])[7]
<1>1. /\ F \in Seq(Digests) /\ F[1] = <<"SecureBoot", "01">> /\ Follows(F, v) /\ Len(F) = 7
      /\ F[7] = <<"db", "entry">>
    BY FirmwareWith
<1>2. BootRegisters("01", v) = BootTable(F)
    BY DEF BootRegisters
<1> HIDE DEF F
<1>3. /\ Len(_secureBootPolicy) = 10 /\ VarsTyped(VarsWithEntry) /\ FilesTyped(NoFiles)
      /\ PolicyTyped(_secureBootPolicy)
    BY EntriesListed, TablesTyped, PoliciesTyped
<1>12. PICK g : Unrolled(g, VarsWithEntry, NoFiles, v, _secureBootPolicy)
    BY <1>3, PolicyUnrolled, Zenon
<1>4. /\ MeasurePolicy(VarsWithEntry, NoFiles, v, _secureBootPolicy) = g[10]
      /\ g[0] = Unextended
      /\ \A n \in 1 .. 10 :
           g[n] = MeasureStep(g[n - 1], VarsWithEntry, NoFiles, v, _secureBootPolicy[n])
      /\ \A n \in 0 .. 10 : g[n] \in Measures
    BY <1>3, <1>12, Zenon DEF Unrolled
<1>5. \A n \in 1 .. 10 :
        g[n].ok => StepOf(g[n], g[n - 1], VarsWithEntry, v, _secureBootPolicy[n])
  <2>1. \A n \in 1 .. 10 : n - 1 \in 0 .. 10
      OBVIOUS
  <2>2. QED
      BY <1>4, <2>1, Zenon DEF StepOf
<1>6. 7 \in {6, 7} /\ TableOf(VarsWithEntry, 7)
    BY Tables
<1>7. ASSUME NEW n \in 1 .. 7, g[n].ok
      PROVE  Measurement(g[n], g[n - 1], 7, F[n])
  <2>1. n \in 1 .. 10 /\ (n = 1 \/ n \in 2 .. 6 \/ n = 7)
      OBVIOUS
  <2>2. StepOf(g[n], g[n - 1], VarsWithEntry, v, _secureBootPolicy[n])
      BY <1>5, <1>7, <2>1
  <2>3. CASE n = 1
    <3>1. EntryIs(_secureBootPolicy[n], "SecureBoot", "True", "EFIVAR", 7)
        BY <2>3, EntriesListed, FieldsOfEntry, Zenon
    <3>2. VarsFind(VarsWithEntry, <<"SecureBoot", "True">>) = "01"
        BY <1>6, TableLookups, Zenon
    <3>3. "01" # Nil
        BY NilAssumption DEF Texts
    <3>4. QED
        BY <1>1, <2>2, <2>3, <3>1, <3>2, <3>3, StepFound, Zenon
  <2>4. CASE n \in 2 .. 6
    <3>1. FirmwareEntry(_secureBootPolicy[n], n)
        BY <2>4, EntriesListed, CommonListed, Zenon
    <3>2. QED
        BY <1>1, <1>6, <2>2, <3>1, FirmwareEntryMeasured, Zenon
  <2>5. CASE n = 7
    <3>1. EntryIs(_secureBootPolicy[n], "db", "Entry", "EFIVAR", 7)
        BY <2>5, EntriesListed, FieldsOfEntry, Zenon
    <3>2. VarsFind(VarsWithEntry, <<"db", "Entry">>) = "entry"
        BY <1>6, TableLookups, Zenon
    <3>3. "entry" # Nil
        BY NilAssumption DEF Texts
    <3>4. QED
        BY <1>1, <2>2, <2>5, <3>1, <3>2, <3>3, StepFound, Zenon
  <2>6. QED
      BY <2>1, <2>3, <2>4, <2>5
<1>8. ASSUME NEW n \in 1 .. 3, g[7 + n].ok
      PROVE  Measurement(g[7 + n], g[7 + n - 1], 11, ScenarioDigests[n])
  <2> DEFINE j == 7 + n
  <2>1. j \in 1 .. 10 /\ j \in 8 .. 10 /\ j - 7 = n
      OBVIOUS
  <2>6. g[j].ok
      BY <1>8
  <2> HIDE DEF j
  <2>2. StepOf(g[j], g[j - 1], VarsWithEntry, v, _secureBootPolicy[j])
      BY <1>5, <2>1, <2>6, Zenon
  <2>3. _secureBootPolicy[j] = ScenarioEntries[n]
      BY <2>1, EntriesListed, Zenon
  <2>4. ScenarioEntry(_secureBootPolicy[j], n)
      BY <2>3, CommonListed, Zenon
  <2>5. Measurement(g[j], g[j - 1], 11, ScenarioDigests[n])
      BY <1>6, <2>2, <2>4, ScenarioEntryMeasured, Zenon
  <2>7. QED
      BY <2>5 DEF j
<1>9. 7 \in Nat \ {0} /\ 7 + 3 = 10 /\ 0 \in 0 .. 10
    OBVIOUS
<1>10. Predicts(g, 7, F)
    BY <1>1, <1>4, <1>7, <1>8, <1>9, Zenon DEF Predicts
<1>11. Predicted(g[7 + 3]) = BootRegisters("01", v)
    BY <1>2, <1>10, PredictionShown, Zenon
<1>13. g[7 + 3] = m
    BY <1>4, <1>9, Zenon
<1>14. QED
    BY <1>11, <1>13, Zenon

\* sealpolicy predicts registers of which the last is capped.
LEMMA FinalPredicted ==
    ASSUME NEW v \in Variables, NEW m, m = MeasurePolicy(<<>>, Files, v, FinalPolicy), m.ok
    PROVE  11 \in DOMAIN Predicted(m) /\ Capped(Predicted(m)[11])
<1>1. Len(FinalPolicy) = 10 /\ VarsTyped(<<>>) /\ FilesTyped(Files) /\ PolicyTyped(FinalPolicy)
    BY EntriesListed, TablesTyped, PoliciesTyped
<1>14. PICK g : Unrolled(g, <<>>, Files, v, FinalPolicy)
    BY <1>1, PolicyUnrolled, Zenon
<1>2. /\ MeasurePolicy(<<>>, Files, v, FinalPolicy) = g[10]
      /\ \A n \in 1 .. 10 : g[n] = MeasureStep(g[n - 1], <<>>, Files, v, FinalPolicy[n])
      /\ \A n \in 0 .. 10 : g[n] \in Measures
    BY <1>1, <1>14, Zenon DEF Unrolled
<1>3. 10 \in 1 .. 10 /\ 10 - 1 = 9 /\ 9 \in 0 .. 10
    OBVIOUS
<1>4. m = MeasureStep(g[9], <<>>, Files, v, FinalPolicy[10]) /\ g[9] \in Measures
    BY <1>2, <1>3, Zenon
<1>5. m = MeasureEntry(g[9], <<>>, Files, v, FinalPolicy[10]) /\ g[9].ok
    BY <1>4 DEF MeasureStep
<1>6. FinalPolicy[10].type = "CAP" /\ FinalPolicy[10].pcr = 11
  <2>1. FinalPolicy[10] = Entry("", "", "CAP", 11)
      BY EntriesListed
  <2>2. EntryIs(FinalPolicy[10], "", "", "CAP", 11)
      BY <2>1, FieldsOfEntry
  <2>3. QED
      BY <2>2, Zenon DEF EntryIs
<1>7. m = Measure(g[9], 11, Zeros)
    BY <1>5, <1>6 DEF MeasureEntry, MeasureCap
<1> DEFINE s == g[9].banks["SHA256"][7]
           t == g[9].banks["SHA256"][11]
<1>8. Shows(g[9], g[9].mask, s, t)
    BY <1>4, <1>5 DEF Shows
<1>9. Zeros \in Digests
    BY DEF Zeros, ComputeHash, Digests, Texts
<1>10. t \in Seq(Digests)
    BY <1>4 DEF Measures, Registers, Banks, PCRs
<1> HIDE DEF s, t
<1>11. Shows(m, g[9].mask \cup {11}, s, Append(t, Zeros))
  <2>1. Shows(Measure(g[9], 11, Zeros), g[9].mask \cup {11}, s, Append(t, Zeros))
      BY <1>8, <1>9, MeasureShows
  <2>2. QED
      BY <1>7, <2>1, Zenon
<1>12. Capped(Append(t, Zeros))
    BY <1>9, <1>10, CapAppended, Zenon
<1>13. QED
    BY <1>11, <1>12 DEF Shows, Predicted

-----------------------------------------------------------------------------
(* Most steps change nothing that KeysIInv looks at.                       *)

USE DEF PolicySealers, Openers, PolicySteps, SealSteps, UnsealSteps, CapSteps, LoaderSteps,
        Sealers, Unsealers, Clients

SameKeys(g) ==
    /\ g.client = f.client /\ g.pcrs = f.pcrs /\ g.digest = f.digest
    /\ g.blob = f.blob /\ g.data = f.data
Quiet ==
    /\ nv' = nv /\ file' = file /\ sealedFor' = sealedFor /\ phase' = phase
    /\ tpm'.pcr["SHA256"] = tpm.pcr["SHA256"] /\ SameKeys(f')
Flow ==
    /\ pc # "idle"
    /\ pc' \notin {"scenario", "cap.after", "seal.digest", "seal.create",
                   "unseal.load", "unseal.unseal"}
    /\ pc' \in {"lockreset", "lockout"} => pc \in {"lockreset", "lockout"}
    /\ f.client = "lsvmload" /\ pc' \in Booted => pc \in Booted
    /\ f.client \in PolicySealers /\ pc' \in Predicting => pc \in Predicting
    /\ f.client \in Sealers /\ pc' \in Unpredicted => pc \in Unpredicted \/ f.pcrs = Nil
    /\ f.client \in Openers /\ pc' \in Early => pc \in Early
    /\ f.client \in Openers => pc' # "policy.pcr"

LEMMA QuietStep ==
    ASSUME KeysIInv, Quiet, Flow
    PROVE  KeysIInv'
<1>1. /\ nv' = nv /\ file' = file /\ sealedFor' = sealedFor /\ phase' = phase
      /\ f'.client = f.client /\ f'.pcrs = f.pcrs /\ f'.digest = f.digest
      /\ f'.blob = f.blob /\ f'.data = f.data
    BY DEF Quiet, SameKeys
<1>2. Reg(7)' = Reg(7) /\ Reg(11)' = Reg(11)
    BY DEF Quiet, Reg
<1>3. RegistersKnown'
    BY <1>1, <1>2 DEF KeysIInv, RegistersKnown, Flow
<1>4. FileMeans'
    BY <1>1 DEF KeysIInv, FileMeans
<1>5. Sealing'
    BY <1>1 DEF KeysIInv, Sealing, Flow
<1>6. Opening'
    BY <1>1 DEF KeysIInv, Opening, Flow
<1>7. DataReleased'
    BY <1>1 DEF KeysIInv, DataReleased, KeysOnlyAsSealed, SealedForThisBoot
<1>8. QED
    BY <1>3, <1>4, <1>5, <1>6, <1>7 DEF KeysIInv

\* A client that exits.
LEMMA QuietExit ==
    ASSUME NEW g \in Frames, SameKeys(g), Exit(g)
    PROVE  pc' = "idle" /\ SameKeys(f')
<1>1. pc' = "idle" /\ f' = [g EXCEPT !.vars = _ReleaseLSVMLoadPolicy(g.vars)]
    BY DEF Exit, Goto, Set
<1> DEFINE x == _ReleaseLSVMLoadPolicy(g.vars)
<1>2. f' = [g EXCEPT !.vars = x]
    BY <1>1
<1> HIDE DEF x
<1>3. /\ f'.client = g.client /\ f'.pcrs = g.pcrs /\ f'.digest = g.digest
      /\ f'.blob = g.blob /\ f'.data = g.data
    BY <1>2 DEF Frames
<1>4. QED
    BY <1>1, <1>3 DEF SameKeys

\* The commands that leave the registers alone.
LEMMA SubmitKeeps ==
    ASSUME NEW t, NEW done, done.tpm.pcr = t.pcr, NEW o \in _SubmitCommand(t, done)
    PROVE  o.tpm.pcr = t.pcr
    BY Outcomes

LEMMA PutKeeps ==
    ASSUME NEW t \in Chips, NEW s, NEW x
    PROVE  PutSession(t, s, x).pcr = t.pcr /\ PutObject(t, s, x).pcr = t.pcr
<1> DEFINE y == [t.session EXCEPT ![s] = x]
           z == [t.object EXCEPT ![s] = x]
<1>1. PutSession(t, s, x) = [t EXCEPT !.session = y] /\ PutObject(t, s, x) = [t EXCEPT !.object = z]
    BY DEF PutSession, PutObject
<1> HIDE DEF y, z
<1>2. QED
    BY <1>1 DEF Chips

LEMMA AnswerKeeps ==
    ASSUME NEW t \in Chips, NEW u, u.pcr = t.pcr, NEW out, NEW o \in _SubmitCommand(t, Answer(u, out))
    PROVE  o.tpm.pcr = t.pcr
<1>1. Answer(u, out).tpm.pcr = t.pcr
    BY AnswerFields
<1>2. QED
    BY <1>1, SubmitKeeps, Zenon

LEMMA RefuseKeeps ==
    ASSUME NEW t \in Chips, NEW rc, NEW o \in _SubmitCommand(t, Refuse(t, rc))
    PROVE  o.tpm.pcr = t.pcr
<1>1. Refuse(t, rc).tpm.pcr = t.pcr
    BY RefuseFields
<1>2. QED
    BY <1>1, SubmitKeeps, Zenon

LEMMA LockoutKeeps ==
    ASSUME NEW t \in Chips, NEW o \in TPM2X_SetLockoutParams(t)
    PROVE  o.tpm.pcr = t.pcr
<1> DEFINE u == [t EXCEPT !.tries = "relaxed"]
<1>1. o \in _SubmitCommand(t, Answer(u, Nil))
    BY DEF TPM2X_SetLockoutParams, TPM2_DictionaryAttackParameters
<1>2. u.pcr = t.pcr
    BY DEF Chips
<1> HIDE DEF u
<1>3. QED
    BY <1>1, <1>2, AnswerKeeps

LEMMA CreateSRKKeeps ==
    ASSUME NEW t \in Chips, NEW o \in TPM2X_CreateSRKKey(t)
    PROVE  o.tpm.pcr = t.pcr
<1> DEFINE h == FreeSlot(t.object)
           u == PutObject(t, h, SRK)
<1>1. o \in _SubmitCommand(t, Refuse(t, "memory")) \/ o \in _SubmitCommand(t, Answer(u, h))
    BY DEF TPM2X_CreateSRKKey, TPM2_CreatePrimary, PutObject
<1>2. u.pcr = t.pcr
    BY PutKeeps, Zenon
<1> HIDE DEF u, h
<1>3. QED
    BY <1>1, <1>2, AnswerKeeps, RefuseKeeps

LEMMA StartKeeps ==
    ASSUME NEW t \in Chips, NEW trial, NEW o \in TPM2X_StartAuthSession(t, trial)
    PROVE  o.tpm.pcr = t.pcr
<1> DEFINE s == FreeSlot(t.session)
           new == [type |-> IF trial THEN "trial" ELSE "policy", policy |-> Policy(FALSE, Nil)]
           u == PutSession(t, s, new)
<1>1. o \in _SubmitCommand(t, Refuse(t, "memory")) \/ o \in _SubmitCommand(t, Answer(u, s))
    BY DEF TPM2X_StartAuthSession, TPM2_StartAuthSession, PutSession
<1>2. u.pcr = t.pcr
    BY PutKeeps, Zenon
<1> HIDE DEF u, s, new
<1>3. QED
    BY <1>1, <1>2, AnswerKeeps, RefuseKeeps

LEMMA FlushKeeps ==
    ASSUME NEW t \in Chips, NEW kind \in {"session", "object"}, NEW h,
           NEW o \in TPM2_FlushContext(t, kind, h)
    PROVE  o.tpm.pcr = t.pcr
<1> DEFINE u == PutSession(t, h, Nil)
           w == PutObject(t, h, Nil)
<1>1. \/ o \in _SubmitCommand(t, Refuse(t, "handle"))
      \/ o \in _SubmitCommand(t, Answer(u, Nil)) \/ o \in _SubmitCommand(t, Answer(w, Nil))
  <2>1. CASE kind = "session" /\ h \in Sessions /\ t.session[h] # Nil
      BY <2>1 DEF TPM2_FlushContext, PutSession
  <2>2. CASE kind = "object" /\ h \in Objects /\ t.object[h] # Nil
      BY <2>2 DEF TPM2_FlushContext, PutObject
  <2>3. CASE /\ ~(kind = "session" /\ h \in Sessions /\ t.session[h] # Nil)
             /\ ~(kind = "object" /\ h \in Objects /\ t.object[h] # Nil)
      BY <2>3 DEF TPM2_FlushContext
  <2>4. QED
      BY <2>1, <2>2, <2>3
<1>2. u.pcr = t.pcr /\ w.pcr = t.pcr
    BY PutKeeps, Zenon
<1> HIDE DEF u, w
<1>3. QED
    BY <1>1, <1>2, AnswerKeeps, RefuseKeeps

LEMMA PasswordKeeps ==
    ASSUME NEW t \in Chips, NEW s, NEW o \in TPM2_PolicyPassword(t, s)
    PROVE  o.tpm.pcr = t.pcr
<1> DEFINE x == [t.session[s] EXCEPT !.policy = [t.session[s].policy EXCEPT !.password = TRUE]]
           u == PutSession(t, s, x)
<1>1. [t EXCEPT !.session[s].policy.password = TRUE] = u
    BY DEF PutSession
<1>2. o \in _SubmitCommand(t, Answer(u, Nil))
    BY <1>1 DEF TPM2_PolicyPassword
<1>3. u.pcr = t.pcr
    BY PutKeeps, Zenon
<1> HIDE DEF u
<1>4. QED
    BY <1>2, <1>3, AnswerKeeps, Zenon

LEMMA ReadPublicKeeps ==
    ASSUME NEW t \in Chips, NEW h, NEW o \in TPM2_ReadPublic(t, h)
    PROVE  o.tpm.pcr = t.pcr
    BY ReadPublicOutcome

\* After TPM2_PolicyPCR, the registers are in the policy of the session.
LEMMA PolicyPCRSets ==
    ASSUME NEW t \in Chips, NEW s \in Sessions, t.session[s] # Nil,
           NEW bank, NEW pcrs \in Selections, NEW o \in TPM2_PolicyPCR(t, s, bank, pcrs)
    PROVE  /\ o.tpm.pcr = t.pcr
           /\ o.rc = "success" => o.tpm.session[s] # Nil /\ o.tpm.session[s].policy.pcrs = pcrs
<1>1. CASE o \in _SubmitCommand(t, Refuse(t, "value"))
  <2>1. "value" \in Codes \ {"success"}
      BY DEF Codes
  <2>2. o.rc # "success"
      BY <1>1, <2>1, Refused DEF Ignored
  <2>3. QED
      BY <1>1, <2>2, RefuseKeeps
<1>2. CASE ~(o \in _SubmitCommand(t, Refuse(t, "value")))
  <2> DEFINE x == [t.session[s] EXCEPT !.policy = [t.session[s].policy EXCEPT !.pcrs = pcrs]]
             u == PutSession(t, s, x)
  <2>1. t.session[s] \in SessionStates
      BY DEF Chips
  <2>2. x \in SessionStates /\ x.policy.pcrs = pcrs
      BY <2>1 DEF SessionStates, Policies
  <2>3. [t EXCEPT !.session[s].policy.pcrs = pcrs] = u
      BY DEF PutSession
  <2>4. o \in _SubmitCommand(t, Answer(u, Nil))
      BY <1>2, <2>3 DEF TPM2_PolicyPCR
  <2> HIDE DEF x
  <2>5. u.pcr = t.pcr /\ u.session[s] = x /\ x # Nil
    <3>1. x \in SessionStates \cup {Nil} /\ x # Nil
        BY <2>2, NilAssumption
    <3>2. u.session[s] = x /\ u.pcr = t.pcr
        BY <3>1, SessionSet
    <3>3. QED
        BY <3>1, <3>2
  <2> HIDE DEF u
  <2>6. o.rc = "success" => o.tpm = u
      BY <2>4, Answered DEF Obeyed, Ignored
  <2>7. QED
      BY <2>2, <2>4, <2>5, <2>6, AnswerKeeps
<1>3. QED
    BY <1>1, <1>2

\* After TPM2_Load, the object has the policy of the blob.
LEMMA LoadSets ==
    ASSUME NEW t \in Chips, NEW parent, NEW blob \in SealPolicies \cup {Nil, Garbage},
           NEW o \in TPM2_Load(t, parent, blob)
    PROVE  /\ o.tpm.pcr = t.pcr
           /\ o.rc = "success" => o.tpm.session = t.session /\ o.tpm.object[o.out].policy = blob
<1>1. "memory" \in Codes \ {"success"} /\ "integrity" \in Codes \ {"success"}
    BY DEF Codes
<1>2. CASE o \in _SubmitCommand(t, Refuse(t, "memory")) \/ o \in _SubmitCommand(t, Refuse(t, "integrity"))
  <2>1. o.rc # "success"
      BY <1>1, <1>2, Refused DEF Ignored
  <2>2. QED
      BY <1>2, <2>1, RefuseKeeps
<1>4. CASE /\ ~(o \in _SubmitCommand(t, Refuse(t, "memory")))
           /\ ~(o \in _SubmitCommand(t, Refuse(t, "integrity")))
  <2> DEFINE h == FreeSlot(t.object)
             u == PutObject(t, h, Sealed(blob))
  <2>1. /\ FreeSlots(t.object) # {} /\ blob # Garbage
        /\ o \in _SubmitCommand(t, Answer(u, h))
      BY <1>4 DEF TPM2_Load, PutObject
  <2>2. DOMAIN t.object = 1 .. MaxObjects /\ MaxObjects \in Nat
      BY SlotsAssumption DEF Chips, Objects
  <2>3. h \in Objects
      BY <2>1, <2>2, FreeSlotIsFree DEF Objects
  <2>4. Sealed(blob) \in ObjectStates \cup {Nil} /\ Sealed(blob).policy = blob
      BY <2>1 DEF Sealed, ObjectStates
  <2> HIDE DEF h
  <2>5. u.pcr = t.pcr /\ u.session = t.session /\ u.object[h] = Sealed(blob)
      BY <2>3, <2>4, ObjectSet
  <2> HIDE DEF u
  <2>6. o.rc = "success" => o.tpm = u /\ o.out = h
      BY <2>1, Answered DEF Obeyed, Ignored
  <2>7. QED
      BY <2>1, <2>4, <2>5, <2>6, AnswerKeeps
<1>5. QED
    BY <1>2, <1>4

\* TPM2_Unseal succeeds only if the session has the policy of the object.
LEMMA UnsealChecks ==
    ASSUME NEW t \in Chips, NEW h, NEW s, NEW o \in TPM2_Unseal(t, h, s)
    PROVE  /\ o.tpm.pcr = t.pcr
           /\ o.rc = "success" => t.session[s].policy = t.object[h].policy
<1>1. CASE t.session[s].policy # t.object[h].policy
  <2>1. o \in _SubmitCommand(t, Refuse(t, "policy")) /\ "policy" \in Codes \ {"success"}
      BY <1>1 DEF TPM2_Unseal, Codes
  <2>2. o.rc # "success"
      BY <2>1, Refused DEF Ignored
  <2>3. QED
      BY <2>1, <2>2, RefuseKeeps
<1>2. CASE t.session[s].policy = t.object[h].policy
  <2> DEFINE u == PutSession(t, s, Nil)
  <2>1. o \in _SubmitCommand(t, Answer(u, "keys"))
      BY <1>2 DEF TPM2_Unseal, PutSession
  <2>2. u.pcr = t.pcr
      BY PutKeeps, Zenon
  <2> HIDE DEF u
  <2>3. QED
      BY <1>2, <2>1, <2>2, AnswerKeeps
<1>3. QED
    BY <1>1, <1>2

-----------------------------------------------------------------------------
(* The steps that are quiet.                                               *)

LEMMA QuietKeep ==
    ASSUME KeysIInv, Keep, tpm'.pcr = tpm.pcr, SameKeys(f'), Flow
    PROVE  KeysIInv'
    BY QuietStep DEF Quiet, Keep

LEMMA QuietEnd ==
    ASSUME KeysIInv, Keep, tpm'.pcr = tpm.pcr, f \in Frames, Exit(f), pc # "idle"
    PROVE  KeysIInv'
<1>1. SameKeys(f)
    BY DEF SameKeys
<1>2. pc' = "idle" /\ SameKeys(f')
    BY <1>1, QuietExit
<1>3. Flow
    BY <1>2 DEF Flow, Booted, Predicting, Unpredicted, Early
<1>4. QED
    BY <1>2, <1>3, QuietKeep

LEMMA KeysLockReset ==
    ASSUME ClientsIInv, KeysIInv, LockReset
    PROVE  KeysIInv'
<1> USE Parts
<1>1. PICK o \in TPM2X_SetDictionaryAttackLockReset(tpm) :
        /\ pc = "lockreset" /\ Returns(o) /\ Keep
        /\ IF o.rc = "success" THEN Goto("lockout") /\ Set(f) ELSE Exit(f)
    BY DEF LockReset, Call, Is
<1>2. tpm' = tpm
    BY <1>1, Asking DEF Asked, Returns
<1>3. CASE pc' = "lockout" /\ f' = f
  <2>1. SameKeys(f') /\ Flow
      BY <1>1, <1>3 DEF SameKeys, Flow, Booted, Predicting, Unpredicted, Early
  <2>2. QED
      BY <1>1, <1>2, <2>1, QuietKeep
<1>4. CASE Exit(f)
    BY <1>1, <1>2, <1>4, QuietEnd
<1>5. QED
    BY <1>1, <1>3, <1>4 DEF Goto, Set

LEMMA KeysLockout ==
    ASSUME ClientsIInv, KeysIInv, Lockout
    PROVE  KeysIInv'
<1> USE Parts
<1>1. PICK o \in TPM2X_SetLockoutParams(tpm) :
        /\ pc = "lockout" /\ Returns(o) /\ Keep
        /\ IF o.rc = "success" THEN Goto(AfterLockout) /\ Set(f) ELSE Exit(f)
    BY DEF Lockout, Call, Is
<1>2. tpm'.pcr = tpm.pcr
    BY <1>1, LockoutKeeps DEF Returns
<1>3. CASE pc' = AfterLockout /\ f' = f /\ f.client # "lsvmload"
  <2>1. f.client \in Clients
      BY DEF Frames
  <2>2. \/ pc' = "predict" /\ f.client \in PolicySealers
        \/ pc' = "cap.sha1" /\ f.client = "cappcr11"
        \/ pc' = "capall.read" /\ f.client = "capall"
        \/ pc' = "srk" /\ f.client \in Unsealers \cup {"seal", "srk"}
      BY <1>3, <2>1 DEF AfterLockout
  <2>3. SameKeys(f') /\ Flow
      BY <1>1, <1>3, <2>2 DEF SameKeys, Flow, Booted, Predicting, Unpredicted, Early
  <2>4. QED
      BY <1>1, <1>2, <2>3, QuietKeep
<1>4. CASE pc' = AfterLockout /\ f' = f /\ f.client = "lsvmload"
  <2>1. pc' = "scenario" /\ f.i = 0
      BY <1>1, <1>4 DEF AfterLockout, Program, Routing
  <2>2. /\ Reg(7)' = Reg(7) /\ Reg(11)' = Reg(11)
        /\ nv' = nv /\ file' = file /\ sealedFor' = sealedFor /\ phase' = phase
      BY <1>1, <1>2 DEF Reg, Keep
  <2>3. Reg(11) = <<>> /\ phase # "os" /\ Reg(7) = Firmware(nv)[7]
      BY <1>1, <1>4 DEF KeysIInv, RegistersKnown
  <2>4. ScenarioUpTo(0) = <<>>
      BY DEF ScenarioUpTo
  <2>5. RegistersKnown'
      BY <1>4, <2>1, <2>2, <2>3, <2>4 DEF RegistersKnown, Booted
  <2>6. FileMeans' /\ Sealing'
      BY <1>4, <2>2 DEF KeysIInv, FileMeans, Sealing
  <2>7. Opening'
      BY <1>1, <1>4, <2>1, <2>2 DEF KeysIInv, Opening, Early
  <2>8. DataReleased'
      BY <1>4, <2>2 DEF KeysIInv, DataReleased, KeysOnlyAsSealed, SealedForThisBoot
  <2>9. QED
      BY <2>5, <2>6, <2>7, <2>8 DEF KeysIInv
<1>5. CASE Exit(f)
    BY <1>1, <1>2, <1>5, QuietEnd
<1>6. QED
    BY <1>1, <1>3, <1>4, <1>5 DEF Goto, Set

LEMMA KeysCreateSRK ==
    ASSUME ClientsIInv, KeysIInv, CreateSRK
    PROVE  KeysIInv'
<1> USE Parts
<1>1. PICK o \in TPM2X_CreateSRKKey(tpm) :
        /\ pc = "srk" /\ Returns(o) /\ Keep
        /\ IF o.rc = "success"
           THEN pc' = AfterSRK /\ f' = [f EXCEPT !.srk = o.out, !.parent = o.out]
           ELSE NoSRK(f)
    BY DEF CreateSRK, Call, Is, Goto, Set
<1>2. tpm'.pcr = tpm.pcr
    BY <1>1, CreateSRKKeeps DEF Returns
<1>3. f.client \in Sealers \cup Openers \cup {"srk"}
    BY <1>1 DEF Program, Routing
<1>4. CASE pc' = AfterSRK /\ f' = [f EXCEPT !.srk = o.out, !.parent = o.out]
  <2>1. SameKeys(f')
      BY <1>4 DEF SameKeys, Frames
  <2>2. \/ pc' = "flushsrk" /\ f.client = "srk"
        \/ pc' = "load" /\ f.client \in Unsealers
        \/ pc' = "unseal.session" /\ f.client = "lsvmload"
        \/ pc' = "input" /\ f.client = "seal"
        \/ pc' = "seal.session" /\ f.client \in PolicySealers
      BY <1>3, <1>4 DEF AfterSRK
  <2>3. Flow
      BY <1>1, <2>2 DEF Flow, Booted, Predicting, Unpredicted, Early
  <2>4. QED
      BY <1>1, <1>2, <2>1, <2>3, QuietKeep
<1>5. CASE NoSRK(f) /\ f.client = "lsvmload"
  <2>1. PICK h \in Objects : pc' = "flushsrk" /\ f' = [f EXCEPT !.srk = h]
      BY <1>5 DEF NoSRK, Goto, Set
  <2>2. SameKeys(f')
      BY <2>1 DEF SameKeys, Frames
  <2>3. Flow
      BY <1>1, <1>5, <2>1 DEF Flow, Booted, Predicting, Unpredicted, Early
  <2>4. QED
      BY <1>1, <1>2, <2>2, <2>3, QuietKeep
<1>6. CASE NoSRK(f) /\ f.client \in Unsealers
  <2>1. pc' = "cap.sha1" /\ f' = f
      BY <1>6 DEF NoSRK, Goto, Set
  <2>2. SameKeys(f') /\ Flow
      BY <1>1, <1>6, <2>1 DEF SameKeys, Flow, Booted, Predicting, Unpredicted, Early
  <2>3. QED
      BY <1>1, <1>2, <2>2, QuietKeep
<1>7. CASE NoSRK(f) /\ f.client \notin Openers
  <2>1. Exit(f)
      BY <1>3, <1>7 DEF NoSRK
  <2>2. QED
      BY <1>1, <1>2, <2>1, QuietEnd
<1>8. QED
    BY <1>1, <1>4, <1>5, <1>6, <1>7

LEMMA KeysFlushSRK ==
    ASSUME ClientsIInv, KeysIInv, FlushSRK
    PROVE  KeysIInv'
<1> USE Parts
<1>1. pc = "flushsrk" /\ pc' = AfterFlush /\ Keep
    BY DEF FlushSRK, Is, Goto, Call
<1>2. \/ pc' = "split" /\ f.client = "lsvmload"
      \/ pc' = "put" /\ f.client \in PolicySealers
      \/ pc' = "idle"
    BY <1>1 DEF AfterFlush
<1>3. Flow
    BY <1>1, <1>2 DEF Flow, Booted, Predicting, Unpredicted, Early
<1>4. CASE f.srk = Nil
  <2>1. f' = f /\ tpm' = tpm
      BY <1>4 DEF FlushSRK, Set, Local
  <2>2. QED
      BY <1>1, <1>3, <2>1, QuietKeep DEF SameKeys
<1>5. CASE f.srk # Nil
  <2>1. PICK o \in TPM2_FlushContext(tpm, "object", f.srk) : Returns(o)
      BY <1>5 DEF FlushSRK, Call
  <2>2. tpm'.pcr = tpm.pcr
    <3>1. "object" \in {"session", "object"}
        OBVIOUS
    <3>2. QED
        BY <2>1, <3>1, FlushKeeps DEF Returns
  <2> DEFINE x == _ReleaseLSVMLoadPolicy(f.vars)
  <2>3. f' = [f EXCEPT !.srk = Nil, !.vars = x]
      BY <1>5 DEF FlushSRK, Set
  <2> HIDE DEF x
  <2>4. SameKeys(f')
      BY <2>3 DEF SameKeys, Frames
  <2>5. QED
      BY <1>1, <1>3, <2>2, <2>4, QuietKeep
<1>6. QED
    BY <1>4, <1>5

LEMMA KeysPolicyFailed ==
    ASSUME ClientsIInv, KeysIInv, NEW rc, PolicyFailed(rc), Keep, tpm'.pcr = tpm.pcr,
           pc \in PolicySteps
    PROVE  KeysIInv'
<1> USE Parts
<1>1. \/ f.proc = "seal" /\ f.client \in Sealers
      \/ f.proc = "unseal" /\ f.client \in Openers
    BY DEF Program, Routing
<1>2. \/ pc' = "seal.flush" /\ f' = f
      \/ pc' = "unseal.flush" /\ f' = [f EXCEPT !.rc = rc]
    BY DEF PolicyFailed, Goto, Set
<1>3. SameKeys(f')
    BY <1>2 DEF SameKeys, Frames
<1>4. Flow
    BY <1>1, <1>2 DEF Flow, Booted, Predicting, Unpredicted, Early
<1>5. QED
    BY <1>3, <1>4, QuietKeep

LEMMA KeysPolicyPassword ==
    ASSUME ClientsIInv, KeysIInv, PolicyPassword
    PROVE  KeysIInv'
<1> USE Parts
<1>1. PICK o \in TPM2_PolicyPassword(tpm, f.session) :
        /\ pc = "policy.password" /\ Returns(o) /\ Keep
        /\ IF o.rc = "success"
           THEN pc' = (IF f.pcrs = Nil THEN "policy.read" ELSE "policy.pcr") /\ f' = f
           ELSE PolicyFailed(o.rc)
    BY DEF PolicyPassword, Call, Is, Goto, Set
<1>2. tpm'.pcr = tpm.pcr
    BY <1>1, PasswordKeeps DEF Returns
<1>3. CASE o.rc = "success"
  <2>1. f.client \in Openers => f.pcrs = Nil
      BY <1>1 DEF KeysIInv, Opening, Early
  <2>2. \/ pc' = "policy.read" /\ f.pcrs = Nil
        \/ pc' = "policy.pcr" /\ f.pcrs # Nil
      BY <1>1, <1>3
  <2>3. Flow /\ SameKeys(f')
      BY <1>1, <1>3, <2>1, <2>2 DEF Flow, SameKeys, Booted, Predicting, Unpredicted, Early
  <2>4. QED
      BY <1>1, <1>2, <2>3, QuietKeep
<1>4. CASE o.rc # "success"
    BY <1>1, <1>2, <1>4, KeysPolicyFailed
<1>5. QED
    BY <1>3, <1>4

LEMMA KeysLoadInput ==
    ASSUME ClientsIInv, KeysIInv, LoadInput
    PROVE  KeysIInv'
<1>1. /\ pc = "input" /\ f' = f /\ Keep /\ tpm' = tpm
      /\ pc' = "seal.session" \/ pc' = "flushsrk"
    BY DEF LoadInput, Is, Goto, Set, Local, Fault
<1>2. f.client = "seal"
    BY <1>1, Parts DEF Program, Routing
<1>3. SameKeys(f') /\ Flow
    BY <1>1, <1>2 DEF SameKeys, Flow, Booted, Predicting, Unpredicted, Early
<1>4. QED
    BY <1>1, <1>3, QuietKeep

LEMMA KeysSealSession ==
    ASSUME ClientsIInv, KeysIInv, SealSession
    PROVE  KeysIInv'
<1> USE Parts
<1>1. PICK o \in TPM2X_StartAuthSession(tpm, TRUE) :
        /\ pc = "seal.session" /\ Returns(o) /\ Keep
        /\ IF o.rc = "success"
           THEN pc' = "policy.password" /\ f' = [f EXCEPT !.session = o.out, !.proc = "seal"]
           ELSE pc' = "sealed" /\ f' = [f EXCEPT !.rc = o.rc]
    BY DEF SealSession, Call, Is, Goto, Set
<1>2. tpm'.pcr = tpm.pcr
    BY <1>1, StartKeeps DEF Returns
<1>3. f.client \in Sealers
    BY <1>1 DEF Program, Routing
<1>4. SameKeys(f')
    BY <1>1 DEF SameKeys, Frames
<1>5. Flow
    BY <1>1, <1>3 DEF Flow, Booted, Predicting, Unpredicted, Early
<1>6. QED
    BY <1>1, <1>2, <1>4, <1>5, QuietKeep

LEMMA KeysSealFlush ==
    ASSUME ClientsIInv, KeysIInv, SealFlush
    PROVE  KeysIInv'
<1> USE Parts
<1>1. PICK o \in TPM2_FlushContext(tpm, "session", f.session) :
        /\ pc = "seal.flush" /\ pc' = "sealed" /\ Returns(o) /\ Keep
        /\ f' = [f EXCEPT !.session = Nil]
    BY DEF SealFlush, Call, Is, Goto, Set
<1>2. tpm'.pcr = tpm.pcr
  <2>1. "session" \in {"session", "object"}
      OBVIOUS
  <2>2. QED
      BY <1>1, <2>1, FlushKeeps DEF Returns
<1>3. f.client \in Sealers
    BY <1>1 DEF Program, Routing
<1>4. SameKeys(f')
    BY <1>1 DEF SameKeys, Frames
<1>5. Flow
    BY <1>1, <1>3 DEF Flow, Booted, Predicting, Unpredicted, Early
<1>6. QED
    BY <1>1, <1>2, <1>4, <1>5, QuietKeep

LEMMA KeysSealPolicy ==
    ASSUME ClientsIInv, KeysIInv, SealPolicy
    PROVE  KeysIInv'
<1> USE Parts
<1>1. pc = "sealed" /\ tpm' = tpm /\ Keep
    BY DEF SealPolicy, Is, Local
<1>2. f.client \in Sealers
    BY <1>1 DEF Program, Routing
<1>3. \/ pc' = "flushsrk" /\ f' = f
      \/ \E b \in TPM2X_SerializeBlob(f.blob) :
           /\ b # Nil /\ pc' \in {"put", "flushsrk"}
           /\ f' = [f EXCEPT !.blob = b, !.status = "sealed"]
    BY DEF SealPolicy, Goto, Set
<1>4. CASE pc' = "flushsrk" /\ f' = f
  <2>1. SameKeys(f') /\ Flow
      BY <1>1, <1>2, <1>4 DEF SameKeys, Flow, Booted, Predicting, Unpredicted, Early
  <2>2. QED
      BY <1>1, <2>1, QuietKeep
<1>5. ASSUME NEW b \in TPM2X_SerializeBlob(f.blob), b # Nil, pc' \in {"put", "flushsrk"},
             f' = [f EXCEPT !.blob = b, !.status = "sealed"]
      PROVE  KeysIInv'
  <2>1. b = f.blob
      BY <1>5 DEF TPM2X_SerializeBlob
  <2>2. SameKeys(f')
      BY <1>5, <2>1 DEF SameKeys, Frames
  <2>3. Flow
      BY <1>1, <1>2, <1>5 DEF Flow, Booted, Predicting, Unpredicted, Early
  <2>4. QED
      BY <1>1, <2>2, <2>3, QuietKeep
<1>6. QED
    BY <1>3, <1>4, <1>5

LEMMA KeysGetSRK ==
    ASSUME ClientsIInv, KeysIInv, _Get_SRK
    PROVE  KeysIInv'
<1> USE Parts
<1>1. PICK o \in TPM2_ReadPublic(tpm, SRKHandle) :
        /\ pc = "readpublic" /\ Returns(o) /\ Keep
        /\ \/ pc' = "unseal.session" /\ f' = [f EXCEPT !.parent = SRKHandle]
           \/ pc' \in {"srk", "cap.before"} /\ f' = f
    BY DEF _Get_SRK, Call, Is, Goto, Set
<1>2. tpm'.pcr = tpm.pcr
    BY <1>1, ReadPublicKeeps DEF Returns
<1>3. f.client = "lsvmload"
    BY <1>1 DEF Program, Routing
<1>4. SameKeys(f')
    BY <1>1 DEF SameKeys, Frames
<1>5. Flow
    BY <1>1, <1>3 DEF Flow, Booted, Predicting, Unpredicted, Early
<1>6. QED
    BY <1>1, <1>2, <1>4, <1>5, QuietKeep

LEMMA KeysUnsealSession ==
    ASSUME ClientsIInv, KeysIInv, UnsealSession
    PROVE  KeysIInv'
<1> USE Parts
<1>1. pc = "unseal.session" /\ f.client \in Openers
    BY DEF UnsealSession, Is, Program, Routing
<1>2. CASE pc' = "unsealed" /\ f' = [f EXCEPT !.rc = "failure"] /\ Local /\ Keep
  <2>1. SameKeys(f')
      BY <1>2 DEF SameKeys, Frames
  <2>2. Flow /\ tpm' = tpm
      BY <1>1, <1>2 DEF Flow, Booted, Predicting, Unpredicted, Early, Local
  <2>3. QED
      BY <1>2, <2>1, <2>2, QuietKeep
<1>3. ASSUME NEW o \in TPM2X_StartAuthSession(tpm, FALSE), Returns(o), Keep,
             IF o.rc = "success"
             THEN pc' = "policy.password" /\ f' = [f EXCEPT !.session = o.out, !.proc = "unseal"]
             ELSE pc' = "unsealed" /\ f' = [f EXCEPT !.rc = o.rc]
      PROVE  KeysIInv'
  <2>1. tpm'.pcr = tpm.pcr
      BY <1>3, StartKeeps DEF Returns
  <2>2. SameKeys(f')
      BY <1>3 DEF SameKeys, Frames
  <2>3. Flow
      BY <1>1, <1>3 DEF Flow, Booted, Predicting, Unpredicted, Early
  <2>4. QED
      BY <1>3, <2>1, <2>2, <2>3, QuietKeep
<1>4. QED
    BY <1>2, <1>3 DEF UnsealSession, Call, Goto, Set

LEMMA KeysUnsealFlushSession ==
    ASSUME ClientsIInv, KeysIInv, UnsealFlushSession
    PROVE  KeysIInv'
<1> USE Parts
<1>1. /\ pc = "unseal.flush" /\ pc' = "unseal.flushobject" /\ Keep
      /\ f' = [f EXCEPT !.session = Nil]
    BY DEF UnsealFlushSession, Is, Goto, Set, Call
<1>2. tpm'.pcr = tpm.pcr
  <2>1. CASE f.session = Nil
      BY <2>1 DEF UnsealFlushSession, Local
  <2>2. CASE f.session # Nil
    <3>1. PICK o \in TPM2_FlushContext(tpm, "session", f.session) : Returns(o)
        BY <2>2 DEF UnsealFlushSession, Call
    <3>2. "session" \in {"session", "object"}
        OBVIOUS
    <3>3. QED
        BY <3>1, <3>2, FlushKeeps DEF Returns
  <2>3. QED
      BY <2>1, <2>2
<1>3. f.client \in Openers
    BY <1>1 DEF Program, Routing
<1>4. SameKeys(f')
    BY <1>1 DEF SameKeys, Frames
<1>5. Flow
    BY <1>1, <1>3 DEF Flow, Booted, Predicting, Unpredicted, Early
<1>6. QED
    BY <1>1, <1>2, <1>4, <1>5, QuietKeep

LEMMA KeysUnsealFlushObject ==
    ASSUME ClientsIInv, KeysIInv, UnsealFlushObject
    PROVE  KeysIInv'
<1> USE Parts
<1>1. /\ pc = "unseal.flushobject" /\ pc' = "unsealed" /\ Keep
      /\ f' = [f EXCEPT !.object = Nil]
    BY DEF UnsealFlushObject, Is, Goto, Set, Call
<1>2. tpm'.pcr = tpm.pcr
  <2>1. CASE f.object = Nil
      BY <2>1 DEF UnsealFlushObject, Local
  <2>2. CASE f.object # Nil
    <3>1. PICK o \in TPM2_FlushContext(tpm, "object", f.object) : Returns(o)
        BY <2>2 DEF UnsealFlushObject, Call
    <3>2. "object" \in {"session", "object"}
        OBVIOUS
    <3>3. QED
        BY <3>1, <3>2, FlushKeeps DEF Returns
  <2>3. QED
      BY <2>1, <2>2
<1>3. f.client \in Openers
    BY <1>1 DEF Program, Routing
<1>4. SameKeys(f')
    BY <1>1 DEF SameKeys, Frames
<1>5. Flow
    BY <1>1, <1>3 DEF Flow, Booted, Predicting, Unpredicted, Early
<1>6. QED
    BY <1>1, <1>2, <1>4, <1>5, QuietKeep

LEMMA KeysUnsealed ==
    ASSUME ClientsIInv, KeysIInv, Unsealed
    PROVE  KeysIInv'
<1> USE Parts
<1>1. /\ pc = "unsealed" /\ Keep /\ tpm' = tpm /\ pc' \in {"flushsrk", "cap.sha1"}
      /\ f' = f \/ f' = [f EXCEPT !.status = "ok"]
    BY DEF Unsealed, Is, Goto, Set, Local, Fault
<1>2. f.client \in Openers
    BY <1>1 DEF Program, Routing
<1>3. SameKeys(f')
    BY <1>1 DEF SameKeys, Frames
<1>4. Flow
    BY <1>1, <1>2 DEF Flow, Booted, Predicting, Unpredicted, Early
<1>5. QED
    BY <1>1, <1>3, <1>4, QuietKeep

LEMMA KeysSplit ==
    ASSUME ClientsIInv, KeysIInv, SplitKeys
    PROVE  KeysIInv'
<1> USE Parts
<1> DEFINE x == IF f.data = Nil THEN "error" ELSE "keys"
<1>1. /\ pc = "split" /\ Keep /\ tpm' = tpm /\ pc' = "cap.before"
      /\ f' = [f EXCEPT !.status = x]
    BY DEF SplitKeys, Is, Goto, Set, Local
<1> HIDE DEF x
<1>2. f.client = "lsvmload"
    BY <1>1 DEF Program, Routing
<1>3. SameKeys(f')
    BY <1>1 DEF SameKeys, Frames
<1>4. Flow
    BY <1>1, <1>2 DEF Flow, Booted, Predicting, Unpredicted, Early
<1>5. QED
    BY <1>1, <1>3, <1>4, QuietKeep

\* Reading a register.
LEMMA ReadKeeps ==
    ASSUME NEW t \in Chips, NEW p, NEW o \in TPM2X_ReadPCRSHA256(t, p)
    PROVE  o.tpm = t
<1> DEFINE r == [q \in {p} |-> t.pcr["SHA256"][q]]
<1>1. o \in _SubmitCommand(t, Answer(t, r))
    BY DEF TPM2X_ReadPCRSHA256, TPM2_PCR_Read
<1> HIDE DEF r
<1>2. QED
    BY <1>1, AskedOf DEF Asked

LEMMA KeysCapBefore ==
    ASSUME ClientsIInv, KeysIInv, CapBefore
    PROVE  KeysIInv'
<1> USE Parts
<1>1. PICK o \in TPM2X_ReadPCRSHA256(tpm, 11) :
        /\ pc = "cap.before" /\ Returns(o) /\ Keep
        /\ IF o.rc = "success" THEN pc' = "cap.sha1" /\ f' = [f EXCEPT !.before = o.out]
           ELSE Exit(f)
    BY DEF CapBefore, Call, Is, Goto, Set
<1>2. tpm' = tpm
    BY <1>1, ReadKeeps DEF Returns
<1>3. CASE pc' = "cap.sha1" /\ f' = [f EXCEPT !.before = o.out]
  <2>1. SameKeys(f')
      BY <1>3 DEF SameKeys, Frames
  <2>2. f.client = "lsvmload"
      BY <1>1 DEF Program, Routing
  <2>3. Flow
      BY <1>1, <1>3, <2>2 DEF Flow, Booted, Predicting, Unpredicted, Early
  <2>4. QED
      BY <1>1, <1>2, <2>1, <2>3, QuietKeep
<1>4. CASE Exit(f)
    BY <1>1, <1>2, <1>4, QuietEnd
<1>5. QED
    BY <1>1, <1>3, <1>4

LEMMA KeysCapAllRead ==
    ASSUME ClientsIInv, KeysIInv, CapAllRead
    PROVE  KeysIInv'
<1> USE Parts
<1>1. PICK o \in TPM2X_ReadPCRSHA256(tpm, 0) :
        /\ pc = "capall.read" /\ Returns(o) /\ Keep
        /\ IF o.rc = "success" THEN pc' = "cap.sha1" /\ f' = [f EXCEPT !.before = o.out]
           ELSE Exit(f)
    BY DEF CapAllRead, Call, Is, Goto, Set
<1>2. tpm' = tpm
    BY <1>1, ReadKeeps DEF Returns
<1>3. CASE pc' = "cap.sha1" /\ f' = [f EXCEPT !.before = o.out]
  <2>1. SameKeys(f')
      BY <1>3 DEF SameKeys, Frames
  <2>2. f.client = "capall"
      BY <1>1 DEF Program, Routing
  <2>3. Flow
      BY <1>1, <1>3, <2>2 DEF Flow, Booted, Predicting, Unpredicted, Early
  <2>4. QED
      BY <1>1, <1>2, <2>1, <2>3, QuietKeep
<1>4. CASE Exit(f)
    BY <1>1, <1>2, <1>4, QuietEnd
<1>5. QED
    BY <1>1, <1>3, <1>4

LEMMA KeysCapAllCheck ==
    ASSUME ClientsIInv, KeysIInv, CapAllCheck
    PROVE  KeysIInv'
<1> USE Parts
<1>1. PICK o \in TPM2X_ReadPCRSHA256(tpm, 0) :
        /\ pc = "capall.check" /\ Returns(o) /\ Keep
        /\ \/ Exit([f EXCEPT !.status = IF o.out = f.before THEN "error" ELSE "ok"])
           \/ Exit(f)
    BY DEF CapAllCheck, Call, Is
<1>2. tpm' = tpm
    BY <1>1, ReadKeeps DEF Returns
<1>3. CASE Exit([f EXCEPT !.status = IF o.out = f.before THEN "error" ELSE "ok"])
  <2> DEFINE x == IF o.out = f.before THEN "error" ELSE "ok"
             g == [f EXCEPT !.status = x]
  <2>1. x \in {"error", "ok"}
      OBVIOUS
  <2>2. Exit(g)
      BY <1>3
  <2>7. g = [f EXCEPT !.status = x]
      OBVIOUS
  <2> HIDE DEF x, g
  <2>3. g \in Frames /\ SameKeys(g)
      BY <2>1, <2>7 DEF Frames, SameKeys
  <2>4. pc' = "idle" /\ SameKeys(f')
      BY <2>2, <2>3, QuietExit
  <2>5. Flow
      BY <1>1, <2>4 DEF Flow, Booted, Predicting, Unpredicted, Early
  <2>6. QED
      BY <1>1, <1>2, <2>4, <2>5, QuietKeep
<1>4. CASE Exit(f)
    BY <1>1, <1>2, <1>4, QuietEnd
<1>5. QED
    BY <1>1, <1>3, <1>4

-----------------------------------------------------------------------------
(* The steps that carry the registers from the chip into a blob.           *)

LEMMA KeysPolicyRead ==
    ASSUME ClientsIInv, KeysIInv, PolicyRead
    PROVE  KeysIInv'
<1> USE Parts
<1>1. PICK o \in TPM2_PCR_Read(tpm, "SHA256", Mask) :
        /\ pc = "policy.read" /\ Returns(o) /\ Keep
        /\ IF o.rc = "success" THEN pc' = "policy.pcr" /\ f' = [f EXCEPT !.pcrs = o.out]
           ELSE PolicyFailed(o.rc)
    BY DEF PolicyRead, Call, Is, Goto, Set
<1>2. tpm' = tpm /\ (o.rc = "success" => o.out = ChipRegisters)
  <2>1. ChipRegisters = [p \in Mask |-> tpm.pcr["SHA256"][p]]
      BY DEF ChipRegisters, Reg
  <2>2. Asked(o, tpm, ChipRegisters)
      BY <1>1, <2>1, ReadOutcome
  <2>3. QED
      BY <1>1, <2>2 DEF Asked, Returns
<1>3. CASE o.rc = "success"
  <2>1. pc' = "policy.pcr" /\ f' = [f EXCEPT !.pcrs = ChipRegisters]
      BY <1>1, <1>2, <1>3
  <2> DEFINE r == ChipRegisters
  <2>2. /\ f'.client = f.client /\ f'.pcrs = r /\ f'.digest = f.digest
        /\ f'.blob = f.blob /\ f'.data = f.data /\ f'.i = f.i /\ f'.session = f.session
    <3>1. f' = [f EXCEPT !.pcrs = r]
        BY <2>1
    <3> HIDE DEF r
    <3>2. QED
        BY <3>1 DEF Frames
  <2>3. nv' = nv /\ file' = file /\ sealedFor' = sealedFor /\ phase' = phase
      BY <1>1 DEF Keep
  <2>4. Reg(7)' = Reg(7) /\ Reg(11)' = Reg(11) /\ ChipRegisters' = ChipRegisters
      BY <1>2 DEF Reg, ChipRegisters
  <2>5. RegistersKnown'
      BY <1>1, <2>1, <2>2, <2>3, <2>4 DEF KeysIInv, RegistersKnown, Booted
  <2>6. FileMeans'
      BY <2>3 DEF KeysIInv, FileMeans
  <2>7. Sealing'
    <3>1. SUFFICES ASSUME f.client \in Sealers PROVE Sealing'
        BY <2>2 DEF Sealing
    <3>2. f.pcrs = Nil /\ f.client = "seal"
        BY <1>1, <3>1 DEF KeysIInv, Sealing, Unpredicted, Predicting
    <3>3. f.blob \notin SealPolicies
        BY <3>1, <3>2, NilAssumption DEF KeysIInv, Sealing, SealPolicies
    <3>4. Capped(Reg(11)) /\ nv \in Variables
        BY <3>2 DEF KeysIInv, RegistersKnown, MachineOK
    <3>5. 11 \in DOMAIN r /\ r[11] = Reg(11)
        BY DEF ChipRegisters, Mask
    <3> DEFINE h == [client |-> f.client, nv |-> nv]
    <3>6. h \in [client : Sealers, nv : Variables] /\ h.client = "seal"
        BY <3>2, <3>4
    <3> HIDE DEF r, h
    <3>7. Means(r, h)
        BY <3>4, <3>5, <3>6 DEF Means
    <3>8. Means(f'.pcrs, [client |-> f'.client, nv |-> nv'])
        BY <2>2, <2>3, <3>7 DEF h
    <3>9. QED
        BY <2>1, <2>2, <3>2, <3>3, <3>8 DEF Sealing, Unpredicted
  <2>8. Opening'
      BY <2>1, <2>2, <2>3, <2>4 DEF KeysIInv, Opening, Early
  <2>9. DataReleased'
      BY <2>2, <2>3 DEF KeysIInv, DataReleased, KeysOnlyAsSealed, SealedForThisBoot
  <2>10. QED
      BY <2>5, <2>6, <2>7, <2>8, <2>9 DEF KeysIInv
<1>4. CASE o.rc # "success"
    BY <1>1, <1>2, <1>4, KeysPolicyFailed
<1>5. QED
    BY <1>3, <1>4

LEMMA KeysPolicyPCR ==
    ASSUME ClientsIInv, KeysIInv, PolicyPCR
    PROVE  KeysIInv'
<1> USE Parts
<1>1. PICK o \in TPM2_PolicyPCR(tpm, f.session, "SHA256", f.pcrs) :
        /\ pc = "policy.pcr" /\ Returns(o) /\ Keep
        /\ IF o.rc = "success"
           THEN /\ pc' = IF f.proc = "seal" THEN "seal.digest" ELSE "unseal.load"
                /\ f' = [f EXCEPT !.built = TRUE]
           ELSE PolicyFailed(o.rc)
    BY DEF PolicyPCR, Call, Is, Goto, Set
<1>2. f.session \in Sessions /\ tpm.session[f.session] # Nil /\ f.pcrs \in Selections
  <2>1. f.session # Nil /\ f.pcrs # Nil
      BY <1>1 DEF Program, Handles, SessionHeld, PolicySteps
  <2>2. tpm.session[f.session] # Nil
      BY <1>1 DEF SessionOpen, PolicySteps
  <2>3. f.session \in Sessions /\ f.pcrs \in Selections
      BY <2>1 DEF Frames
  <2>4. QED
      BY <2>2, <2>3
<1>3. /\ tpm'.pcr = tpm.pcr
      /\ o.rc = "success" => /\ tpm'.session[f.session] # Nil
                             /\ tpm'.session[f.session].policy.pcrs = f.pcrs
    BY <1>1, <1>2, PolicyPCRSets DEF Returns
<1>4. CASE o.rc = "success"
  <2>1. \/ pc' = "seal.digest" /\ f.client \in Sealers
        \/ pc' = "unseal.load" /\ f.client \in Openers
      BY <1>1, <1>4 DEF Program, Routing
  <2>2. /\ f'.client = f.client /\ f'.pcrs = f.pcrs /\ f'.digest = f.digest
        /\ f'.blob = f.blob /\ f'.data = f.data /\ f'.session = f.session
      BY <1>1, <1>4 DEF Frames
  <2>3. nv' = nv /\ file' = file /\ sealedFor' = sealedFor /\ phase' = phase
      BY <1>1 DEF Keep
  <2>4. Reg(7)' = Reg(7) /\ Reg(11)' = Reg(11) /\ ChipRegisters' = ChipRegisters
      BY <1>3 DEF Reg, ChipRegisters
  <2>5. RegistersKnown'
      BY <1>1, <2>1, <2>2, <2>3, <2>4 DEF KeysIInv, RegistersKnown, Booted
  <2>6. FileMeans'
      BY <2>3 DEF KeysIInv, FileMeans
  <2>7. Sealing'
      BY <1>3, <1>4, <2>1, <2>2, <2>3 DEF KeysIInv, Sealing, Unpredicted, Predicting
  <2>8. Opening'
    <3>1. f.client \in Openers => f.pcrs = ChipRegisters
        BY <1>1 DEF KeysIInv, Opening
    <3>2. QED
        BY <1>3, <1>4, <2>1, <2>2, <2>3, <2>4, <3>1 DEF KeysIInv, Opening, Early
  <2>9. DataReleased'
      BY <2>2, <2>3 DEF KeysIInv, DataReleased, KeysOnlyAsSealed, SealedForThisBoot
  <2>10. QED
      BY <2>5, <2>6, <2>7, <2>8, <2>9 DEF KeysIInv
<1>5. CASE o.rc # "success"
    BY <1>1, <1>3, <1>5, KeysPolicyFailed
<1>6. QED
    BY <1>4, <1>5

\* A step of a sealing command that changes no register and no history.
LEMMA SealerStep ==
    ASSUME KeysIInv, f.client \in Sealers, f'.client = f.client, f'.data = f.data,
           Keep, tpm'.pcr = tpm.pcr, pc # "idle",
           pc' \notin {"scenario", "cap.after"}, Sealing'
    PROVE  KeysIInv'
<1>1. nv' = nv /\ file' = file /\ sealedFor' = sealedFor /\ phase' = phase
    BY DEF Keep
<1>2. Reg(7)' = Reg(7) /\ Reg(11)' = Reg(11)
    BY DEF Reg
<1>3. RegistersKnown'
    BY <1>1, <1>2 DEF KeysIInv, RegistersKnown
<1>4. FileMeans'
    BY <1>1 DEF KeysIInv, FileMeans
<1>5. Opening'
    BY DEF Opening
<1>6. DataReleased'
    BY <1>1 DEF KeysIInv, DataReleased, KeysOnlyAsSealed, SealedForThisBoot
<1>7. QED
    BY <1>3, <1>4, <1>5, <1>6 DEF KeysIInv

LEMMA KeysSealDigest ==
    ASSUME ClientsIInv, KeysIInv, SealDigest
    PROVE  KeysIInv'
<1> USE Parts
<1>1. PICK o \in TPM2_PolicyGetDigest(tpm, f.session) :
        /\ pc = "seal.digest" /\ Returns(o) /\ Keep
        /\ IF o.rc = "success" THEN pc' = "seal.create" /\ f' = [f EXCEPT !.digest = o.out]
           ELSE pc' = "seal.flush" /\ f' = [f EXCEPT !.rc = o.rc]
    BY DEF SealDigest, Call, Is, Goto, Set
<1>2. tpm' = tpm /\ (o.rc = "success" => o.out = tpm.session[f.session].policy)
    BY <1>1, Asking DEF Asked, Returns
<1>3. f.client \in Sealers
    BY <1>1 DEF Program, Routing
<1>4. /\ f'.client = f.client /\ f'.pcrs = f.pcrs /\ f'.blob = f.blob /\ f'.data = f.data
      /\ o.rc = "success" => f'.digest = o.out
    BY <1>1 DEF Frames
<1>5. Sealing'
  <2>1. nv' = nv
      BY <1>1 DEF Keep
  <2>2. o.rc = "success" => f'.digest.pcrs = f.pcrs
      BY <1>1, <1>2, <1>3, <1>4 DEF KeysIInv, Sealing
  <2>3. QED
      BY <1>1, <1>3, <1>4, <2>1, <2>2 DEF KeysIInv, Sealing, Unpredicted, Predicting
<1>6. QED
    BY <1>1, <1>2, <1>3, <1>4, <1>5, SealerStep

LEMMA KeysSealCreate ==
    ASSUME ClientsIInv, KeysIInv, SealCreate
    PROVE  KeysIInv'
<1> USE Parts
<1>1. PICK o \in TPM2_Create(tpm, f.srk, f.digest) :
        /\ pc = "seal.create" /\ pc' = "seal.flush" /\ Returns(o) /\ Keep
        /\ IF o.rc = "success" THEN f' = [f EXCEPT !.blob = o.out]
           ELSE f' = [f EXCEPT !.rc = o.rc]
    BY DEF SealCreate, Call, Is, Goto, Set
<1>2. tpm' = tpm /\ (o.rc = "success" => o.out = f.digest)
    BY <1>1, Asking DEF Asked, Returns
<1>3. f.client \in Sealers
    BY <1>1 DEF Program, Routing
<1>4. /\ f'.client = f.client /\ f'.pcrs = f.pcrs /\ f'.data = f.data
      /\ f'.blob = f.blob \/ f'.blob = f.digest
    BY <1>1, <1>2 DEF Frames
<1>5. Sealing'
  <2>1. nv' = nv
      BY <1>1 DEF Keep
  <2>2. f'.blob \in SealPolicies => f'.blob.pcrs = f'.pcrs
      BY <1>1, <1>3, <1>4 DEF KeysIInv, Sealing
  <2>3. QED
      BY <1>1, <1>3, <1>4, <2>1, <2>2 DEF KeysIInv, Sealing, Unpredicted, Predicting
<1>6. QED
    BY <1>1, <1>2, <1>3, <1>4, <1>5, SealerStep

\* A prediction means what its command says.
LEMMA PredictionMeans ==
    ASSUME ClientsIInv, pc = "predict", NEW how, NEW m,
           how = (IF f.client = "sealpolicy" THEN [vars |-> <<>>, policy |-> FinalPolicy]
                  ELSE SealLSVMLoadPolicy),
           m = MeasurePolicy(how.vars, IF f.client = "sealpolicy" THEN Files ELSE NoFiles,
                             nv, how.policy),
           m.ok
    PROVE  Means(Predicted(m), [client |-> f.client, nv |-> nv]) /\ Predicted(m) \in Selections
<1> USE Parts
<1>1. f.client \in PolicySealers /\ f.vars = StaticVars /\ nv \in Variables
    BY DEF Program, Routing, VarsKept, MachineOK
<1> DEFINE h == [client |-> f.client, nv |-> nv]
<1>2. h \in [client : Sealers, nv : Variables] /\ h.client = f.client /\ h.nv = nv
    BY <1>1
<1> HIDE DEF h
<1>3. CASE f.client = "sealpolicy"
  <2>1. m = MeasurePolicy(<<>>, Files, nv, FinalPolicy)
      BY <1>3
  <2>2. 11 \in DOMAIN Predicted(m) /\ Capped(Predicted(m)[11])
      BY <1>1, <2>1, FinalPredicted
  <2>3. Means(Predicted(m), h)
      BY <1>2, <1>3, <2>2 DEF Means
  <2>4. Predicted(m) \in Selections
      BY <1>1, <2>1, TablesTyped, PoliciesTyped, PolicyMeasured, PredictedTyped
  <2>5. QED
      BY <2>3, <2>4 DEF h
<1>4. CASE f.client = "seallsvmloadpolicy"
  <2>1. m = MeasurePolicy(StaticVars, NoFiles, nv, _policy)
      BY <1>1, <1>4 DEF SealLSVMLoadPolicy
  <2>2. Predicted(m) = BootRegisters("00", nv)
      BY <1>1, <2>1, PlainPredicted
  <2>3. Means(Predicted(m), h)
      BY <1>2, <1>4, <2>2 DEF Means
  <2>4. Predicted(m) \in Selections
      BY <1>1, <2>1, TablesTyped, PoliciesTyped, PolicyMeasured, PredictedTyped
  <2>5. QED
      BY <2>3, <2>4 DEF h
<1>5. CASE f.client = "seallsvmloadpolicy --secureboot"
  <2>1. nv["db"] = "trusted"
      BY <1>1 DEF Variables
  <2>2. CheckImageDB(nv["db"]) = "entry"
      BY <2>1 DEF CheckImageDB
  <2>3. _InitLSVMLoadPolicy(f.vars) = VarsWithEntry
      BY <1>1, <2>2 DEF _InitLSVMLoadPolicy, VarsWithEntry
  <2>4. m = MeasurePolicy(VarsWithEntry, NoFiles, nv, _secureBootPolicy)
      BY <1>5, <2>3 DEF SealLSVMLoadPolicy
  <2>5. Predicted(m) = BootRegisters("01", nv)
      BY <1>1, <2>4, SecurePredicted
  <2>6. Means(Predicted(m), h)
      BY <1>2, <1>5, <2>5 DEF Means
  <2>7. Predicted(m) \in Selections
      BY <1>1, <2>4, TablesTyped, PoliciesTyped, PolicyMeasured, PredictedTyped
  <2>8. QED
      BY <2>6, <2>7 DEF h
<1>6. QED
    BY <1>1, <1>3, <1>4, <1>5

LEMMA KeysPredict ==
    ASSUME ClientsIInv, KeysIInv, Predict
    PROVE  KeysIInv'
<1> USE Parts
<1> DEFINE how == IF f.client = "sealpolicy" THEN [vars |-> <<>>, policy |-> FinalPolicy]
                  ELSE SealLSVMLoadPolicy
           m == MeasurePolicy(how.vars, IF f.client = "sealpolicy" THEN Files ELSE NoFiles,
                              nv, how.policy)
           r == Predicted(m)
           vs == IF how.vars = <<>> THEN f.vars ELSE how.vars
<1>1. /\ pc = "predict" /\ Keep /\ tpm' = tpm
      /\ \/ m.ok /\ pc' = "srk" /\ f' = [f EXCEPT !.vars = vs, !.pcrs = r]
         \/ Exit(f)
    BY DEF Predict, Is, Goto, Set, Local, Fault
<1>2. m.ok => Means(r, [client |-> f.client, nv |-> nv]) /\ r \in Selections
    BY <1>1, PredictionMeans
<1> HIDE DEF how, m, r, vs
<1>3. f.client \in PolicySealers
    BY <1>1 DEF Program, Routing
<1>4. CASE m.ok /\ pc' = "srk" /\ f' = [f EXCEPT !.vars = vs, !.pcrs = r]
  <2>1. /\ f'.client = f.client /\ f'.pcrs = r /\ f'.blob = f.blob /\ f'.data = f.data
      BY <1>4 DEF Frames
  <2>2. nv' = nv
      BY <1>1 DEF Keep
  <2>3. f.blob \notin SealPolicies
    <3>1. f.pcrs = Nil
        BY <1>1, <1>3 DEF KeysIInv, Sealing, Unpredicted
    <3>2. QED
        BY <1>3, <3>1, NilAssumption DEF KeysIInv, Sealing, SealPolicies
  <2>5. r # Nil
      BY <1>2, <1>4, NilAssumption
  <2>6. Sealing'
      BY <1>2, <1>4, <2>1, <2>2, <2>3, <2>5 DEF Sealing, Unpredicted
  <2>7. QED
      BY <1>1, <1>3, <1>4, <2>1, <2>6, SealerStep
<1>5. CASE Exit(f)
    BY <1>1, <1>5, QuietEnd
<1>6. QED
    BY <1>1, <1>4, <1>5

LEMMA KeysPutFile ==
    ASSUME ClientsIInv, KeysIInv, PutFile
    PROVE  KeysIInv'
<1> USE Parts
<1>1. /\ pc = "put" /\ pc' \in {"flushsrk", "idle"} /\ nv' = nv /\ phase' = phase /\ tpm' = tpm
      /\ f' = [f EXCEPT !.status = "ok"] \/ f' = [f EXCEPT !.status = "error"]
    BY DEF PutFile, Is, Goto, Set, Local, Fault
<1>2. f.client \in Sealers /\ nv \in Variables
    BY <1>1 DEF Program, Routing, MachineOK
<1>3. SameKeys(f')
    BY <1>1 DEF SameKeys, Frames
<1>4. Reg(7)' = Reg(7) /\ Reg(11)' = Reg(11)
    BY <1>1 DEF Reg
<1>5. RegistersKnown'
    BY <1>1, <1>2, <1>3, <1>4 DEF KeysIInv, RegistersKnown, SameKeys, Booted
<1>6. FileMeans'
  <2>1. CASE file' = f.blob /\ sealedFor' = [client |-> f.client, nv |-> nv]
    <3>1. SUFFICES ASSUME f.blob \in SealPolicies PROVE Means(f.blob.pcrs, sealedFor')
        BY <2>1 DEF FileMeans
    <3>2. f.blob.pcrs = f.pcrs /\ (f.pcrs # Nil => Means(f.pcrs, sealedFor'))
        BY <1>2, <2>1, <3>1 DEF KeysIInv, Sealing
    <3>3. f.blob.pcrs # Nil
        BY <3>1, NilAssumption DEF SealPolicies
    <3>4. QED
        BY <3>2, <3>3
  <2>2. CASE file' = file /\ (file' # Nil => sealedFor' = sealedFor)
      BY <2>2, NilAssumption DEF KeysIInv, FileMeans
  <2>3. CASE file' = Nil
      BY <2>3, NilAssumption DEF FileMeans
  <2>4. QED
      BY <2>1, <2>2, <2>3 DEF PutFile
<1>7. Sealing'
    BY <1>1, <1>3 DEF KeysIInv, Sealing, SameKeys, Unpredicted, Predicting, PolicySteps
<1>8. Opening' /\ DataReleased'
  <2>1. f'.client \notin Openers /\ f'.data = f.data
      BY <1>2, <1>3 DEF SameKeys, Openers, Sealers, Unsealers
  <2>2. f.data = Nil
      BY <1>2 DEF KeysIInv, DataReleased, Openers, Sealers, Unsealers
  <2>3. QED
      BY <2>1, <2>2 DEF Opening, DataReleased
<1>9. QED
    BY <1>5, <1>6, <1>7, <1>8 DEF KeysIInv

-----------------------------------------------------------------------------
(* The steps that unseal.                                                  *)

\* A step of an unsealing client that changes no register and no history.
LEMMA OpenerStep ==
    ASSUME KeysIInv, f.client \in Openers, f'.client = f.client, f'.data = f.data,
           Keep, tpm'.pcr = tpm.pcr, pc # "idle",
           pc' \notin {"lockreset", "lockout", "scenario", "cap.after"},
           pc \in Booted, Opening'
    PROVE  KeysIInv'
<1>1. nv' = nv /\ file' = file /\ sealedFor' = sealedFor /\ phase' = phase
    BY DEF Keep
<1>2. Reg(7)' = Reg(7) /\ Reg(11)' = Reg(11)
    BY DEF Reg
<1>3. RegistersKnown'
    BY <1>1, <1>2 DEF KeysIInv, RegistersKnown
<1>4. FileMeans'
    BY <1>1 DEF KeysIInv, FileMeans
<1>5. Sealing'
    BY DEF Sealing, Openers, Sealers, Unsealers
<1>6. DataReleased'
    BY <1>1 DEF KeysIInv, DataReleased, KeysOnlyAsSealed, SealedForThisBoot
<1>7. QED
    BY <1>3, <1>4, <1>5, <1>6 DEF KeysIInv

LEMMA KeysLoadSealedData ==
    ASSUME ClientsIInv, KeysIInv, LoadSealedData
    PROVE  KeysIInv'
<1> USE Parts
<1>1. PICK b \in TPM2X_DeserializeBlob(file) \cup {Nil} :
        /\ pc = "load" /\ Keep /\ tpm' = tpm
        /\ f' = [f EXCEPT !.blob = b]
        /\ pc' \in {"cap.before", "readpublic", "cap.sha1", "unseal.session"}
    BY DEF LoadSealedData, Is, Goto, Set, Local, Fault
<1>2. f.client \in Openers
    BY <1>1 DEF Program, Routing, UnsealSteps
<1>3. /\ f'.client = f.client /\ f'.pcrs = f.pcrs /\ f'.blob = b /\ f'.data = f.data
    BY <1>1 DEF Frames
<1>4. file' = file
    BY <1>1 DEF Keep
<1>5. b \in SealPolicies => b = file
    BY <1>1, NilAssumption DEF TPM2X_DeserializeBlob
<1>6. f.pcrs = Nil
    BY <1>1, <1>2 DEF KeysIInv, Opening, Early
<1>7. Opening'
    BY <1>1, <1>3, <1>4, <1>5, <1>6 DEF Opening
<1>8. pc \in Booted
    BY <1>1 DEF Booted, UnsealSteps
<1>9. QED
    BY <1>1, <1>2, <1>3, <1>7, <1>8, OpenerStep

LEMMA KeysUnsealLoad ==
    ASSUME ClientsIInv, KeysIInv, UnsealLoad
    PROVE  KeysIInv'
<1> USE Parts
<1>1. PICK o \in TPM2_Load(tpm, f.parent, f.blob) :
        /\ pc = "unseal.load" /\ Returns(o) /\ Keep
        /\ IF o.rc = "success" THEN pc' = "unseal.unseal" /\ f' = [f EXCEPT !.object = o.out]
           ELSE pc' = "unseal.flush" /\ f' = [f EXCEPT !.rc = o.rc]
    BY DEF UnsealLoad, Call, Is, Goto, Set
<1>2. f.client \in Openers
    BY <1>1 DEF Program, Routing, UnsealSteps
<1>3. /\ tpm'.pcr = tpm.pcr
      /\ o.rc = "success" => tpm'.session = tpm.session /\ tpm'.object[o.out].policy = f.blob
  <2>1. f.blob \in SealPolicies \cup {Nil, Garbage}
      BY DEF Frames
  <2>2. QED
      BY <1>1, <2>1, LoadSets DEF Returns
<1>4. CASE o.rc = "success"
  <2>1. /\ f'.client = f.client /\ f'.pcrs = f.pcrs /\ f'.blob = f.blob /\ f'.data = f.data
        /\ f'.session = f.session /\ f'.object = o.out /\ pc' = "unseal.unseal"
      BY <1>1, <1>4 DEF Frames
  <2>2. file' = file /\ ChipRegisters' = ChipRegisters
      BY <1>1, <1>3 DEF Keep, ChipRegisters, Reg
  <2>3. /\ tpm.session[f.session] # Nil
        /\ tpm.session[f.session].policy.pcrs = ChipRegisters
        /\ f.blob \in SealPolicies => f.blob = file
      BY <1>1, <1>2 DEF KeysIInv, Opening
  <2>4. Opening'
      BY <1>3, <1>4, <2>1, <2>2, <2>3 DEF Opening, Early
  <2>5. pc \in Booted
      BY <1>1 DEF Booted, UnsealSteps
  <2>6. QED
      BY <1>1, <1>2, <1>3, <2>1, <2>4, <2>5, OpenerStep
<1>5. CASE o.rc # "success"
  <2>1. SameKeys(f')
      BY <1>1, <1>5 DEF SameKeys, Frames
  <2>2. Flow
      BY <1>1, <1>2, <1>5 DEF Flow, Booted, Predicting, Unpredicted, Early
  <2>3. QED
      BY <1>1, <1>3, <2>1, <2>2, QuietKeep
<1>6. QED
    BY <1>4, <1>5

\* The registers of the chip when the session satisfies the policy of the object
\* are those of the file.
LEMMA SatisfiedByFile ==
    ASSUME ClientsIInv, KeysIInv, pc = "unseal.unseal",
           tpm.session[f.session].policy = tpm.object[f.object].policy
    PROVE  Means(ChipRegisters, sealedFor)
<1> USE Parts
<1>1. f.client \in Openers /\ f.session # Nil
    BY DEF Program, Routing, UnsealSteps, Handles, SessionHeld
<1>2. f.session \in Sessions
    BY <1>1 DEF Frames
<1>3. /\ tpm.session[f.session] # Nil
      /\ tpm.session[f.session].policy.pcrs = ChipRegisters
      /\ tpm.object[f.object].policy = f.blob
      /\ f.blob \in SealPolicies => f.blob = file
    BY <1>1 DEF KeysIInv, Opening
<1>4. tpm.session[f.session] \in SessionStates
    BY <1>2, <1>3 DEF Chips
<1>5. ChipRegisters \in Selections
  <2>1. tpm.pcr["SHA256"] \in [PCRs -> Seq(Digests)]
      BY DEF Chips, Registers, Banks
  <2>2. \A p \in Mask : Reg(p) \in Seq(Digests)
      BY <2>1 DEF Reg, Mask, PCRs
  <2>3. ChipRegisters \in [Mask -> Seq(Digests)]
      BY <2>2 DEF ChipRegisters
  <2>4. QED
      BY <2>3 DEF Selections
<1>6. f.blob \in SealPolicies
  <2> DEFINE y == tpm.session[f.session].policy
             c == ChipRegisters
  <2>1. y \in Policies /\ y.pcrs = c /\ c \in Selections /\ y = f.blob
      BY <1>3, <1>4, <1>5 DEF SessionStates
  <2> HIDE DEF y, c
  <2>2. y \in SealPolicies
      BY <2>1 DEF Policies, SealPolicies
  <2>3. QED
      BY <2>1, <2>2
<1>7. file \in SealPolicies /\ file.pcrs = ChipRegisters
    BY <1>3, <1>6
<1>8. QED
    BY <1>7 DEF KeysIInv, FileMeans

\* The registers a boot policy predicts, at a boot.
LEMMA BootTold ==
    ASSUME NEW v \in Variables, NEW w \in Variables, NEW b \in {"00", "01"},
           Firmware(v)[7] = BootRegisters(b, w)[7]
    PROVE  v["SecureBoot"] = b /\ \A x \in DOMAIN v \ {"SecureBoot"} : w[x] = v[x]
<1> DEFINE u == [w EXCEPT !["SecureBoot"] = b]
<1>1. u \in Variables /\ u["SecureBoot"] = b /\ u["dbx"] = w["dbx"]
    BY DEF Variables
<1>2. BootRegisters(b, w)[7] = Firmware(u)[7]
    BY DEF BootRegisters, BootTable, Mask
<1> HIDE DEF u
<1>3. v["SecureBoot"] = b /\ v["dbx"] = w["dbx"]
    BY <1>1, <1>2, FirmwareTells
<1>4. DOMAIN v = {"SecureBoot", "PK", "KEK", "db", "dbx"}
    BY DEF Variables
<1>5. v["PK"] = w["PK"] /\ v["KEK"] = w["KEK"] /\ v["db"] = w["db"]
    BY DEF Variables
<1>6. QED
    BY <1>3, <1>4, <1>5

LEMMA UnsealedAsSealed ==
    ASSUME ClientsIInv, KeysIInv, pc = "unseal.unseal",
           tpm.session[f.session].policy = tpm.object[f.object].policy
    PROVE  /\ f.client = "lsvmload" => SealedForThisBoot
           /\ f.client # "lsvmload" => sealedFor.client \in {"seal", "sealpolicy"}
<1> USE Parts
<1>1. Means(ChipRegisters, sealedFor) /\ nv \in Variables
    BY SatisfiedByFile DEF MachineOK
<1>2. sealedFor.client \in Sealers /\ sealedFor.nv \in Variables /\ sealedFor # Nil
    BY <1>1, NilAssumption DEF Means
<1>3. ChipRegisters[7] = Reg(7) /\ ChipRegisters[11] = Reg(11)
    BY DEF ChipRegisters, Mask
<1>4. \A b \in {"00", "01"} : BootRegisters(b, sealedFor.nv)[11] = ScenarioUpTo(3)
    BY DEF BootRegisters, BootTable, Mask
<1>5. CASE f.client = "lsvmload"
  <2>1. Reg(11) = ScenarioUpTo(3) /\ Reg(7) = Firmware(nv)[7]
      BY <1>5 DEF KeysIInv, RegistersKnown, Booted, UnsealSteps
  <2>2. sealedFor.client \notin {"seal", "sealpolicy"}
      BY <1>1, <1>3, <2>1, NotCapped DEF Means
  <2>3. CASE sealedFor.client = "seallsvmloadpolicy"
    <3>1. ChipRegisters = BootRegisters("00", sealedFor.nv) /\ "00" \in {"00", "01"}
        BY <1>1, <2>3 DEF Means
    <3>2. Firmware(nv)[7] = BootRegisters("00", sealedFor.nv)[7]
        BY <1>3, <2>1, <3>1
    <3>3. nv["SecureBoot"] = "00" /\ \A x \in DOMAIN nv \ {"SecureBoot"} : sealedFor.nv[x] = nv[x]
        BY <1>1, <1>2, <3>1, <3>2, BootTold
    <3>4. QED
        BY <1>2, <1>5, <2>3, <3>3 DEF SealedForThisBoot
  <2>4. CASE sealedFor.client = "seallsvmloadpolicy --secureboot"
    <3>1. ChipRegisters = BootRegisters("01", sealedFor.nv) /\ "01" \in {"00", "01"}
        BY <1>1, <2>4 DEF Means
    <3>2. Firmware(nv)[7] = BootRegisters("01", sealedFor.nv)[7]
        BY <1>3, <2>1, <3>1
    <3>3. nv["SecureBoot"] = "01" /\ \A x \in DOMAIN nv \ {"SecureBoot"} : sealedFor.nv[x] = nv[x]
        BY <1>1, <1>2, <3>1, <3>2, BootTold
    <3>4. QED
        BY <1>2, <1>5, <2>4, <3>3 DEF SealedForThisBoot
  <2>5. QED
      BY <1>2, <2>2, <2>3, <2>4 DEF Sealers
<1>6. CASE f.client # "lsvmload"
  <2>1. Capped(Reg(11))
      BY <1>6 DEF KeysIInv, RegistersKnown
  <2>2. \A b \in {"00", "01"} : ChipRegisters # BootRegisters(b, sealedFor.nv)
      BY <1>3, <1>4, <2>1, NotCapped
  <2>3. QED
      BY <1>1, <1>2, <1>6, <2>2 DEF Means, Sealers
<1>7. QED
    BY <1>5, <1>6

LEMMA KeysUnsealUnseal ==
    ASSUME ClientsIInv, KeysIInv, UnsealUnseal
    PROVE  KeysIInv'
<1> USE Parts
<1>1. PICK o \in TPM2_Unseal(tpm, f.object, f.session) :
        /\ pc = "unseal.unseal" /\ pc' = "unseal.flush" /\ Returns(o) /\ Keep
        /\ IF o.rc = "success" THEN f' = [f EXCEPT !.data = o.out, !.session = Nil]
           ELSE f' = [f EXCEPT !.rc = o.rc]
    BY DEF UnsealUnseal, Call, Is, Goto, Set
<1>2. f.client \in Openers
    BY <1>1 DEF Program, Routing, UnsealSteps
<1>3. /\ tpm'.pcr = tpm.pcr
      /\ o.rc = "success" => tpm.session[f.session].policy = tpm.object[f.object].policy
    BY <1>1, UnsealChecks DEF Returns
<1>4. CASE o.rc = "success"
  <2>1. /\ f'.client = f.client /\ f'.pcrs = f.pcrs /\ f'.blob = f.blob
      BY <1>1, <1>4 DEF Frames
  <2>2. /\ f.client = "lsvmload" => SealedForThisBoot
        /\ f.client # "lsvmload" => sealedFor.client \in {"seal", "sealpolicy"}
      BY <1>1, <1>3, <1>4, UnsealedAsSealed
  <2>3. nv' = nv /\ file' = file /\ sealedFor' = sealedFor /\ phase' = phase
      BY <1>1 DEF Keep
  <2>4. Reg(7)' = Reg(7) /\ Reg(11)' = Reg(11)
      BY <1>3 DEF Reg
  <2>5. RegistersKnown'
      BY <1>1, <2>1, <2>3, <2>4 DEF KeysIInv, RegistersKnown, Booted, UnsealSteps
  <2>6. FileMeans' /\ Sealing'
      BY <1>2, <2>1, <2>3 DEF KeysIInv, FileMeans, Sealing, Openers, Sealers, Unsealers
  <2>7. Opening'
      BY <1>1, <1>2, <2>1, <2>3 DEF KeysIInv, Opening, Early
  <2>8. DataReleased'
    <3>1. f'.client = "lsvmload" => SealedForThisBoot'
        BY <2>1, <2>2, <2>3 DEF SealedForThisBoot
    <3>2. QED
        BY <1>2, <2>1, <2>2, <2>3, <3>1 DEF DataReleased, KeysOnlyAsSealed
  <2>9. QED
      BY <2>5, <2>6, <2>7, <2>8 DEF KeysIInv
<1>5. CASE o.rc # "success"
  <2>1. SameKeys(f')
      BY <1>1, <1>5 DEF SameKeys, Frames
  <2>2. Flow
      BY <1>1, <1>2 DEF Flow, Booted, Predicting, Unpredicted, Early
  <2>3. QED
      BY <1>1, <1>3, <2>1, <2>2, QuietKeep
<1>6. QED
    BY <1>4, <1>5

-----------------------------------------------------------------------------
(* The steps that extend a register.                                       *)

LEMMA HashLogRegisters ==
    ASSUME NEW t \in Chips, NEW d \in Digests, NEW o \in HashLogExtendEvent(t, 11, d)
    PROVE  \/ o.rc # "success" /\ o.tpm.pcr = t.pcr
           \/ /\ o.rc = "success"
              /\ o.tpm.pcr["SHA256"][11] = Append(t.pcr["SHA256"][11], d)
              /\ o.tpm.pcr["SHA256"][7] = t.pcr["SHA256"][7]
<1> DEFINE r == [b \in Banks |-> [t.pcr[b] EXCEPT ![11] = Append(t.pcr[b][11], d)]]
           u == [t EXCEPT !.pcr = r]
<1>1. t.pcr \in [Banks -> Registers]
    BY DEF Chips
<1>2. r \in [Banks -> Registers]
    BY <1>1, Appended
<1>3. \/ o = Answer(u, Nil)
      \/ o = [rc |-> "failure", tpm |-> t, out |-> Nil, fault |-> "unsent"]
    BY DEF HashLogExtendEvent
<1>4. t.pcr["SHA256"] \in [PCRs -> Seq(Digests)]
    BY <1>1 DEF Registers, Banks
<1>5. r["SHA256"][11] = Append(t.pcr["SHA256"][11], d) /\ r["SHA256"][7] = t.pcr["SHA256"][7]
    BY <1>4 DEF Banks, PCRs
<1> HIDE DEF r
<1>6. u.pcr = r
    BY <1>2, RegistersSet
<1> HIDE DEF u
<1>7. CASE o = Answer(u, Nil)
    BY <1>5, <1>6, <1>7, AnswerFields
<1>8. CASE o = [rc |-> "failure", tpm |-> t, out |-> Nil, fault |-> "unsent"]
    BY <1>8
<1>9. QED
    BY <1>3, <1>7, <1>8

\* One bank is extended, or none.
ExtendedBy(o, t, bank, p, d) ==
    /\ \A b \in Banks \ {bank} : o.tpm.pcr[b] = t.pcr[b]
    /\ \A q \in PCRs : q # p => o.tpm.pcr[bank][q] = t.pcr[bank][q]
    /\ p \in PCRs => o.tpm.pcr[bank][p] = Append(t.pcr[bank][p], d)

LEMMA ExtendRegisters ==
    ASSUME NEW t \in Chips, NEW bank \in Banks, NEW p, NEW d \in Digests,
           NEW o \in TPM2_PCR_Extend(t, bank, p, d)
    PROVE  \/ o.rc # "success" /\ o.tpm = t
           \/ ExtendedBy(o, t, bank, p, d)
<1> DEFINE r == [t.pcr EXCEPT ![bank] = [t.pcr[bank] EXCEPT ![p] = Append(t.pcr[bank][p], d)]]
           u == [t EXCEPT !.pcr[bank][p] = Append(@, d)]
<1>1. t.pcr \in [Banks -> Registers]
    BY DEF Chips
<1>2. r \in [Banks -> Registers]
    BY <1>1, Appended
<1>3. u = [t EXCEPT !.pcr = r]
    OBVIOUS
<1>4. o \in _SubmitCommand(t, Answer(u, Nil))
    BY DEF TPM2_PCR_Extend
<1>5. t.pcr[bank] \in [PCRs -> Seq(Digests)]
    BY <1>1 DEF Registers
<1>6. /\ \A b \in Banks \ {bank} : r[b] = t.pcr[b]
      /\ \A q \in PCRs : q # p => r[bank][q] = t.pcr[bank][q]
      /\ p \in PCRs => r[bank][p] = Append(t.pcr[bank][p], d)
    BY <1>1, <1>5
<1> HIDE DEF r, u
<1>7. u.pcr = r
    BY <1>2, <1>3, RegistersSet
<1>8. o.tpm = u \/ (o.rc # "success" /\ o.tpm = t)
    BY <1>4, Answered DEF Obeyed, Ignored
<1>9. QED
    BY <1>6, <1>7, <1>8 DEF ExtendedBy

LEMMA ScenarioExtends ==
    ASSUME NEW n \in {0, 1, 2}, NEW m, m = n + 1
    PROVE  /\ ComputeHash(MeasureLinuxScenario[m]) \in Digests
           /\ Append(ScenarioUpTo(n), ComputeHash(MeasureLinuxScenario[m])) = ScenarioUpTo(m)
<1>1. m \in 1 .. 3 /\ n \in 0 .. 3 /\ m \in 0 .. 3 /\ n \in 0 .. 2
    OBVIOUS
<1>2. ComputeHash(MeasureLinuxScenario[m]) \in Digests
    BY <1>1, MeasuredDigests
<1>3. ComputeHash(MeasureLinuxScenario[m]) = ScenarioDigests[m]
    BY <1>1 DEF ScenarioDigests, ScenarioUpTo
<1>4. Append(Upto(ScenarioDigests, n), ScenarioDigests[m]) = Upto(ScenarioDigests, m)
    BY ScenarioNext
<1>5. ScenarioUpTo(n) = Upto(ScenarioDigests, n) /\ ScenarioUpTo(m) = Upto(ScenarioDigests, m)
    BY <1>1, ScenarioTyped
<1>6. QED
    BY <1>2, <1>3, <1>4, <1>5

LEMMA KeysScenario ==
    ASSUME ClientsIInv, KeysIInv, Scenario
    PROVE  KeysIInv'
<1> USE Parts
<1> DEFINE d == ComputeHash(MeasureLinuxScenario[f.i + 1])
<1>1. PICK o \in HashLogExtendEvent(tpm, 11, d) :
        /\ pc = "scenario" /\ Returns(o) /\ Keep
        /\ o.rc = "success" => /\ pc' = (IF f.i = 2 THEN "load" ELSE "scenario")
                               /\ f' = [f EXCEPT !.i = (f.i + 1) % 3]
        /\ o.rc # "success" => Exit(f)
    BY DEF Scenario, Call, Is, Goto, Set
<1>2. f.client = "lsvmload" /\ f.i \in 0 .. 2
    BY <1>1 DEF Program, Routing, LoaderSteps
<1> DEFINE m == f.i + 1
           j == (f.i + 1) % 3
<1>3. f.i \in {0, 1, 2} /\ m = f.i + 1 /\ (f.i # 2 => j = m) /\ (f.i = 2 => m = 3)
    BY <1>2
<1>4. d \in Digests /\ Append(ScenarioUpTo(f.i), d) = ScenarioUpTo(m)
    BY <1>3, ScenarioExtends
<1>5. Reg(11) = ScenarioUpTo(f.i) /\ Reg(7) = Firmware(nv)[7] /\ phase # "os"
    BY <1>1, <1>2 DEF KeysIInv, RegistersKnown
<1> HIDE DEF d
<1>6. \/ o.rc # "success" /\ tpm'.pcr = tpm.pcr
      \/ o.rc = "success" /\ Reg(11)' = Append(Reg(11), d) /\ Reg(7)' = Reg(7)
    BY <1>1, <1>4, HashLogRegisters DEF Returns, Reg
<1>7. CASE o.rc = "success"
  <2>1. /\ f' = [f EXCEPT !.i = j]
        /\ \/ pc' = "load" /\ f.i = 2
           \/ pc' = "scenario" /\ f.i # 2
      BY <1>1, <1>7
  <2>2. Reg(11)' = ScenarioUpTo(m) /\ Reg(7)' = Reg(7)
      BY <1>4, <1>5, <1>6, <1>7
  <2> HIDE DEF m, j
  <2>3. SameKeys(f') /\ f'.i = j
      BY <2>1 DEF SameKeys, Frames
  <2>4. nv' = nv /\ file' = file /\ sealedFor' = sealedFor /\ phase' = phase
      BY <1>1 DEF Keep
  <2>5. RegistersKnown'
    <3>1. pc' = "scenario" => Reg(11)' = ScenarioUpTo(f'.i)
        BY <1>3, <2>1, <2>2, <2>3
    <3>2. pc' = "load" => Reg(11)' = ScenarioUpTo(3)
        BY <1>3, <2>1, <2>2
    <3>3. Reg(7)' = Firmware(nv')[7]
        BY <1>5, <2>2, <2>4
    <3>4. f'.client = "lsvmload" /\ phase' # "os"
        BY <1>2, <1>5, <2>3, <2>4 DEF SameKeys
    <3>5. QED
        BY <2>1, <3>1, <3>2, <3>3, <3>4
           DEF RegistersKnown, Booted, UnsealSteps, PolicySteps
  <2>6. FileMeans'
      BY <2>4 DEF KeysIInv, FileMeans
  <2>7. Sealing'
      BY <1>2, <2>3 DEF Sealing, SameKeys, Sealers
  <2>8. Opening'
      BY <1>1, <2>1, <2>3, <2>4 DEF KeysIInv, Opening, SameKeys, Early
  <2>9. DataReleased'
      BY <2>3, <2>4 DEF KeysIInv, DataReleased, KeysOnlyAsSealed, SealedForThisBoot, SameKeys
  <2>10. QED
      BY <2>5, <2>6, <2>7, <2>8, <2>9 DEF KeysIInv
<1>8. CASE o.rc # "success"
  <2>1. tpm'.pcr = tpm.pcr
      BY <1>6, <1>8
  <2>2. QED
      BY <1>1, <1>8, <2>1, QuietEnd
<1>9. QED
    BY <1>7, <1>8

\* An extension of the other bank.
LEMMA KeysCapSHA1 ==
    ASSUME ClientsIInv, KeysIInv, CapSHA1
    PROVE  KeysIInv'
<1> USE Parts
<1>1. PICK o \in TPM2_PCR_Extend(tpm, "SHA1", CapPCRNumber, Zeros) :
        /\ pc = "cap.sha1" /\ Returns(o) /\ Keep
        /\ IF o.rc = "success" THEN pc' = "cap.sha256" /\ f' = f ELSE CapFailed(o.rc)
    BY DEF CapSHA1, Call, Is, Goto, Set
<1>2. tpm'.pcr["SHA256"] = tpm.pcr["SHA256"]
  <2>1. "SHA1" \in Banks /\ "SHA256" \in Banks \ {"SHA1"} /\ Zeros \in Digests
      BY MeasuredDigests DEF Banks
  <2>2. \/ o.tpm = tpm
        \/ ExtendedBy(o, tpm, "SHA1", CapPCRNumber, Zeros)
      BY <1>1, <2>1, ExtendRegisters
  <2>3. QED
      BY <1>1, <2>1, <2>2 DEF ExtendedBy, Returns
<1>3. \/ pc' = "cap.sha256" /\ f' = f
      \/ pc' = "flushsrk" /\ f' = f
      \/ Exit(f)
    BY <1>1 DEF CapFailed, Goto, Set
<1>4. f.client \in Openers \cup {"cappcr11", "capall"}
    BY <1>1 DEF Program, Routing, CapSteps
<1>5. pc' \in {"cap.sha256", "flushsrk", "idle"} /\ SameKeys(f')
  <2>1. SameKeys(f)
      BY DEF SameKeys
  <2>2. QED
      BY <1>3, <2>1, QuietExit
<1>6. Flow
    BY <1>1, <1>4, <1>5 DEF Flow, Booted, Predicting, Unpredicted, Early
<1>7. Quiet
    BY <1>1, <1>2, <1>5 DEF Quiet, Keep
<1>8. QED
    BY <1>6, <1>7, QuietStep

LEMMA KeysCapSHA256 ==
    ASSUME ClientsIInv, KeysIInv, CapSHA256
    PROVE  KeysIInv'
<1> USE Parts
<1>1. PICK o \in TPM2_PCR_Extend(tpm, "SHA256", CapPCRNumber, Zeros) :
        /\ pc = "cap.sha256" /\ Returns(o) /\ Keep
        /\ IF o.rc = "success"
           THEN /\ pc' = AfterCap
                /\ f' = [f EXCEPT !.i = f.i + 1,
                                  !.status = IF f.client = "cappcr11" THEN "ok" ELSE f.status]
           ELSE CapFailed(o.rc)
    BY DEF CapSHA256, Call, Is, Goto, Set
<1>2. f.client \in Openers \cup {"cappcr11", "capall"}
    BY <1>1 DEF Program, Routing, CapSteps
<1>3. nv' = nv /\ file' = file /\ sealedFor' = sealedFor /\ phase' = phase
    BY <1>1 DEF Keep
<1>4. /\ f.client # "capall" => Reg(7)' = Reg(7)
      /\ Capped(Reg(11)) => Capped(Reg(11)')
      /\ o.rc = "success" /\ f.client # "capall" => Capped(Reg(11)')
  <2> DEFINE p == CapPCRNumber
  <2>1. "SHA256" \in Banks /\ Zeros \in Digests
      BY MeasuredDigests DEF Banks
  <2>2. f.client # "capall" => p = 11
      BY DEF CapPCRNumber
  <2> HIDE DEF p
  <2>3. o \in TPM2_PCR_Extend(tpm, "SHA256", p, Zeros)
      BY <1>1 DEF p
  <2>4. tpm' = o.tpm
      BY <1>1 DEF Returns
  <2>5. CASE o.rc # "success" /\ o.tpm = tpm
      BY <2>4, <2>5 DEF Reg
  <2>6. CASE ExtendedBy(o, tpm, "SHA256", p, Zeros)
    <3>1. 7 \in PCRs /\ 11 \in PCRs /\ 7 # 11
        BY DEF PCRs
    <3>2. Reg(11) \in Seq(Digests)
        BY <3>1 DEF Reg, Chips, Registers, Banks
    <3>3. p # 11 => Reg(11)' = Reg(11)
        BY <2>4, <2>6, <3>1 DEF ExtendedBy, Reg
    <3>4. p = 11 => Reg(11)' = Append(Reg(11), Zeros) /\ Reg(7)' = Reg(7)
        BY <2>4, <2>6, <3>1 DEF ExtendedBy, Reg
    <3>5. p = 11 => Capped(Reg(11)')
        BY <2>1, <3>2, <3>4, CapAppended
    <3>6. QED
        BY <2>2, <3>3, <3>4, <3>5
  <2>7. QED
      BY <2>1, <2>3, <2>5, <2>6, ExtendRegisters
<1>5. /\ SameKeys(f')
      /\ \/ pc' = "cap.after" /\ f.client = "lsvmload" /\ o.rc = "success"
         \/ pc' = "flushsrk" /\ f.client \in Unsealers
         \/ pc' \in {"cap.sha1", "capall.check"} /\ f.client = "capall"
         \/ pc' = "idle"
  <2>1. CASE o.rc = "success"
    <3> DEFINE x == IF f.client = "cappcr11" THEN "ok" ELSE f.status
               n == f.i + 1
    <3>1. pc' = AfterCap /\ f' = [f EXCEPT !.i = n, !.status = x]
        BY <1>1, <2>1
    <3> HIDE DEF x, n
    <3>2. SameKeys(f')
        BY <3>1 DEF SameKeys, Frames
    <3>3. QED
        BY <2>1, <3>1, <3>2 DEF AfterCap
  <2>2. CASE o.rc # "success"
    <3>1. (pc' = "flushsrk" /\ f' = f /\ f.client \in Unsealers) \/ Exit(f)
        BY <1>1, <2>2 DEF CapFailed, Goto, Set
    <3>2. SameKeys(f)
        BY DEF SameKeys
    <3>3. QED
        BY <3>1, <3>2, QuietExit
  <2>3. QED
      BY <2>1, <2>2
<1>6. RegistersKnown'
  <2>1. f'.client = f.client
      BY <1>5 DEF SameKeys
  <2>2. f.client # "lsvmload" => phase' = "os" /\ Capped(Reg(11)')
      BY <1>3, <1>4 DEF KeysIInv, RegistersKnown
  <2>3. f.client = "lsvmload" => /\ Reg(7)' = Firmware(nv')[7] /\ phase' # "os"
                                 /\ pc' = "cap.after" \/ pc' = "idle"
                                 /\ pc' = "cap.after" => Capped(Reg(11)')
      BY <1>1, <1>3, <1>4, <1>5 DEF KeysIInv, RegistersKnown, Unsealers
  <2>4. pc' # "scenario" /\ (pc' = "cap.after" => f.client = "lsvmload")
      BY <1>5
  <2>5. QED
      BY <2>1, <2>2, <2>3, <2>4 DEF RegistersKnown, Booted, UnsealSteps, PolicySteps
<1>7. FileMeans' /\ Sealing'
    BY <1>2, <1>3, <1>5 DEF KeysIInv, FileMeans, Sealing, SameKeys, Sealers, Openers, Unsealers
<1>8. Opening'
    BY <1>3, <1>5 DEF KeysIInv, Opening, SameKeys, Early, Openers, Unsealers
<1>9. DataReleased'
    BY <1>3, <1>5 DEF KeysIInv, DataReleased, KeysOnlyAsSealed, SealedForThisBoot, SameKeys
<1>10. QED
    BY <1>6, <1>7, <1>8, <1>9 DEF KeysIInv

LEMMA KeysCapAfter ==
    ASSUME ClientsIInv, KeysIInv, CapAfter
    PROVE  KeysIInv'
<1> USE Parts
<1>1. PICK o \in TPM2X_ReadPCRSHA256(tpm, 11) :
        /\ pc = "cap.after" /\ Returns(o) /\ Exit(f) /\ phase' \in {phase, "os"}
        /\ nv' = nv /\ file' = file /\ sealedFor' = sealedFor
    BY DEF CapAfter, Is
<1>2. Reg(7)' = Reg(7) /\ Reg(11)' = Reg(11)
    BY <1>1, ReadKeeps DEF Returns, Reg
<1>3. pc' = "idle" /\ SameKeys(f')
  <2>1. SameKeys(f)
      BY DEF SameKeys
  <2>2. QED
      BY <1>1, <2>1, QuietExit
<1>4. f.client = "lsvmload"
    BY <1>1 DEF Program, Routing, LoaderSteps
<1>5. Capped(Reg(11)) /\ Reg(7) = Firmware(nv)[7]
    BY <1>1, <1>4 DEF KeysIInv, RegistersKnown
<1>6. RegistersKnown'
    BY <1>1, <1>2, <1>3, <1>4, <1>5
       DEF RegistersKnown, SameKeys, Booted, UnsealSteps, PolicySteps
<1>7. FileMeans' /\ Sealing'
    BY <1>1, <1>3, <1>4 DEF KeysIInv, FileMeans, Sealing, SameKeys, Sealers
<1>8. Opening'
    BY <1>1, <1>3 DEF KeysIInv, Opening, SameKeys, Early
<1>9. DataReleased'
    BY <1>1, <1>3 DEF KeysIInv, DataReleased, KeysOnlyAsSealed, SealedForThisBoot, SameKeys
<1>10. QED
    BY <1>6, <1>7, <1>8, <1>9 DEF KeysIInv

-----------------------------------------------------------------------------
(* Boots and commands.                                                     *)

LEMMA NewKeys ==
    ASSUME NEW c
    PROVE  /\ Frame(c).client = c /\ Frame(c).pcrs = Nil
           /\ Frame(c).blob \notin SealPolicies /\ Frame(c).data = Nil
    BY NilAssumption DEF Frame

LEMMA KeysRun ==
    ASSUME ClientsIInv, KeysIInv, NEW c \in Commands, Run(c)
    PROVE  KeysIInv'
<1>1. /\ pc' = "lockreset" /\ f' = Frame(c) /\ c # "lsvmload" /\ phase = "os" /\ phase' = phase
      /\ tpm' = tpm /\ nv' = nv /\ file' = file /\ sealedFor' = sealedFor
    BY ClientsAssumption DEF Run, Goto, Set, Local
<1>2. /\ f'.client = c /\ f'.pcrs = Nil /\ f'.blob \notin SealPolicies /\ f'.data = Nil
    BY <1>1, NewKeys
<1>3. Reg(11)' = Reg(11)
    BY <1>1 DEF Reg
<1>4. RegistersKnown'
    BY <1>1, <1>2, <1>3 DEF KeysIInv, RegistersKnown
<1>5. FileMeans'
    BY <1>1 DEF KeysIInv, FileMeans
<1>6. Sealing' /\ Opening' /\ DataReleased'
    BY <1>1, <1>2 DEF Sealing, Opening, DataReleased, Predicting, PolicySteps
<1>7. QED
    BY <1>4, <1>5, <1>6 DEF KeysIInv

\* The registers after a reset.
LEMMA NewRegisters ==
    ASSUME NEW v \in Variables, NEW persistent, NEW t, t = Chip(Firmware(v), persistent)
    PROVE  t.pcr["SHA256"][7] = Firmware(v)[7] /\ t.pcr["SHA256"][11] = <<>>
<1>1. Firmware(v)[11] = <<>>
    BY DEF Firmware, PCRs
<1> DEFINE m == Firmware(v)
<1> HIDE DEF m
<1>2. t.pcr["SHA256"] = m
    BY DEF Chip, Banks, m
<1>3. QED
    BY <1>1, <1>2 DEF m

LEMMA KeysReboot ==
    ASSUME ClientsIInv, KeysIInv, Reboot
    PROVE  KeysIInv'
<1>1. PICK v \in Variables : nv' = v /\ tpm' = Chip(Firmware(v), tpm.persistent)
    BY DEF Reboot
<1>2. /\ phase' = "loader" /\ pc' = "lockreset" /\ f' = Frame("lsvmload")
      /\ file' = file /\ sealedFor' = sealedFor
    BY DEF Reboot, Goto, Set
<1>3. /\ f'.client = "lsvmload" /\ f'.pcrs = Nil /\ f'.blob \notin SealPolicies /\ f'.data = Nil
    BY <1>2, NewKeys
<1>4. Reg(7)' = Firmware(nv')[7] /\ Reg(11)' = <<>>
    BY <1>1, NewRegisters DEF Reg
<1>5. RegistersKnown'
    BY <1>2, <1>3, <1>4 DEF RegistersKnown, Booted, UnsealSteps, PolicySteps
<1>6. FileMeans'
    BY <1>2 DEF KeysIInv, FileMeans
<1>7. Sealing' /\ Opening' /\ DataReleased'
    BY <1>2, <1>3 DEF Sealing, Opening, DataReleased, Sealers
<1>8. QED
    BY <1>5, <1>6, <1>7 DEF KeysIInv

LEMMA KeysInit ==
    ASSUME Init
    PROVE  KeysIInv
<1>1. PICK persistent \in BOOLEAN : tpm = Chip(Firmware(nv), persistent)
    BY DEF Init
<1>2. /\ nv \in Variables /\ phase = "loader" /\ pc = "lockreset" /\ f = Frame("lsvmload")
      /\ file = Nil
    BY DEF Init
<1>3. /\ f.client = "lsvmload" /\ f.pcrs = Nil /\ f.blob \notin SealPolicies /\ f.data = Nil
    BY <1>2, NewKeys
<1>4. Reg(7) = Firmware(nv)[7] /\ Reg(11) = <<>>
    BY <1>1, <1>2, NewRegisters DEF Reg
<1>5. RegistersKnown
    BY <1>2, <1>3, <1>4 DEF RegistersKnown, Booted, UnsealSteps, PolicySteps
<1>6. FileMeans
    BY <1>2, NilAssumption DEF FileMeans
<1>7. Sealing /\ Opening /\ DataReleased
    BY <1>2, <1>3 DEF Sealing, Opening, DataReleased, Sealers
<1>8. QED
    BY <1>5, <1>6, <1>7 DEF KeysIInv

LEMMA KeysNext ==
    ASSUME ClientsIInv, KeysIInv, Next
    PROVE  KeysIInv'
<1>1. CASE LockReset \/ Lockout \/ CreateSRK \/ FlushSRK
    BY <1>1, KeysLockReset, KeysLockout, KeysCreateSRK, KeysFlushSRK
<1>2. CASE PolicyPassword \/ PolicyRead \/ PolicyPCR
    BY <1>2, KeysPolicyPassword, KeysPolicyRead, KeysPolicyPCR
<1>3. CASE LoadInput \/ Predict \/ SealSession \/ SealDigest
    BY <1>3, KeysLoadInput, KeysPredict, KeysSealSession, KeysSealDigest
<1>4. CASE SealCreate \/ SealFlush \/ SealPolicy \/ PutFile
    BY <1>4, KeysSealCreate, KeysSealFlush, KeysSealPolicy, KeysPutFile
<1>5. CASE LoadSealedData \/ _Get_SRK \/ UnsealSession \/ UnsealLoad
    BY <1>5, KeysLoadSealedData, KeysGetSRK, KeysUnsealSession, KeysUnsealLoad
<1>6. CASE UnsealUnseal \/ UnsealFlushSession \/ UnsealFlushObject \/ Unsealed \/ SplitKeys
    BY <1>6, KeysUnsealUnseal, KeysUnsealFlushSession, KeysUnsealFlushObject, KeysUnsealed,
       KeysSplit
<1>7. CASE Scenario \/ CapBefore \/ CapSHA1 \/ CapSHA256
    BY <1>7, KeysScenario, KeysCapBefore, KeysCapSHA1, KeysCapSHA256
<1>8. CASE CapAfter \/ CapAllRead \/ CapAllCheck \/ Reboot
    BY <1>8, KeysCapAfter, KeysCapAllRead, KeysCapAllCheck, KeysReboot
<1>9. CASE \E c \in Commands : Run(c)
    BY <1>9, KeysRun
<1>10. QED
    BY <1>1, <1>2, <1>3, <1>4, <1>5, <1>6, <1>7, <1>8, <1>9 DEF Next

LEMMA KeysStutter ==
    ASSUME KeysIInv, UNCHANGED vars
    PROVE  KeysIInv'
<1>1. /\ tpm' = tpm /\ nv' = nv /\ file' = file /\ phase' = phase /\ pc' = pc /\ f' = f
      /\ sealedFor' = sealedFor
    BY DEF vars
<1>2. Reg(7)' = Reg(7) /\ Reg(11)' = Reg(11) /\ ChipRegisters' = ChipRegisters
    BY <1>1 DEF Reg, ChipRegisters
<1>3. RegistersKnown' /\ FileMeans'
    BY <1>1, <1>2 DEF KeysIInv, RegistersKnown, FileMeans
<1>4. Sealing' /\ Opening'
    BY <1>1, <1>2 DEF KeysIInv, Sealing, Opening
<1>5. DataReleased'
    BY <1>1 DEF KeysIInv, DataReleased, KeysOnlyAsSealed, SealedForThisBoot
<1>6. QED
    BY <1>3, <1>4, <1>5 DEF KeysIInv

\* Whatever commands are run, in whatever order, and whatever calls fail: lsvmload
\* gets the keys only in a boot with the variables the blob was sealed for, and a
\* command of a running system only from a blob of seal or sealpolicy, for the cap
\* of PCR[11] is in no blob that was sealed for a boot (UnsealKey and CapPCR of
\* lsvmload, SealPolicy and TPM2X_BuildPolicy of lsvmutils).
THEOREM KeysReleasedAsSealed == Spec => []KeysOnlyAsSealed
<1>1. Init => ClientsIInv /\ KeysIInv
    BY ClientsInit, KeysInit
<1>2. ClientsIInv /\ KeysIInv /\ [Next]_vars => ClientsIInv' /\ KeysIInv'
  <2>1. ASSUME ClientsIInv, UNCHANGED vars PROVE ClientsIInv'
      BY <2>1, ClientsNext
  <2>2. QED
      BY <2>1, ClientsNext, KeysNext, KeysStutter
<1>3. ClientsIInv /\ KeysIInv => KeysOnlyAsSealed
    BY DEF KeysIInv, DataReleased, KeysOnlyAsSealed
<1>4. QED
    BY <1>1, <1>2, <1>3, PTL DEF Spec

-----------------------------------------------------------------------------
(* The predictions hold, while no call has failed.  The invariant Unfailed *)
(* goes with ClientsIInv and KeysIInv:                                     *)
(*   SealsUnfailed  a sealing command has its policy built in a trial      *)
(*                  session, and its blob is sealed with it                *)
(*   OpensUnfailed  lsvmload has the blob of the file until it has the keys*)

SealedBlob(b) == b \in SealPolicies /\ b.password = TRUE

PasswordGiven == tpm.session[f.session].policy.password = TRUE
SealsUnfailed ==
    /\ pc \in PolicySteps => tpm.session[f.session].type = "trial"
    /\ pc \in {"policy.read", "policy.pcr", "seal.digest"} => PasswordGiven
    /\ pc = "seal.create" => f.digest.password = TRUE
    /\ pc \in {"seal.flush", "sealed"} \/ f.status = "sealed" => SealedBlob(f.blob)

HasBlob == PolicySteps \cup {"readpublic", "srk", "unseal.session", "unseal.load", "unseal.unseal"}
HasKeys == {"unseal.flush", "unseal.flushobject", "unsealed", "flushsrk", "split"}
OpensUnfailed ==
    /\ pc \in HasBlob => f.blob = file
    /\ pc \in {"policy.read", "policy.pcr", "unseal.load", "unseal.unseal"} => PasswordGiven
    /\ pc \in HasKeys => f.data # Nil
    /\ pc = "cap.before" => f.status = "keys"

Unfailed ==
    faults = MaxFaults =>
        /\ orphans = 0
        /\ sealedFor # Nil => SealedBlob(file)
        /\ f.client \in Sealers => SealsUnfailed
        /\ f.client = "lsvmload" /\ SealedForThisBoot => OpensUnfailed

-----------------------------------------------------------------------------
(* A step without a fault.                                                 *)

Unharmed == faults' = MaxFaults => faults = MaxFaults /\ orphans' = orphans

\* A call that costs no fault is obeyed or refused.
LEMMA UnharmedCall ==
    ASSUME MachineOK, NEW o, Returns(o)
    PROVE  Unharmed /\ (faults' = MaxFaults => o.fault = "none")
<1>1. faults \in 0 .. MaxFaults /\ orphans \in Nat /\ MaxFaults \in Nat
    BY ClientsAssumption DEF MachineOK
<1>2. \/ o.fault = "none" /\ faults' = faults
      \/ o.fault # "none" /\ faults' = faults - 1
    BY DEF Returns
<1>3. o.fault = "none" => orphans' = orphans + 0
    BY DEF Returns
<1>4. QED
    BY <1>1, <1>2, <1>3 DEF Unharmed

LEMMA UnharmedLocal ==
    ASSUME MachineOK, Local \/ Fault
    PROVE  Unharmed /\ (faults' = MaxFaults => Local /\ ~Fault)
<1>1. faults \in 0 .. MaxFaults /\ MaxFaults \in Nat
    BY ClientsAssumption DEF MachineOK
<1>2. CASE Local
    BY <1>1, <1>2 DEF Local, Fault, Unharmed
<1>3. CASE Fault
    BY <1>1, <1>3 DEF Fault, Unharmed
<1>4. QED
    BY <1>2, <1>3

LEMMA NoFault ==
    ASSUME NEW t, NEW done, NEW o \in _SubmitCommand(t, done), o.fault = "none"
    PROVE  o = done
    BY Outcomes

\* What a client has no handle of is not in the chip, so that there is room.
LEMMA NoneLeft ==
    ASSUME ClientsIInv, orphans = 0
    PROVE  SessionsLeft = {} /\ ObjectsLeft = {}
<1>1. TypeOK /\ Accounted
    BY DEF ClientsIInv
<1>2. IsFiniteSet(SessionsLeft) /\ IsFiniteSet(ObjectsLeft)
    BY <1>1, LeftFinite
<1>3. Cardinality(SessionsLeft) \in Nat /\ Cardinality(ObjectsLeft) \in Nat
    BY <1>2, FS_CardinalityType
<1>4. Cardinality(SessionsLeft) = 0 /\ Cardinality(ObjectsLeft) = 0
    BY <1>1, <1>3 DEF Accounted
<1>5. QED
    BY <1>2, <1>4, FS_EmptySet

LEMMA SessionFree ==
    ASSUME ClientsIInv, orphans = 0, f.session = Nil
    PROVE  FreeSlots(tpm.session) # {}
<1> USE Parts
<1>1. SessionsLeft = {}
    BY NoneLeft
<1>2. DOMAIN tpm.session = 1 .. MaxSessions /\ 1 \in 1 .. MaxSessions
    BY SlotsAssumption DEF Chips, Sessions, MachineOK
<1>3. 1 # Nil
    BY <1>2, NilAssumption DEF Sessions
<1>4. QED
    BY <1>1, <1>2, <1>3 DEF SessionsLeft, Used

LEMMA ObjectFree ==
    ASSUME ClientsIInv, orphans = 0, f.object = Nil, f.srk = Nil \/ MaxObjects >= 2
    PROVE  FreeSlots(tpm.object) # {}
<1> USE Parts
<1>1. ObjectsLeft = {}
    BY NoneLeft
<1>2. /\ DOMAIN tpm.object = 1 .. MaxObjects /\ 1 \in 1 .. MaxObjects
      /\ MaxObjects >= 2 => 2 \in 1 .. MaxObjects
    BY SlotsAssumption DEF Chips, Objects, MachineOK
<1>3. 1 # Nil /\ (MaxObjects >= 2 => 2 # Nil)
    BY <1>2, NilAssumption DEF Objects
<1>4. CASE f.srk = Nil
    BY <1>1, <1>2, <1>3, <1>4 DEF ObjectsLeft, Used
<1>5. CASE MaxObjects >= 2
    BY <1>1, <1>2, <1>3, <1>5 DEF ObjectsLeft, Used
<1>6. QED
    BY <1>4, <1>5

-----------------------------------------------------------------------------
(* The commands without a fault.                                           *)

LEMMA CreatesKey ==
    ASSUME NEW t \in Chips, FreeSlots(t.object) # {}, NEW o \in TPM2X_CreateSRKKey(t),
           o.fault = "none"
    PROVE  o.rc = "success"
<1> DEFINE h == FreeSlot(t.object)
           u == PutObject(t, h, SRK)
<1>1. o \in _SubmitCommand(t, Answer(u, h))
    BY DEF TPM2X_CreateSRKKey, TPM2_CreatePrimary, PutObject
<1> HIDE DEF u, h
<1>2. QED
    BY <1>1, NoFault, AnswerFields

LEMMA StartsSession ==
    ASSUME NEW t \in Chips, FreeSlots(t.session) # {}, NEW type \in {"trial", "policy"},
           NEW o \in TPM2_StartAuthSession(t, type), o.fault = "none"
    PROVE  o.rc = "success" /\ o.tpm.session[o.out].type = type
<1> DEFINE s == FreeSlot(t.session)
           new == [type |-> type, policy |-> Policy(FALSE, Nil)]
           u == PutSession(t, s, new)
<1>1. o \in _SubmitCommand(t, Answer(u, s))
    BY DEF TPM2_StartAuthSession, PutSession
<1>2. DOMAIN t.session = 1 .. MaxSessions /\ MaxSessions \in Nat
    BY SlotsAssumption DEF Chips, Sessions
<1>3. s \in Sessions
    BY <1>2, FreeSlotIsFree DEF Sessions
<1>4. new \in SessionStates /\ new.type = type
  <2>1. Policy(FALSE, Nil) \in Policies
      BY DEF Policy, Policies
  <2>2. QED
      BY <2>1 DEF SessionStates
<1> HIDE DEF s, new
<1>5. u.session[s] = new
    BY <1>3, <1>4, SessionSet
<1> HIDE DEF u
<1>6. o = Answer(u, s)
    BY <1>1, NoFault
<1>7. QED
    BY <1>4, <1>5, <1>6, AnswerFields

LEMMA GivesPassword ==
    ASSUME NEW t \in Chips, NEW s \in Sessions, t.session[s] # Nil,
           NEW o \in TPM2_PolicyPassword(t, s), o.fault = "none"
    PROVE  /\ o.rc = "success" /\ o.tpm.session[s].type = t.session[s].type
           /\ o.tpm.session[s].policy.password = TRUE
<1> DEFINE x == [t.session[s] EXCEPT !.policy = [t.session[s].policy EXCEPT !.password = TRUE]]
           u == PutSession(t, s, x)
<1>1. t.session[s] \in SessionStates
    BY DEF Chips
<1>2. x \in SessionStates /\ x.type = t.session[s].type /\ x.policy.password = TRUE
    BY <1>1 DEF SessionStates, Policies
<1>3. [t EXCEPT !.session[s].policy.password = TRUE] = u
    BY DEF PutSession
<1>4. o \in _SubmitCommand(t, Answer(u, Nil))
    BY <1>3 DEF TPM2_PolicyPassword
<1> HIDE DEF x
<1>5. u.session[s] = x
    BY <1>2, SessionSet
<1> HIDE DEF u
<1>6. o = Answer(u, Nil)
    BY <1>4, NoFault
<1>7. QED
    BY <1>2, <1>5, <1>6, AnswerFields

\* The registers are not compared, or as the chip has them.
Agreed(t, s, bank, pcrs) ==
    t.session[s].type = "trial" \/ pcrs = [p \in DOMAIN pcrs |-> t.pcr[bank][p]]

LEMMA GivesRegisters ==
    ASSUME NEW t \in Chips, NEW s \in Sessions, t.session[s] # Nil,
           NEW bank, NEW pcrs \in Selections, NEW o \in TPM2_PolicyPCR(t, s, bank, pcrs),
           o.fault = "none", Agreed(t, s, bank, pcrs)
    PROVE  /\ o.rc = "success"
           /\ o.tpm.session[s].policy.password = t.session[s].policy.password
<1> DEFINE x == [t.session[s] EXCEPT !.policy = [t.session[s].policy EXCEPT !.pcrs = pcrs]]
           u == PutSession(t, s, x)
<1>1. t.session[s] \in SessionStates
    BY DEF Chips
<1>2. x \in SessionStates /\ x.policy.password = t.session[s].policy.password
    BY <1>1 DEF SessionStates, Policies
<1>3. [t EXCEPT !.session[s].policy.pcrs = pcrs] = u
    BY DEF PutSession
<1>4. o \in _SubmitCommand(t, Answer(u, Nil))
    BY <1>3 DEF TPM2_PolicyPCR, Agreed
<1> HIDE DEF x
<1>5. u.session[s] = x
    BY <1>2, SessionSet
<1> HIDE DEF u
<1>6. o = Answer(u, Nil)
    BY <1>4, NoFault
<1>7. QED
    BY <1>2, <1>5, <1>6, AnswerFields

LEMMA LoadsObject ==
    ASSUME NEW t \in Chips, FreeSlots(t.object) # {}, NEW parent, NEW blob, blob # Garbage,
           NEW o \in TPM2_Load(t, parent, blob), o.fault = "none"
    PROVE  o.rc = "success"
<1> DEFINE h == FreeSlot(t.object)
           u == PutObject(t, h, Sealed(blob))
<1>1. o \in _SubmitCommand(t, Answer(u, h))
    BY DEF TPM2_Load, PutObject
<1> HIDE DEF u, h
<1>2. QED
    BY <1>1, NoFault, AnswerFields

LEMMA Unseals ==
    ASSUME NEW t \in Chips, NEW h, NEW s, NEW o \in TPM2_Unseal(t, h, s), o.fault = "none",
           t.session[s].policy = t.object[h].policy
    PROVE  o.rc = "success" /\ o.out = "keys"
<1> DEFINE u == PutSession(t, s, Nil)
<1>1. o \in _SubmitCommand(t, Answer(u, "keys"))
    BY DEF TPM2_Unseal, PutSession
<1> HIDE DEF u
<1>2. QED
    BY <1>1, NoFault, AnswerFields

LEMMA Answers ==
    ASSUME NEW t, NEW x, NEW y, NEW z
    PROVE  /\ \A o \in TPM2_PolicyGetDigest(t, x) : o.fault = "none" => o.rc = "success"
           /\ \A o \in TPM2_Create(t, x, y) : o.fault = "none" => o.rc = "success"
           /\ \A o \in TPM2_PCR_Read(t, x, y) : o.fault = "none" => o.rc = "success"
           /\ \A o \in TPM2_ReadPublic(t, z) : o.fault = "none" => o.rc \in {"success", "handle"}
    BY NoFault, AnswerFields, RefuseFields
       DEF TPM2_PolicyGetDigest, TPM2_Create, TPM2_PCR_Read, TPM2_ReadPublic

-----------------------------------------------------------------------------
(* Unfailed is kept by what a sealing command keeps and what lsvmload keeps.*)

History == nv' = nv /\ file' = file /\ sealedFor' = sealedFor /\ f'.client = f.client
SealsOn ==
    faults' = MaxFaults /\ f.client \in Sealers /\ orphans = 0 /\ SealsUnfailed => SealsUnfailed'
OpensOn ==
    /\ faults' = MaxFaults /\ f.client = "lsvmload" /\ orphans = 0
    /\ SealedForThisBoot /\ SealedBlob(file) /\ OpensUnfailed
    => OpensUnfailed'

LEMMA UnfailedOn ==
    ASSUME Unfailed, Unharmed, History, SealsOn, OpensOn
    PROVE  Unfailed'
<1>1. SUFFICES ASSUME faults' = MaxFaults PROVE Unfailed'
    BY DEF Unfailed
<1>2. faults = MaxFaults /\ orphans' = orphans
    BY <1>1 DEF Unharmed
<1>3. /\ orphans = 0 /\ (sealedFor # Nil => SealedBlob(file))
      /\ f.client \in Sealers => SealsUnfailed
      /\ f.client = "lsvmload" /\ SealedForThisBoot => OpensUnfailed
    BY <1>2 DEF Unfailed
<1>4. f.client \in Sealers => SealsUnfailed'
    BY <1>1, <1>3 DEF SealsOn
<1>5. f.client = "lsvmload" /\ SealedForThisBoot => OpensUnfailed'
    BY <1>1, <1>3 DEF OpensOn, SealedForThisBoot
<1>6. SealedForThisBoot' => SealedForThisBoot
    BY DEF History, SealedForThisBoot
<1>7. sealedFor' # Nil => SealedBlob(file')
    BY <1>3 DEF History
<1>8. QED
    BY <1>2, <1>3, <1>4, <1>5, <1>6, <1>7 DEF Unfailed, History

\* Steps to where Unfailed says nothing of the client.
SealingAt == PolicySteps \cup {"seal.digest", "seal.create", "seal.flush", "sealed"}
OpeningAt == HasBlob \cup HasKeys \cup {"cap.before"}
Elsewhere ==
    /\ f.client \in Sealers => /\ pc' \notin SealingAt
                               /\ f'.blob = f.blob /\ f'.status = f.status
    /\ f.client = "lsvmload" => pc' \notin OpeningAt

LEMMA UnfailedElsewhere ==
    ASSUME Unfailed, Unharmed, History, Elsewhere
    PROVE  Unfailed'
<1>1. SealsOn
    BY DEF SealsOn, SealsUnfailed, Elsewhere, SealingAt
<1>2. OpensOn
    BY DEF OpensOn, OpensUnfailed, Elsewhere, OpeningAt, HasBlob
<1>3. QED
    BY <1>1, <1>2, UnfailedOn

\* A client that exits.
LEMMA Ended ==
    ASSUME NEW g \in Frames, Exit(g)
    PROVE  pc' = "idle" /\ f'.client = g.client /\ f'.blob = g.blob /\ f'.status = g.status
<1> DEFINE x == _ReleaseLSVMLoadPolicy(g.vars)
<1>1. pc' = "idle" /\ f' = [g EXCEPT !.vars = x]
    BY DEF Exit, Goto, Set
<1> HIDE DEF x
<1>2. QED
    BY <1>1 DEF Frames

LEMMA UnfailedEnd ==
    ASSUME Unfailed, Unharmed, Keep, f \in Frames, Exit(f)
    PROVE  Unfailed'
<1>1. History /\ Elsewhere
    BY Ended DEF History, Keep, Elsewhere, SealingAt, OpeningAt, HasBlob, HasKeys
<1>2. QED
    BY <1>1, UnfailedElsewhere

LEMMA UnfailedLockReset ==
    ASSUME ClientsIInv, Unfailed, LockReset
    PROVE  Unfailed'
<1> USE Parts
<1>1. PICK o \in TPM2X_SetDictionaryAttackLockReset(tpm) :
        /\ Returns(o) /\ Keep
        /\ (pc' = "lockout" /\ f' = f) \/ Exit(f)
    BY DEF LockReset, Call, Goto, Set
<1>2. Unharmed
    BY <1>1, UnharmedCall
<1>3. CASE pc' = "lockout" /\ f' = f
  <2>1. History /\ Elsewhere
      BY <1>1, <1>3 DEF History, Keep, Elsewhere, SealingAt, OpeningAt, HasBlob, HasKeys
  <2>2. QED
      BY <1>2, <2>1, UnfailedElsewhere
<1>4. QED
    BY <1>1, <1>2, <1>3, UnfailedEnd

LEMMA UnfailedLockout ==
    ASSUME ClientsIInv, Unfailed, Lockout
    PROVE  Unfailed'
<1> USE Parts
<1>1. PICK o \in TPM2X_SetLockoutParams(tpm) :
        /\ Returns(o) /\ Keep
        /\ (pc' = AfterLockout /\ f' = f) \/ Exit(f)
    BY DEF Lockout, Call, Goto, Set
<1>2. Unharmed
    BY <1>1, UnharmedCall
<1>3. CASE pc' = AfterLockout /\ f' = f
  <2>1. /\ f.client = "lsvmload" => pc' = "scenario"
        /\ f.client \in Sealers => pc' \in {"predict", "srk"}
      BY <1>3 DEF AfterLockout
  <2>2. History /\ Elsewhere
      BY <1>1, <1>3, <2>1 DEF History, Keep, Elsewhere, SealingAt, OpeningAt, HasBlob, HasKeys
  <2>3. QED
      BY <1>2, <2>2, UnfailedElsewhere
<1>4. QED
    BY <1>1, <1>2, <1>3, UnfailedEnd

LEMMA UnfailedLoadInput ==
    ASSUME ClientsIInv, Unfailed, LoadInput
    PROVE  Unfailed'
<1> USE Parts
<1>1. /\ pc = "input" /\ f' = f /\ Keep /\ (Local \/ Fault)
      /\ pc' = "seal.session" \/ pc' = "flushsrk"
    BY DEF LoadInput, Is, Goto, Set
<1>2. f.client = "seal"
    BY <1>1 DEF Program, Routing
<1>3. Unharmed
    BY <1>1, UnharmedLocal
<1>4. History /\ Elsewhere
    BY <1>1, <1>2 DEF History, Keep, Elsewhere, SealingAt
<1>5. QED
    BY <1>3, <1>4, UnfailedElsewhere

LEMMA UnfailedPredict ==
    ASSUME ClientsIInv, Unfailed, Predict
    PROVE  Unfailed'
<1> USE Parts
<1>1. /\ pc = "predict" /\ Keep /\ (Local \/ Fault)
      /\ \/ pc' = "srk" /\ \E vs, r : f' = [f EXCEPT !.vars = vs, !.pcrs = r]
         \/ Exit(f)
    BY DEF Predict, Is, Goto, Set
<1>2. f.client \in PolicySealers
    BY <1>1 DEF Program, Routing
<1>3. Unharmed
    BY <1>1, UnharmedLocal
<1>4. CASE pc' = "srk" /\ \E vs, r : f' = [f EXCEPT !.vars = vs, !.pcrs = r]
  <2>1. f'.client = f.client /\ f'.blob = f.blob /\ f'.status = f.status
      BY <1>4 DEF Frames
  <2>2. History /\ Elsewhere
      BY <1>1, <1>2, <1>4, <2>1 DEF History, Keep, Elsewhere, SealingAt
  <2>3. QED
      BY <1>3, <2>2, UnfailedElsewhere
<1>5. QED
    BY <1>1, <1>3, <1>4, UnfailedEnd

LEMMA UnfailedScenario ==
    ASSUME ClientsIInv, Unfailed, Scenario
    PROVE  Unfailed'
<1> USE Parts
<1> DEFINE d == ComputeHash(MeasureLinuxScenario[f.i + 1])
<1>1. PICK o \in HashLogExtendEvent(tpm, 11, d) :
        /\ pc = "scenario" /\ Returns(o) /\ Keep
        /\ \/ pc' \in {"load", "scenario"} /\ f' = [f EXCEPT !.i = (f.i + 1) % 3]
           \/ Exit(f)
    BY DEF Scenario, Call, Is, Goto, Set
<1>2. f.client = "lsvmload"
    BY <1>1 DEF Program, Routing
<1>3. Unharmed
    BY <1>1, UnharmedCall
<1>4. CASE pc' \in {"load", "scenario"} /\ f' = [f EXCEPT !.i = (f.i + 1) % 3]
  <2> DEFINE j == (f.i + 1) % 3
  <2>1. f' = [f EXCEPT !.i = j]
      BY <1>4
  <2> HIDE DEF j
  <2>2. f'.client = f.client
      BY <2>1 DEF Frames
  <2>3. History /\ Elsewhere
      BY <1>1, <1>2, <1>4, <2>2
         DEF History, Keep, Elsewhere, SealingAt, OpeningAt, HasBlob, HasKeys
  <2>4. QED
      BY <1>3, <2>3, UnfailedElsewhere
<1>5. QED
    BY <1>1, <1>3, <1>4, UnfailedEnd

LEMMA UnfailedCapBefore ==
    ASSUME ClientsIInv, Unfailed, CapBefore
    PROVE  Unfailed'
<1> USE Parts
<1>1. PICK o \in TPM2X_ReadPCRSHA256(tpm, 11) :
        /\ pc = "cap.before" /\ Returns(o) /\ Keep
        /\ (pc' = "cap.sha1" /\ f' = [f EXCEPT !.before = o.out]) \/ Exit(f)
    BY DEF CapBefore, Call, Is, Goto, Set
<1>2. f.client = "lsvmload"
    BY <1>1 DEF Program, Routing
<1>3. Unharmed
    BY <1>1, UnharmedCall
<1>4. CASE pc' = "cap.sha1" /\ f' = [f EXCEPT !.before = o.out]
  <2>1. f'.client = f.client
      BY <1>4 DEF Frames
  <2>2. History /\ Elsewhere
      BY <1>1, <1>2, <1>4, <2>1
         DEF History, Keep, Elsewhere, SealingAt, OpeningAt, HasBlob, HasKeys
  <2>3. QED
      BY <1>3, <2>2, UnfailedElsewhere
<1>5. QED
    BY <1>1, <1>3, <1>4, UnfailedEnd

LEMMA UnfailedCapSHA1 ==
    ASSUME ClientsIInv, Unfailed, CapSHA1
    PROVE  Unfailed'
<1> USE Parts
<1>1. PICK o \in TPM2_PCR_Extend(tpm, "SHA1", CapPCRNumber, Zeros) :
        /\ pc = "cap.sha1" /\ Returns(o) /\ Keep
        /\ \/ pc' = "cap.sha256" /\ f' = f
           \/ pc' = "flushsrk" /\ f' = f /\ f.client \in Unsealers
           \/ Exit(f)
    BY DEF CapSHA1, CapFailed, Call, Is, Goto, Set
<1>2. f.client \in Openers \cup {"cappcr11", "capall"}
    BY <1>1 DEF Program, Routing
<1>3. Unharmed
    BY <1>1, UnharmedCall
<1>4. CASE pc' \in {"cap.sha256", "flushsrk"} /\ f' = f /\ ~Exit(f)
  <2>1. History /\ Elsewhere
      BY <1>1, <1>2, <1>4 DEF History, Keep, Elsewhere, SealingAt, OpeningAt, HasBlob, HasKeys
  <2>2. QED
      BY <1>3, <2>1, UnfailedElsewhere
<1>5. QED
    BY <1>1, <1>3, <1>4, UnfailedEnd

LEMMA UnfailedCapSHA256 ==
    ASSUME ClientsIInv, Unfailed, CapSHA256
    PROVE  Unfailed'
<1> USE Parts
<1>1. PICK o \in TPM2_PCR_Extend(tpm, "SHA256", CapPCRNumber, Zeros) :
        /\ pc = "cap.sha256" /\ Returns(o) /\ Keep
        /\ \/ /\ pc' = AfterCap
              /\ f' = [f EXCEPT !.i = f.i + 1,
                                !.status = IF f.client = "cappcr11" THEN "ok" ELSE f.status]
           \/ pc' = "flushsrk" /\ f' = f /\ f.client \in Unsealers
           \/ Exit(f)
    BY DEF CapSHA256, CapFailed, Call, Is, Goto, Set
<1>2. f.client \in Openers \cup {"cappcr11", "capall"}
    BY <1>1 DEF Program, Routing
<1>3. Unharmed
    BY <1>1, UnharmedCall
<1>4. CASE ~Exit(f)
  <2> DEFINE x == IF f.client = "cappcr11" THEN "ok" ELSE f.status
             n == f.i + 1
  <2>1. f' = [f EXCEPT !.i = n, !.status = x] \/ f' = f
      BY <1>1, <1>4
  <2> HIDE DEF x, n
  <2>2. f'.client = f.client
      BY <2>1 DEF Frames
  <2>3. f.client = "lsvmload" => pc' = "cap.after"
      BY <1>1, <1>4 DEF AfterCap
  <2>4. History /\ Elsewhere
      BY <1>1, <1>2, <2>2, <2>3
         DEF History, Keep, Elsewhere, SealingAt, OpeningAt, HasBlob, HasKeys
  <2>5. QED
      BY <1>3, <2>4, UnfailedElsewhere
<1>5. QED
    BY <1>1, <1>3, <1>4, UnfailedEnd

LEMMA UnfailedCapAfter ==
    ASSUME ClientsIInv, Unfailed, CapAfter
    PROVE  Unfailed'
<1> USE Parts
<1>1. PICK o \in TPM2X_ReadPCRSHA256(tpm, 11) :
        /\ pc = "cap.after" /\ Returns(o) /\ Exit(f)
        /\ nv' = nv /\ file' = file /\ sealedFor' = sealedFor
    BY DEF CapAfter, Is
<1>2. Unharmed
    BY <1>1, UnharmedCall
<1>3. History /\ Elsewhere
    BY <1>1, Ended DEF History, Elsewhere, SealingAt, OpeningAt, HasBlob, HasKeys
<1>4. QED
    BY <1>2, <1>3, UnfailedElsewhere

LEMMA UnfailedCapAll ==
    ASSUME ClientsIInv, Unfailed, CapAllRead \/ CapAllCheck
    PROVE  Unfailed'
<1> USE Parts
<1>1. PICK o \in TPM2X_ReadPCRSHA256(tpm, 0) :
        /\ pc \in {"capall.read", "capall.check"} /\ Returns(o) /\ Keep
        /\ \/ pc' = "cap.sha1" /\ f' = [f EXCEPT !.before = o.out]
           \/ \E x \in {"error", "ok"} : Exit([f EXCEPT !.status = x])
           \/ Exit(f)
    BY DEF CapAllRead, CapAllCheck, Call, Is, Goto, Set
<1>2. f.client = "capall"
    BY <1>1 DEF Program, Routing
<1>3. f'.client = f.client
  <2>1. ASSUME NEW x \in {"error", "ok"}, Exit([f EXCEPT !.status = x])
        PROVE  f'.client = f.client
    <3> DEFINE g == [f EXCEPT !.status = x]
    <3>2. Exit(g) /\ g = [f EXCEPT !.status = x]
        BY <2>1
    <3> HIDE DEF g
    <3>1. g \in Frames /\ g.client = f.client
        BY <3>2 DEF Frames
    <3>3. QED
        BY <3>1, <3>2, Ended
  <2>2. pc' = "cap.sha1" /\ f' = [f EXCEPT !.before = o.out] => f'.client = f.client
      BY DEF Frames
  <2>3. QED
      BY <1>1, <2>1, <2>2, Ended
<1>4. Unharmed
    BY <1>1, UnharmedCall
<1>5. History /\ Elsewhere
    BY <1>1, <1>2, <1>3 DEF History, Keep, Elsewhere
<1>6. QED
    BY <1>4, <1>5, UnfailedElsewhere

-----------------------------------------------------------------------------
(* The sealing commands, and TPM2X_BuildPolicy.                            *)

LEMMA UnfailedPolicyPassword ==
    ASSUME ClientsIInv, KeysIInv, Unfailed, PolicyPassword
    PROVE  Unfailed'
<1> USE Parts
<1>1. PICK o \in TPM2_PolicyPassword(tpm, f.session) :
        /\ pc = "policy.password" /\ Returns(o) /\ Keep
        /\ IF o.rc = "success"
           THEN pc' \in {"policy.read", "policy.pcr"} /\ f' = f
           ELSE PolicyFailed(o.rc)
    BY DEF PolicyPassword, Call, Is, Goto, Set
<1>2. Unharmed /\ (faults' = MaxFaults => o.fault = "none")
    BY <1>1, UnharmedCall
<1>3. f.session \in Sessions /\ tpm.session[f.session] # Nil
    BY <1>1 DEF Program, Handles, SessionHeld, SessionOpen, Frames
<1>4. faults' = MaxFaults =>
        /\ o.rc = "success" /\ tpm'.session[f.session].type = tpm.session[f.session].type
        /\ tpm'.session[f.session].policy.password = TRUE
    BY <1>1, <1>2, <1>3, GivesPassword DEF Returns
<1>5. f'.client = f.client
    BY <1>1 DEF PolicyFailed, Set, Frames
<1>6. History
    BY <1>1, <1>5 DEF History, Keep
<1>7. f.client \in Sealers => f.status = "error"
    BY <1>1 DEF Program, BlobKept, BeforeSeal
<1>8. SealsOn
    BY <1>1, <1>4, <1>7 DEF SealsOn, SealsUnfailed, PasswordGiven
<1>9. OpensOn
    BY <1>1, <1>4, <1>6 DEF OpensOn, OpensUnfailed, PasswordGiven, HasBlob, HasKeys, History
<1>10. QED
    BY <1>2, <1>6, <1>8, <1>9, UnfailedOn

LEMMA UnfailedPolicyRead ==
    ASSUME ClientsIInv, KeysIInv, Unfailed, PolicyRead
    PROVE  Unfailed'
<1> USE Parts
<1>1. PICK o \in TPM2_PCR_Read(tpm, "SHA256", Mask) :
        /\ pc = "policy.read" /\ Returns(o) /\ Keep
        /\ IF o.rc = "success" THEN pc' = "policy.pcr" /\ f' = [f EXCEPT !.pcrs = o.out]
           ELSE PolicyFailed(o.rc)
    BY DEF PolicyRead, Call, Is, Goto, Set
<1>2. Unharmed /\ (faults' = MaxFaults => o.fault = "none")
    BY <1>1, UnharmedCall
<1>3. faults' = MaxFaults => o.rc = "success"
    BY <1>1, <1>2, Answers
<1>4. tpm' = tpm
  <2>1. ChipRegisters = [p \in Mask |-> tpm.pcr["SHA256"][p]]
      BY DEF ChipRegisters, Reg
  <2>2. Asked(o, tpm, ChipRegisters)
      BY <1>1, <2>1, ReadOutcome
  <2>3. QED
      BY <1>1, <2>2 DEF Asked, Returns
<1>5. f'.client = f.client
    BY <1>1 DEF PolicyFailed, Set, Frames
<1>6. o.rc = "success" => f'.session = f.session /\ f'.status = f.status /\ f'.blob = f.blob
    BY <1>1 DEF Frames
<1>7. History
    BY <1>1, <1>5 DEF History, Keep
<1>8. f.client \in Sealers => f.status = "error"
    BY <1>1 DEF Program, BlobKept, BeforeSeal
<1>9. SealsOn
    BY <1>1, <1>3, <1>4, <1>6, <1>8 DEF SealsOn, SealsUnfailed, PasswordGiven
<1>10. OpensOn
    BY <1>1, <1>3, <1>4, <1>6, <1>7
       DEF OpensOn, OpensUnfailed, PasswordGiven, HasBlob, HasKeys, History
<1>11. QED
    BY <1>2, <1>7, <1>9, <1>10, UnfailedOn

\* The chip does not compare in a trial session, and has just been read in another.
LEMMA UnfailedPolicyPCR ==
    ASSUME ClientsIInv, KeysIInv, Unfailed, PolicyPCR
    PROVE  Unfailed'
<1> USE Parts
<1>1. PICK o \in TPM2_PolicyPCR(tpm, f.session, "SHA256", f.pcrs) :
        /\ pc = "policy.pcr" /\ Returns(o) /\ Keep
        /\ IF o.rc = "success"
           THEN /\ pc' = IF f.proc = "seal" THEN "seal.digest" ELSE "unseal.load"
                /\ f' = [f EXCEPT !.built = TRUE]
           ELSE PolicyFailed(o.rc)
    BY DEF PolicyPCR, Call, Is, Goto, Set
<1>2. Unharmed /\ (faults' = MaxFaults => o.fault = "none")
    BY <1>1, UnharmedCall
<1>3. /\ f.session \in Sessions /\ tpm.session[f.session] # Nil /\ f.pcrs \in Selections
    BY <1>1 DEF Program, Handles, SessionHeld, SessionOpen, Frames
<1>4. /\ f.proc = "seal" => f.client \in Sealers
      /\ f.proc # "seal" => f.client \in Openers
      /\ f.proc = "seal" <=> f.client \in Sealers
    BY <1>1 DEF Program, Routing
<1>5. f.client \in Openers => f.pcrs = [p \in DOMAIN f.pcrs |-> tpm.pcr["SHA256"][p]]
  <2>1. f.client \in Openers => f.pcrs = ChipRegisters
      BY <1>1 DEF KeysIInv, Opening
  <2>2. ChipRegisters = [p \in DOMAIN ChipRegisters |-> tpm.pcr["SHA256"][p]]
      BY DEF ChipRegisters, Reg
  <2>3. QED
      BY <2>1, <2>2
<1>6. faults' = MaxFaults /\ (f.client \in Openers \/ tpm.session[f.session].type = "trial") =>
        /\ o.rc = "success"
        /\ tpm'.session[f.session].policy.password = tpm.session[f.session].policy.password
  <2>1. SUFFICES ASSUME faults' = MaxFaults,
                        f.client \in Openers \/ tpm.session[f.session].type = "trial"
                 PROVE  /\ o.rc = "success"
                        /\ o.tpm.session[f.session].policy.password
                             = tpm.session[f.session].policy.password
      BY <1>1 DEF Returns
  <2>2. Agreed(tpm, f.session, "SHA256", f.pcrs)
      BY <1>5, <2>1 DEF Agreed
  <2>3. tpm \in Chips /\ o.fault = "none" /\ o \in TPM2_PolicyPCR(tpm, f.session, "SHA256", f.pcrs)
      BY <1>1, <1>2, <2>1
  <2>4. QED
      BY <1>3, <2>2, <2>3, GivesRegisters
<1>7. f'.client = f.client
    BY <1>1 DEF PolicyFailed, Set, Frames
<1>8. o.rc = "success" => f'.session = f.session /\ f'.status = f.status /\ f'.blob = f.blob
    BY <1>1 DEF Frames
<1>9. History
    BY <1>1, <1>7 DEF History, Keep
<1>10. f.client \in Sealers => f.status = "error"
    BY <1>1 DEF Program, BlobKept, BeforeSeal
<1>11. SealsOn
    BY <1>1, <1>4, <1>6, <1>8, <1>10 DEF SealsOn, SealsUnfailed, PasswordGiven
<1>12. OpensOn
    BY <1>1, <1>4, <1>6, <1>8, <1>9
       DEF OpensOn, OpensUnfailed, PasswordGiven, HasBlob, HasKeys, History
<1>13. QED
    BY <1>2, <1>9, <1>11, <1>12, UnfailedOn

LEMMA UnfailedSealSession ==
    ASSUME ClientsIInv, Unfailed, SealSession
    PROVE  Unfailed'
<1> USE Parts
<1>1. PICK o \in TPM2X_StartAuthSession(tpm, TRUE) :
        /\ pc = "seal.session" /\ Returns(o) /\ Keep
        /\ IF o.rc = "success"
           THEN pc' = "policy.password" /\ f' = [f EXCEPT !.session = o.out, !.proc = "seal"]
           ELSE pc' = "sealed" /\ f' = [f EXCEPT !.rc = o.rc]
    BY DEF SealSession, Call, Is, Goto, Set
<1>2. Unharmed /\ (faults' = MaxFaults => o.fault = "none")
    BY <1>1, UnharmedCall
<1>3. f.client \in Sealers /\ f.session = Nil /\ f.status = "error"
    BY <1>1 DEF Program, Routing, Handles, SessionHeld, BlobKept
<1>4. orphans = 0 => FreeSlots(tpm.session) # {}
    BY <1>3, SessionFree
<1>5. faults' = MaxFaults /\ orphans = 0 => o.rc = "success" /\ tpm'.session[o.out].type = "trial"
  <2>1. o \in TPM2_StartAuthSession(tpm, "trial") /\ "trial" \in {"trial", "policy"}
      BY <1>1 DEF TPM2X_StartAuthSession
  <2>2. QED
      BY <1>1, <1>2, <1>4, <2>1, StartsSession DEF Returns
<1>6. /\ f'.client = f.client /\ f'.status = f.status
      /\ o.rc = "success" => f'.session = o.out
    BY <1>1 DEF Frames
<1>7. History
    BY <1>1, <1>6 DEF History, Keep
<1>8. SealsOn
    BY <1>1, <1>3, <1>5, <1>6 DEF SealsOn, SealsUnfailed
<1>9. OpensOn
    BY <1>3 DEF OpensOn
<1>10. QED
    BY <1>2, <1>7, <1>8, <1>9, UnfailedOn

LEMMA UnfailedSealDigest ==
    ASSUME ClientsIInv, Unfailed, SealDigest
    PROVE  Unfailed'
<1> USE Parts
<1>1. PICK o \in TPM2_PolicyGetDigest(tpm, f.session) :
        /\ pc = "seal.digest" /\ Returns(o) /\ Keep
        /\ IF o.rc = "success" THEN pc' = "seal.create" /\ f' = [f EXCEPT !.digest = o.out]
           ELSE pc' = "seal.flush" /\ f' = [f EXCEPT !.rc = o.rc]
    BY DEF SealDigest, Call, Is, Goto, Set
<1>2. Unharmed /\ (faults' = MaxFaults => o.fault = "none")
    BY <1>1, UnharmedCall
<1>3. faults' = MaxFaults => o.rc = "success" /\ o.out = tpm.session[f.session].policy
  <2>1. o.fault = "none" => o.rc = "success"
      BY <1>1, Answers
  <2>2. o.rc = "success" => o.out = tpm.session[f.session].policy
      BY <1>1, Asking DEF Asked
  <2>3. QED
      BY <1>2, <2>1, <2>2
<1>4. f.client \in Sealers /\ f.status = "error"
    BY <1>1 DEF Program, Routing, BlobKept
<1>5. /\ f'.client = f.client /\ f'.status = f.status
      /\ o.rc = "success" => f'.digest = o.out
    BY <1>1 DEF Frames
<1>6. History
    BY <1>1, <1>5 DEF History, Keep
<1>7. SealsOn
    BY <1>1, <1>3, <1>4, <1>5 DEF SealsOn, SealsUnfailed, PasswordGiven
<1>8. OpensOn
    BY <1>4 DEF OpensOn
<1>9. QED
    BY <1>2, <1>6, <1>7, <1>8, UnfailedOn

LEMMA UnfailedSealCreate ==
    ASSUME ClientsIInv, Unfailed, SealCreate
    PROVE  Unfailed'
<1> USE Parts
<1>1. PICK o \in TPM2_Create(tpm, f.srk, f.digest) :
        /\ pc = "seal.create" /\ pc' = "seal.flush" /\ Returns(o) /\ Keep
        /\ IF o.rc = "success" THEN f' = [f EXCEPT !.blob = o.out]
           ELSE f' = [f EXCEPT !.rc = o.rc]
    BY DEF SealCreate, Call, Is, Goto, Set
<1>2. Unharmed /\ (faults' = MaxFaults => o.fault = "none")
    BY <1>1, UnharmedCall
<1>3. faults' = MaxFaults => o.rc = "success" /\ o.out = f.digest
  <2>1. o.fault = "none" => o.rc = "success"
      BY <1>1, Answers
  <2>2. o.rc = "success" => o.out = f.digest
      BY <1>1, Asking DEF Asked
  <2>3. QED
      BY <1>2, <2>1, <2>2
<1>4. f.client \in Sealers
    BY <1>1 DEF Program, Routing
<1>5. f.digest \in SealPolicies
    BY <1>1 DEF SessionOpen, Frames
<1>6. f'.client = f.client /\ (o.rc = "success" => f'.blob = o.out)
    BY <1>1 DEF Frames
<1>7. History
    BY <1>1, <1>6 DEF History, Keep
<1>8. SealsOn
    BY <1>1, <1>3, <1>5, <1>6 DEF SealsOn, SealsUnfailed, SealedBlob
<1>9. OpensOn
    BY <1>4 DEF OpensOn
<1>10. QED
    BY <1>2, <1>7, <1>8, <1>9, UnfailedOn

LEMMA UnfailedSealFlush ==
    ASSUME ClientsIInv, Unfailed, SealFlush
    PROVE  Unfailed'
<1> USE Parts
<1>1. PICK o \in TPM2_FlushContext(tpm, "session", f.session) :
        /\ pc = "seal.flush" /\ pc' = "sealed" /\ Returns(o) /\ Keep
        /\ f' = [f EXCEPT !.session = Nil]
    BY DEF SealFlush, Call, Is, Goto, Set
<1>2. Unharmed
    BY <1>1, UnharmedCall
<1>3. f.client \in Sealers
    BY <1>1 DEF Program, Routing
<1>4. f'.client = f.client /\ f'.blob = f.blob /\ f'.status = f.status
    BY <1>1 DEF Frames
<1>5. History
    BY <1>1, <1>4 DEF History, Keep
<1>6. SealsOn
    BY <1>1, <1>4 DEF SealsOn, SealsUnfailed
<1>7. OpensOn
    BY <1>3 DEF OpensOn
<1>8. QED
    BY <1>2, <1>5, <1>6, <1>7, UnfailedOn

LEMMA UnfailedSealPolicy ==
    ASSUME ClientsIInv, Unfailed, SealPolicy
    PROVE  Unfailed'
<1> USE Parts
<1>1. pc = "sealed" /\ Local /\ Keep
    BY DEF SealPolicy, Is
<1>2. f.client \in Sealers
    BY <1>1 DEF Program, Routing
<1>3. \/ pc' = "flushsrk" /\ f' = f
      \/ /\ pc' \in {"put", "flushsrk"}
         /\ \E b \in TPM2X_SerializeBlob(f.blob) :
              b # Nil /\ f' = [f EXCEPT !.blob = b, !.status = "sealed"]
    BY DEF SealPolicy, Goto, Set
<1>4. f'.client = f.client /\ f'.blob = f.blob /\ pc' \in {"put", "flushsrk"}
  <2>1. ASSUME NEW b \in TPM2X_SerializeBlob(f.blob), b # Nil,
               f' = [f EXCEPT !.blob = b, !.status = "sealed"]
        PROVE  f'.client = f.client /\ f'.blob = f.blob
    <3>1. b = f.blob
        BY <2>1 DEF TPM2X_SerializeBlob
    <3>2. f'.client = f.client /\ f'.blob = b
        BY <2>1 DEF Frames
    <3>3. QED
        BY <3>1, <3>2
  <2>2. QED
      BY <1>3, <2>1
<1>5. Unharmed
    BY <1>1, UnharmedLocal
<1>6. History
    BY <1>1, <1>4 DEF History, Keep
<1>7. SealsOn
    BY <1>1, <1>4 DEF SealsOn, SealsUnfailed
<1>8. OpensOn
    BY <1>2 DEF OpensOn
<1>9. QED
    BY <1>5, <1>6, <1>7, <1>8, UnfailedOn

\* The file holds what was sealed.
LEMMA UnfailedPutFile ==
    ASSUME ClientsIInv, Unfailed, PutFile
    PROVE  Unfailed'
<1> USE Parts
<1>1. pc = "put" /\ pc' \in {"flushsrk", "idle"} /\ (Local \/ Fault)
    BY DEF PutFile, Is, Goto
<1>2. SUFFICES ASSUME faults' = MaxFaults PROVE Unfailed'
    BY DEF Unfailed
<1>3. faults = MaxFaults /\ orphans' = orphans /\ ~Fault
    BY <1>1, <1>2, UnharmedLocal DEF Unharmed
<1>4. file' = f.blob /\ f' = [f EXCEPT !.status = "ok"]
    BY <1>3 DEF PutFile, Set
<1>5. f.client \in Sealers /\ f.status = "sealed"
    BY <1>1 DEF Program, Routing, BlobKept
<1>6. orphans = 0 /\ SealedBlob(f.blob)
    BY <1>3, <1>5 DEF Unfailed, SealsUnfailed
<1>7. f'.client = f.client /\ f'.status = "ok"
    BY <1>4 DEF Frames
<1>8. SealsUnfailed'
    BY <1>1, <1>7 DEF SealsUnfailed
<1>9. QED
    BY <1>3, <1>4, <1>5, <1>6, <1>7, <1>8 DEF Unfailed

-----------------------------------------------------------------------------
(* The steps of lsvmload and of the other clients that unseal.             *)

LEMMA UnfailedCreateSRK ==
    ASSUME ClientsIInv, Unfailed, CreateSRK
    PROVE  Unfailed'
<1> USE Parts
<1>1. PICK o \in TPM2X_CreateSRKKey(tpm) :
        /\ pc = "srk" /\ Returns(o) /\ Keep
        /\ IF o.rc = "success"
           THEN pc' = AfterSRK /\ f' = [f EXCEPT !.srk = o.out, !.parent = o.out]
           ELSE NoSRK(f)
    BY DEF CreateSRK, Call, Is, Goto, Set
<1>2. Unharmed /\ (faults' = MaxFaults => o.fault = "none")
    BY <1>1, UnharmedCall
<1>3. f.client \in Sealers \cup Openers \cup {"srk"}
    BY <1>1 DEF Program, Routing
<1>4. CASE o.rc = "success"
  <2>1. f'.client = f.client /\ f'.blob = f.blob /\ f'.status = f.status
      BY <1>1, <1>4 DEF Frames
  <2>2. /\ f.client \in Sealers => pc' \in {"input", "seal.session"}
        /\ f.client = "lsvmload" => pc' = "unseal.session"
      BY <1>1, <1>4 DEF AfterSRK
  <2>3. History
      BY <1>1, <2>1 DEF History, Keep
  <2>4. SealsOn
      BY <2>1, <2>2 DEF SealsOn, SealsUnfailed
  <2>5. OpensOn
      BY <1>1, <2>1, <2>2, <2>3 DEF OpensOn, OpensUnfailed, HasBlob, HasKeys, History
  <2>6. QED
      BY <1>2, <2>3, <2>4, <2>5, UnfailedOn
<1>5. CASE o.rc # "success" /\ f.client = "lsvmload"
  <2>1. PICK h \in Objects : f' = [f EXCEPT !.srk = h]
      BY <1>1, <1>5 DEF NoSRK, Goto, Set
  <2>2. f'.client = f.client
      BY <2>1 DEF Frames
  <2>3. History
      BY <1>1, <2>2 DEF History, Keep
  <2>4. f.object = Nil /\ f.srk = Nil
      BY <1>1 DEF Program, Handles
  <2>5. orphans = 0 => faults' # MaxFaults
      BY <1>1, <1>2, <1>5, <2>4, ObjectFree, CreatesKey
  <2>6. SealsOn /\ OpensOn
      BY <1>5, <2>5 DEF SealsOn, OpensOn
  <2>7. QED
      BY <1>2, <2>3, <2>6, UnfailedOn
<1>6. CASE o.rc # "success" /\ f.client \in Unsealers
  <2>1. f' = f
      BY <1>1, <1>6 DEF NoSRK, Goto, Set
  <2>2. History /\ Elsewhere
      BY <1>1, <1>6, <2>1 DEF History, Keep, Elsewhere
  <2>3. QED
      BY <1>2, <2>2, UnfailedElsewhere
<1>7. CASE o.rc # "success" /\ f.client \notin Openers
  <2>1. Exit(f)
      BY <1>1, <1>3, <1>7 DEF NoSRK
  <2>2. QED
      BY <1>1, <1>2, <2>1, UnfailedEnd
<1>8. QED
    BY <1>3, <1>4, <1>5, <1>6, <1>7

LEMMA UnfailedFlushSRK ==
    ASSUME ClientsIInv, Unfailed, FlushSRK
    PROVE  Unfailed'
<1> USE Parts
<1> DEFINE x == _ReleaseLSVMLoadPolicy(f.vars)
<1>1. /\ pc = "flushsrk" /\ pc' = AfterFlush /\ Keep
      /\ f' = f \/ f' = [f EXCEPT !.srk = Nil, !.vars = x]
    BY DEF FlushSRK, Is, Goto, Set, Call
<1> HIDE DEF x
<1>2. Unharmed
  <2>1. CASE f.srk = Nil
      BY <2>1, UnharmedLocal DEF FlushSRK
  <2>2. CASE f.srk # Nil
    <3>1. PICK o \in TPM2_FlushContext(tpm, "object", f.srk) : Returns(o)
        BY <2>2 DEF FlushSRK, Call
    <3>2. QED
        BY <3>1, UnharmedCall
  <2>3. QED
      BY <2>1, <2>2
<1>3. /\ f.client = "lsvmload" => pc' = "split"
      /\ f.client \in Sealers => pc' \in {"put", "idle"}
    BY <1>1 DEF AfterFlush
<1>4. f'.client = f.client /\ f'.blob = f.blob /\ f'.status = f.status /\ f'.data = f.data
    BY <1>1 DEF Frames
<1>5. History
    BY <1>1, <1>4 DEF History, Keep
<1>6. SealsOn
    BY <1>3, <1>4 DEF SealsOn, SealsUnfailed
<1>7. OpensOn
    BY <1>1, <1>3, <1>4 DEF OpensOn, OpensUnfailed, HasBlob, HasKeys
<1>8. QED
    BY <1>2, <1>5, <1>6, <1>7, UnfailedOn

LEMMA UnfailedLoadSealedData ==
    ASSUME ClientsIInv, Unfailed, LoadSealedData
    PROVE  Unfailed'
<1> USE Parts
<1>1. PICK b \in TPM2X_DeserializeBlob(file) \cup {Nil} :
        /\ pc = "load" /\ Keep /\ (Local \/ Fault)
        /\ f' = [f EXCEPT !.blob = b]
        /\ \/ /\ b \in TPM2X_DeserializeBlob(file)
              /\ f.client = "lsvmload" /\ b # Nil => pc' = "readpublic"
           \/ Fault
    BY DEF LoadSealedData, Is, Goto, Set
<1>2. Unharmed /\ (faults' = MaxFaults => ~Fault)
    BY <1>1, UnharmedLocal
<1>3. f.client \in Openers
    BY <1>1 DEF Program, Routing
<1>4. f'.client = f.client /\ f'.blob = b
    BY <1>1 DEF Frames
<1>5. History
    BY <1>1, <1>4 DEF History, Keep
<1>6. SealsOn
    BY <1>3 DEF SealsOn
<1>7. ~Fault /\ SealedBlob(file) => b = file /\ b # Nil
    BY <1>1, NilAssumption DEF SealedBlob, TPM2X_DeserializeBlob
<1>8. OpensOn
    BY <1>1, <1>2, <1>4, <1>5, <1>7 DEF OpensOn, OpensUnfailed, HasBlob, HasKeys, History
<1>9. QED
    BY <1>2, <1>5, <1>6, <1>8, UnfailedOn

LEMMA UnfailedGetSRK ==
    ASSUME ClientsIInv, Unfailed, _Get_SRK
    PROVE  Unfailed'
<1> USE Parts
<1>1. PICK o \in TPM2_ReadPublic(tpm, SRKHandle) :
        /\ pc = "readpublic" /\ Returns(o) /\ Keep
        /\ IF o.rc = "success" THEN pc' = "unseal.session" /\ f' = [f EXCEPT !.parent = SRKHandle]
           ELSE pc' = (IF o.rc = "handle" THEN "srk" ELSE "cap.before") /\ f' = f
    BY DEF _Get_SRK, Call, Is, Goto, Set
<1>2. Unharmed /\ (faults' = MaxFaults => o.fault = "none")
    BY <1>1, UnharmedCall
<1>3. faults' = MaxFaults => o.rc \in {"success", "handle"}
    BY <1>1, <1>2, Answers
<1>4. f.client = "lsvmload"
    BY <1>1 DEF Program, Routing
<1>5. f'.client = f.client /\ f'.blob = f.blob
    BY <1>1 DEF Frames
<1>6. History
    BY <1>1, <1>5 DEF History, Keep
<1>7. SealsOn
    BY <1>4 DEF SealsOn
<1>8. OpensOn
    BY <1>1, <1>3, <1>5, <1>6 DEF OpensOn, OpensUnfailed, HasBlob, HasKeys, History
<1>9. QED
    BY <1>2, <1>6, <1>7, <1>8, UnfailedOn

LEMMA UnfailedUnsealSession ==
    ASSUME ClientsIInv, Unfailed, UnsealSession
    PROVE  Unfailed'
<1> USE Parts
<1>1. pc = "unseal.session" /\ f.client \in Openers /\ f.session = Nil
    BY DEF UnsealSession, Is, Program, Routing, Handles, SessionHeld
<1>2. SealsOn
    BY <1>1 DEF SealsOn
<1>3. CASE f.blob = Garbage /\ Local /\ Keep /\ f' = [f EXCEPT !.rc = "failure"]
  <2>1. f'.client = f.client
      BY <1>3 DEF Frames
  <2>2. History /\ Unharmed
      BY <1>3, <2>1, UnharmedLocal DEF History, Keep
  <2>3. OpensOn
      BY <1>1, <1>3, NilAssumption DEF OpensOn, OpensUnfailed, HasBlob, SealedBlob
  <2>4. QED
      BY <1>2, <2>2, <2>3, UnfailedOn
<1>4. ASSUME NEW o \in TPM2X_StartAuthSession(tpm, FALSE), Returns(o), Keep,
             IF o.rc = "success"
             THEN pc' = "policy.password" /\ f' = [f EXCEPT !.session = o.out, !.proc = "unseal"]
             ELSE pc' = "unsealed" /\ f' = [f EXCEPT !.rc = o.rc]
      PROVE  Unfailed'
  <2>1. Unharmed /\ (faults' = MaxFaults => o.fault = "none")
      BY <1>4, UnharmedCall
  <2>2. orphans = 0 => FreeSlots(tpm.session) # {}
      BY <1>1, SessionFree
  <2>3. faults' = MaxFaults /\ orphans = 0 => o.rc = "success"
    <3>1. o \in TPM2_StartAuthSession(tpm, "policy") /\ "policy" \in {"trial", "policy"}
        BY <1>4 DEF TPM2X_StartAuthSession
    <3>2. QED
        BY <2>1, <2>2, <3>1, StartsSession
  <2>4. f'.client = f.client /\ f'.blob = f.blob
      BY <1>4 DEF Frames
  <2>5. History
      BY <1>4, <2>4 DEF History, Keep
  <2>6. OpensOn
      BY <1>1, <1>4, <2>3, <2>4, <2>5 DEF OpensOn, OpensUnfailed, HasBlob, HasKeys, History
  <2>7. QED
      BY <1>2, <2>1, <2>5, <2>6, UnfailedOn
<1>5. QED
    BY <1>3, <1>4 DEF UnsealSession, Call, Goto, Set

\* The key and the sealed object are in the chip together.
LEMMA UnfailedUnsealLoad ==
    ASSUME MaxObjects >= 2, ClientsIInv, KeysIInv, Unfailed, UnsealLoad
    PROVE  Unfailed'
<1> USE Parts
<1>1. PICK o \in TPM2_Load(tpm, f.parent, f.blob) :
        /\ pc = "unseal.load" /\ Returns(o) /\ Keep
        /\ IF o.rc = "success" THEN pc' = "unseal.unseal" /\ f' = [f EXCEPT !.object = o.out]
           ELSE pc' = "unseal.flush" /\ f' = [f EXCEPT !.rc = o.rc]
    BY DEF UnsealLoad, Call, Is, Goto, Set
<1>2. Unharmed /\ (faults' = MaxFaults => o.fault = "none")
    BY <1>1, UnharmedCall
<1>3. f.client \in Openers /\ f.object = Nil
    BY <1>1 DEF Program, Routing, Handles
<1>4. orphans = 0 => FreeSlots(tpm.object) # {}
    BY <1>3, ObjectFree
<1>5. faults' = MaxFaults /\ orphans = 0 /\ f.blob # Garbage => o.rc = "success"
    BY <1>1, <1>2, <1>4, LoadsObject
<1>6. o.rc = "success" => tpm'.session = tpm.session
  <2>1. f.blob \in SealPolicies \cup {Nil, Garbage}
      BY DEF Frames
  <2>2. QED
      BY <1>1, <2>1, LoadSets DEF Returns
<1>7. f'.client = f.client /\ f'.blob = f.blob /\ f'.session = f.session
    BY <1>1 DEF Frames
<1>8. History
    BY <1>1, <1>7 DEF History, Keep
<1>9. SealsOn
    BY <1>3 DEF SealsOn
<1>10. OpensOn
  <2>1. SealedBlob(file) => file # Garbage
      BY NilAssumption DEF SealedBlob
  <2>2. QED
      BY <1>1, <1>5, <1>6, <1>7, <1>8, <2>1
         DEF OpensOn, OpensUnfailed, PasswordGiven, HasBlob, HasKeys, History
<1>11. QED
    BY <1>2, <1>8, <1>9, <1>10, UnfailedOn

\* What a boot sealed for registers is what the registers of that boot are.
LEMMA BootForetold ==
    ASSUME ClientsIInv, KeysIInv, f.client = "lsvmload", pc \in Booted,
           SealedForThisBoot, file \in SealPolicies
    PROVE  file.pcrs = ChipRegisters
<1> USE Parts
<1>1. Means(file.pcrs, sealedFor) /\ nv \in Variables
    BY DEF KeysIInv, FileMeans, MachineOK
<1>2. sealedFor.nv \in Variables
    BY <1>1 DEF Means
<1>3. Reg(7) = Firmware(nv)[7] /\ Reg(11) = ScenarioUpTo(3)
    BY DEF KeysIInv, RegistersKnown
<1> DEFINE sb == nv["SecureBoot"]
           w == [sealedFor.nv EXCEPT !["SecureBoot"] = sb]
<1>4. file.pcrs = BootRegisters(sb, sealedFor.nv)
  <2>1. sb \in {"00", "01"}
      BY <1>1 DEF Variables
  <2>2. QED
      BY <1>1, <2>1 DEF SealedForThisBoot, Means
<1>5. w = nv
    BY <1>1, <1>2 DEF SealedForThisBoot, Variables
<1>6. BootRegisters(sb, sealedFor.nv) = BootTable(Firmware(w)[7])
    BY DEF BootRegisters
<1> HIDE DEF sb, w
<1>7. BootTable(Reg(7)) = ChipRegisters
    BY <1>3 DEF BootTable, ChipRegisters, Mask
<1>8. QED
    BY <1>3, <1>4, <1>5, <1>6, <1>7

LEMMA UnfailedUnsealUnseal ==
    ASSUME ClientsIInv, KeysIInv, Unfailed, UnsealUnseal
    PROVE  Unfailed'
<1> USE Parts
<1>1. PICK o \in TPM2_Unseal(tpm, f.object, f.session) :
        /\ pc = "unseal.unseal" /\ pc' = "unseal.flush" /\ Returns(o) /\ Keep
        /\ IF o.rc = "success" THEN f' = [f EXCEPT !.data = o.out, !.session = Nil]
           ELSE f' = [f EXCEPT !.rc = o.rc]
    BY DEF UnsealUnseal, Call, Is, Goto, Set
<1>2. Unharmed /\ (faults' = MaxFaults => o.fault = "none")
    BY <1>1, UnharmedCall
<1>3. f.client \in Openers /\ f.session \in Sessions
    BY <1>1 DEF Program, Routing, Handles, SessionHeld, Frames
<1>4. /\ tpm.session[f.session] # Nil
      /\ tpm.session[f.session].policy.pcrs = ChipRegisters
      /\ tpm.object[f.object].policy = f.blob
    BY <1>1, <1>3 DEF KeysIInv, Opening
<1>5. tpm.session[f.session].policy \in Policies
  <2>1. tpm.session[f.session] \in SessionStates
      BY <1>3, <1>4 DEF Chips
  <2>2. QED
      BY <2>1 DEF SessionStates
<1>6. ASSUME f.client = "lsvmload", SealedForThisBoot, SealedBlob(file), OpensUnfailed
      PROVE  tpm.session[f.session].policy = tpm.object[f.object].policy
  <2> DEFINE y == tpm.session[f.session].policy
  <2>1. f.blob = file /\ y.password = TRUE
      BY <1>1, <1>6 DEF OpensUnfailed, HasBlob, PasswordGiven
  <2>2. file \in SealPolicies /\ file.password = TRUE
      BY <1>6 DEF SealedBlob
  <2>3. file.pcrs = ChipRegisters
      BY <1>1, <1>6, <2>2, BootForetold DEF Booted
  <2>4. y \in Policies /\ y.pcrs = file.pcrs
      BY <1>4, <1>5, <2>3
  <2> HIDE DEF y
  <2>5. y = file
      BY <2>1, <2>2, <2>4 DEF Policies, SealPolicies
  <2>6. QED
      BY <1>4, <2>1, <2>5 DEF y
<1>7. f'.client = f.client /\ (o.rc = "success" => f'.data = o.out)
    BY <1>1 DEF Frames
<1>8. History
    BY <1>1, <1>7 DEF History, Keep
<1>9. SealsOn
    BY <1>3 DEF SealsOn
<1>10. OpensOn
  <2>1. SUFFICES ASSUME faults' = MaxFaults, f.client = "lsvmload", SealedForThisBoot,
                        SealedBlob(file), OpensUnfailed
                 PROVE  OpensUnfailed'
      BY DEF OpensOn
  <2>2. o.rc = "success" /\ o.out = "keys"
      BY <1>1, <1>2, <1>6, <2>1, Unseals
  <2>3. f'.data # Nil
      BY <1>7, <2>2, NilAssumption
  <2>4. QED
      BY <1>1, <2>3 DEF OpensUnfailed, HasBlob
<1>11. QED
    BY <1>2, <1>8, <1>9, <1>10, UnfailedOn

LEMMA UnfailedUnsealFlush ==
    ASSUME ClientsIInv, Unfailed, UnsealFlushSession \/ UnsealFlushObject
    PROVE  Unfailed'
<1> USE Parts
<1>1. /\ pc \in {"unseal.flush", "unseal.flushobject"}
      /\ pc' \in {"unseal.flushobject", "unsealed"} /\ Keep
      /\ f' = [f EXCEPT !.session = Nil] \/ f' = [f EXCEPT !.object = Nil]
    BY DEF UnsealFlushSession, UnsealFlushObject, Is, Goto, Set, Call
<1>2. Unharmed
  <2>1. CASE Local
      BY <2>1, UnharmedLocal
  <2>2. CASE ~Local
    <3>1. PICK o : Returns(o)
        BY <2>2 DEF UnsealFlushSession, UnsealFlushObject, Call
    <3>2. QED
        BY <3>1, UnharmedCall
  <2>3. QED
      BY <2>1, <2>2
<1>3. f.client \in Openers
    BY <1>1 DEF Program, Routing
<1>4. f'.client = f.client /\ f'.data = f.data
    BY <1>1 DEF Frames
<1>5. History
    BY <1>1, <1>4 DEF History, Keep
<1>6. SealsOn
    BY <1>3 DEF SealsOn
<1>7. OpensOn
    BY <1>1, <1>4 DEF OpensOn, OpensUnfailed, HasBlob, HasKeys
<1>8. QED
    BY <1>2, <1>5, <1>6, <1>7, UnfailedOn

LEMMA UnfailedUnsealed ==
    ASSUME ClientsIInv, Unfailed, Unsealed
    PROVE  Unfailed'
<1> USE Parts
<1>1. /\ pc = "unsealed" /\ Keep /\ (Local \/ Fault)
      /\ f' = f \/ f' = [f EXCEPT !.status = "ok"]
      /\ f.client = "lsvmload" => pc' = "flushsrk"
    BY DEF Unsealed, Is, Goto, Set
<1>2. Unharmed
    BY <1>1, UnharmedLocal
<1>3. f.client \in Openers
    BY <1>1 DEF Program, Routing
<1>4. f'.client = f.client /\ f'.data = f.data
    BY <1>1 DEF Frames
<1>5. History
    BY <1>1, <1>4 DEF History, Keep
<1>6. SealsOn
    BY <1>3 DEF SealsOn
<1>7. OpensOn
    BY <1>1, <1>4 DEF OpensOn, OpensUnfailed, HasBlob, HasKeys
<1>8. QED
    BY <1>2, <1>5, <1>6, <1>7, UnfailedOn

LEMMA UnfailedSplit ==
    ASSUME ClientsIInv, Unfailed, SplitKeys
    PROVE  Unfailed'
<1> USE Parts
<1> DEFINE x == IF f.data = Nil THEN "error" ELSE "keys"
<1>1. /\ pc = "split" /\ Keep /\ Local /\ pc' = "cap.before"
      /\ f' = [f EXCEPT !.status = x]
    BY DEF SplitKeys, Is, Goto, Set
<1>2. f.data # Nil => x = "keys"
    OBVIOUS
<1> HIDE DEF x
<1>3. Unharmed
    BY <1>1, UnharmedLocal
<1>4. f.client = "lsvmload"
    BY <1>1 DEF Program, Routing
<1>5. f'.client = f.client /\ f'.status = x
    BY <1>1 DEF Frames
<1>6. History
    BY <1>1, <1>5 DEF History, Keep
<1>7. SealsOn
    BY <1>4 DEF SealsOn
<1>8. OpensOn
    BY <1>1, <1>2, <1>5 DEF OpensOn, OpensUnfailed, HasBlob, HasKeys
<1>9. QED
    BY <1>3, <1>6, <1>7, <1>8, UnfailedOn

-----------------------------------------------------------------------------
(* Boots, commands, and the theorem.                                       *)

LEMMA NewUnfailed ==
    ASSUME NEW c
    PROVE  Frame(c).client = c /\ Frame(c).status = "error"
    BY DEF Frame

LEMMA UnfailedRun ==
    ASSUME ClientsIInv, Unfailed, NEW c \in Commands, Run(c)
    PROVE  Unfailed'
<1>1. /\ pc' = "lockreset" /\ f' = Frame(c) /\ c # "lsvmload"
      /\ faults' = faults /\ orphans' = orphans /\ file' = file /\ sealedFor' = sealedFor
    BY ClientsAssumption DEF Run, Goto, Set, Local
<1>2. f'.client # "lsvmload" /\ f'.status = "error"
    BY <1>1, NewUnfailed
<1>3. SealsUnfailed'
    BY <1>1, <1>2 DEF SealsUnfailed
<1>4. QED
    BY <1>1, <1>2, <1>3 DEF Unfailed

LEMMA UnfailedReboot ==
    ASSUME ClientsIInv, Unfailed, Reboot
    PROVE  Unfailed'
<1>1. /\ pc' = "lockreset" /\ f' = Frame("lsvmload")
      /\ faults' = faults /\ orphans' = 0 /\ file' = file /\ sealedFor' = sealedFor
    BY DEF Reboot, Goto, Set
<1>2. f'.client = "lsvmload" /\ f'.status = "error"
    BY <1>1, NewUnfailed
<1>3. OpensUnfailed'
    BY <1>1 DEF OpensUnfailed, HasBlob, HasKeys
<1>4. QED
    BY <1>1, <1>2, <1>3 DEF Unfailed

LEMMA UnfailedInit ==
    ASSUME Init
    PROVE  Unfailed
<1>1. pc = "lockreset" /\ f = Frame("lsvmload") /\ orphans = 0 /\ sealedFor = Nil
    BY DEF Init
<1>2. f.client = "lsvmload"
    BY <1>1, NewUnfailed
<1>3. QED
    BY <1>1, <1>2 DEF Unfailed, SealedForThisBoot

LEMMA UnfailedStutter ==
    ASSUME Unfailed, UNCHANGED vars
    PROVE  Unfailed'
<1>1. /\ tpm' = tpm /\ nv' = nv /\ file' = file /\ pc' = pc /\ f' = f
      /\ sealedFor' = sealedFor /\ faults' = faults /\ orphans' = orphans
    BY DEF vars
<1>2. (SealsUnfailed <=> SealsUnfailed') /\ (OpensUnfailed <=> OpensUnfailed')
    BY <1>1 DEF SealsUnfailed, OpensUnfailed, PasswordGiven
<1>3. SealedForThisBoot <=> SealedForThisBoot'
    BY <1>1 DEF SealedForThisBoot
<1>4. QED
    BY <1>1, <1>2, <1>3 DEF Unfailed

LEMMA UnfailedNext ==
    ASSUME MaxObjects >= 2, ClientsIInv, KeysIInv, Unfailed, Next
    PROVE  Unfailed'
<1>1. CASE LockReset \/ Lockout \/ CreateSRK \/ FlushSRK
    BY <1>1, UnfailedLockReset, UnfailedLockout, UnfailedCreateSRK, UnfailedFlushSRK
<1>2. CASE PolicyPassword \/ PolicyRead \/ PolicyPCR
    BY <1>2, UnfailedPolicyPassword, UnfailedPolicyRead, UnfailedPolicyPCR
<1>3. CASE LoadInput \/ Predict \/ SealSession \/ SealDigest
    BY <1>3, UnfailedLoadInput, UnfailedPredict, UnfailedSealSession, UnfailedSealDigest
<1>4. CASE SealCreate \/ SealFlush \/ SealPolicy \/ PutFile
    BY <1>4, UnfailedSealCreate, UnfailedSealFlush, UnfailedSealPolicy, UnfailedPutFile
<1>5. CASE LoadSealedData \/ _Get_SRK \/ UnsealSession \/ UnsealLoad
    BY <1>5, UnfailedLoadSealedData, UnfailedGetSRK, UnfailedUnsealSession, UnfailedUnsealLoad
<1>6. CASE UnsealUnseal \/ UnsealFlushSession \/ UnsealFlushObject \/ Unsealed \/ SplitKeys
    BY <1>6, UnfailedUnsealUnseal, UnfailedUnsealFlush, UnfailedUnsealed, UnfailedSplit
<1>7. CASE Scenario \/ CapBefore \/ CapSHA1 \/ CapSHA256
    BY <1>7, UnfailedScenario, UnfailedCapBefore, UnfailedCapSHA1, UnfailedCapSHA256
<1>8. CASE CapAfter \/ CapAllRead \/ CapAllCheck \/ Reboot
    BY <1>8, UnfailedCapAfter, UnfailedCapAll, UnfailedReboot
<1>9. CASE \E c \in Commands : Run(c)
    BY <1>9, UnfailedRun
<1>10. QED
    BY <1>1, <1>2, <1>3, <1>4, <1>5, <1>6, <1>7, <1>8, <1>9 DEF Next

LEMMA UnfailedEnough ==
    ASSUME ClientsIInv, Unfailed
    PROVE  PredictionsHold
<1> USE Parts
<1>1. pc = "cap.before" => f.client = "lsvmload"
    BY DEF Program, Routing
<1>2. QED
    BY <1>1 DEF PredictionsHold, Unfailed, OpensUnfailed, Is

\* Whatever commands were run before: as long as no call has failed, lsvmload has
\* the keys when it comes to cap PCR[11], in every boot with the variables the blob
\* was sealed for.  That the chip holds two objects at once is what TPM2X_Unseal
\* needs, for the storage root key and the sealed object (LoadSealedData, UnsealKey
\* and _Get_SRK of lsvmload, SealPolicy, TPM2X_Seal and TPM2X_Unseal of lsvmutils).
THEOREM PredictionsComeTrue ==
    ASSUME MaxObjects >= 2
    PROVE  Spec => []PredictionsHold
<1>1. Init => ClientsIInv /\ KeysIInv /\ Unfailed
    BY ClientsInit, KeysInit, UnfailedInit
<1>2. ClientsIInv /\ KeysIInv /\ Unfailed /\ [Next]_vars => ClientsIInv' /\ KeysIInv' /\ Unfailed'
  <2>1. ASSUME ClientsIInv, UNCHANGED vars PROVE ClientsIInv'
      BY <2>1, ClientsNext
  <2>2. QED
      BY <2>1, ClientsNext, KeysNext, KeysStutter, UnfailedNext, UnfailedStutter
<1>3. ClientsIInv /\ Unfailed => PredictionsHold
    BY UnfailedEnough
<1>4. QED
    BY <1>1, <1>2, <1>3, PTL DEF Spec
====
