-------------------------- MODULE TpmClientsProofs ---------------------------
(***************************************************************************)
(* Proofs about the programs that use the TPM (TpmClients), for every      *)
(* number of slots of the chip, every number of faults and commands, and   *)
(* every contents of dbx.                                                  *)
(*                                                                         *)
(* What is left in the chip at the end of a client cannot be told from its *)
(* last step: ClientsIInv follows its handles through every step.          *)
(*   Routing      which client may be at which step, and who called        *)
(*                TPM2X_BuildPolicy                                        *)
(*   Handles      where a handle is held, and which step has none          *)
(*   VarsKept     _vars has its extra entry only while the key is held     *)
(*   BlobKept     what a sealing command knows of its blob at each step    *)
(*   Accounted    what is in the chip and in no handle of the running      *)
(*                client was lost with an answer or an unsent flush        *)
(***************************************************************************)
EXTENDS TpmClients, FiniteSetTheorems, NaturalsInduction, SequenceTheorems, TLAPS

PolicySealers == Sealers \ {"seal"}
Openers == Unsealers \cup {"lsvmload"}

PolicySteps == {"policy.password", "policy.read", "policy.pcr"}
SealSteps == {"seal.session", "seal.digest", "seal.create", "seal.flush", "sealed"}
UnsealSteps == {"load", "unseal.session", "unseal.load", "unseal.unseal",
                "unseal.flush", "unseal.flushobject", "unsealed"}
CapSteps == {"cap.sha1", "cap.sha256"}
LoaderSteps == {"scenario", "readpublic", "split", "cap.before", "cap.after"}

Routing ==
    /\ pc = "predict" => f.client \in PolicySealers
    /\ pc = "input" => f.client = "seal"
    /\ pc \in {"srk", "flushsrk"} => f.client \in Sealers \cup Openers \cup {"srk"}
    /\ pc \in SealSteps \cup {"put"} => f.client \in Sealers
    /\ pc \in UnsealSteps => f.client \in Openers
    /\ pc \in PolicySteps =>
         \/ f.proc = "seal" /\ f.client \in Sealers
         \/ f.proc = "unseal" /\ f.client \in Openers
    /\ pc \in LoaderSteps => f.client = "lsvmload"
    /\ pc \in CapSteps => f.client \in Openers \cup {"cappcr11", "capall"}
    /\ pc \in {"capall.read", "capall.check"} => f.client = "capall"
    /\ pc \in {"lockreset", "lockout"} => f.i = 0
    /\ pc = "scenario" => f.i \in 0 .. 2

SessionHeld == PolicySteps \cup {"seal.digest", "seal.create", "seal.flush",
                                 "unseal.load", "unseal.unseal"}
Handles ==
    /\ f.session # Nil => pc \in SessionHeld \cup {"unseal.flush"}
    /\ pc \in SessionHeld => f.session # Nil
    /\ f.object # Nil => pc \in {"unseal.unseal", "unseal.flush", "unseal.flushobject"}
    /\ pc = "unseal.unseal" => f.object # Nil
    /\ f.srk # Nil =>
         \/ pc \in PolicySteps \cup SealSteps \cup {"flushsrk", "input"}
         \/ pc \in UnsealSteps \ {"load"}
         \/ pc \in CapSteps \cup {"load"} /\ f.client \in Unsealers
         \/ pc = "put" /\ f.client = "seal"
    /\ pc \in PolicySteps \cup SealSteps \cup {"flushsrk", "input"} /\ f.client \in Sealers =>
         f.srk # Nil
    /\ pc = "put" /\ f.client = "seal" => f.srk # Nil
    /\ pc = "policy.pcr" => f.pcrs # Nil

\* The session of the client is open until its digest is taken.
SessionOpen ==
    /\ pc \in PolicySteps \cup {"seal.digest"} => tpm.session[f.session] # Nil
    /\ pc = "seal.digest" => tpm.session[f.session].policy \in SealPolicies
    /\ pc = "seal.create" => f.digest # Nil

VarsKept ==
    f.vars # StaticVars =>
        /\ f.client \in PolicySealers
        /\ pc \in PolicySteps \cup SealSteps \cup {"srk", "flushsrk"}

BeforeSeal == PolicySteps \cup {"lockreset", "lockout", "predict", "srk", "input", "seal.session"}
BlobKept ==
    f.client \in Sealers =>
        /\ pc \in BeforeSeal \cup SealSteps => f.status = "error"
        /\ pc \in BeforeSeal => ~f.built
        /\ f.built /\ f.rc = "success" /\ pc \in {"seal.flush", "sealed"} =>
             f.blob \in SealPolicies
        /\ pc = "put" => f.status = "sealed"
        /\ f.built /\ f.status \in {"sealed", "ok"} => f.blob # Garbage
        /\ f.status = "ok" => file = f.blob /\ pc \in {"flushsrk", "idle"}

SessionsLeft == Used(tpm.session) \ {f.session}
ObjectsLeft == Used(tpm.object) \ {f.srk, f.object}
Accounted == Cardinality(SessionsLeft) + Cardinality(ObjectsLeft) <= orphans

ClientsIInv ==
    /\ TypeOK /\ Routing /\ Handles /\ SessionOpen /\ VarsKept /\ BlobKept
    /\ Accounted

-----------------------------------------------------------------------------
(* The commands of the chip.                                               *)

\* A set of naturals that is not empty has a least element.
LEMMA LeastElement ==
    ASSUME NEW S, S \subseteq Nat, S # {}
    PROVE  \E x \in S : \A y \in S : x <= y
<1> DEFINE R == OpToRel(<, Nat)
<1>1. IsWellFoundedOn(R, Nat)
    BY NatLessThanWellFounded
<1>2. \A x, y \in Nat : y < x => <<y, x>> \in R
    BY DEF OpToRel
<1> HIDE DEF R
<1>3. PICK x \in S : \A y \in S : ~(<<y, x>> \in R)
    BY <1>1, WFMin
<1>4. \A y \in S : ~(y < x)
    BY <1>2, <1>3, Zenon
<1>5. QED
    BY <1>4

\* A slot that is given out was free.
LEMMA FreeSlotIsFree ==
    ASSUME NEW n \in Nat, NEW slots, DOMAIN slots = 1 .. n, FreeSlots(slots) # {}
    PROVE  FreeSlot(slots) \in 1 .. n /\ slots[FreeSlot(slots)] = Nil
<1>1. FreeSlots(slots) \subseteq Nat
    BY DEF FreeSlots
<1>2. \E i \in FreeSlots(slots) : \A j \in FreeSlots(slots) : i <= j
    BY <1>1, LeastElement
<1>3. FreeSlot(slots) \in FreeSlots(slots)
    BY <1>2, Zenon DEF FreeSlot
<1>4. QED
    BY <1>3 DEF FreeSlots

Keeps(t, u) ==
    u \in Chips /\ Used(u.session) = Used(t.session) /\ Used(u.object) = Used(t.object)
Failure(o) == o.rc = "failure" /\ o.out = Nil

\* What _SubmitCommand may make of what the chip does.
LEMMA Outcomes ==
    ASSUME NEW t, NEW done, NEW o \in _SubmitCommand(t, done)
    PROVE  \/ o = done
           \/ Failure(o) /\ o.tpm = t /\ o.fault = "unsent"
           \/ Failure(o) /\ o.tpm = done.tpm /\ o.fault = "lost"
    BY DEF _SubmitCommand, Failure

LEMMA AnswerFields ==
    ASSUME NEW t, NEW out
    PROVE  /\ Answer(t, out).rc = "success" /\ Answer(t, out).fault = "none"
           /\ Answer(t, out).tpm = t /\ Answer(t, out).out = out
    BY DEF Answer

LEMMA RefuseFields ==
    ASSUME NEW t, NEW rc
    PROVE  /\ Refuse(t, rc).rc = rc /\ Refuse(t, rc).fault = "none"
           /\ Refuse(t, rc).tpm = t /\ Refuse(t, rc).out = Nil
    BY DEF Refuse

\* A command that is obeyed or refused, its effect, and what may be lost of it.
Obeyed(o, u, out) ==
    \/ o.rc = "success" /\ o.tpm = u /\ o.out = out /\ o.fault = "none"
    \/ o.rc = "failure" /\ o.tpm = u /\ o.fault = "lost"
Ignored(o, t) ==
    o.rc \in Codes \ {"success"} /\ o.tpm = t /\ o.fault \in {"none", "unsent"}

LEMMA Answered ==
    ASSUME NEW t, NEW u, NEW out, NEW o \in _SubmitCommand(t, Answer(u, out))
    PROVE  Obeyed(o, u, out) \/ (Ignored(o, t) /\ o.fault = "unsent")
<1> DEFINE done == Answer(u, out)
<1>0. \/ o = done
      \/ Failure(o) /\ o.tpm = t /\ o.fault = "unsent"
      \/ Failure(o) /\ o.tpm = done.tpm /\ o.fault = "lost"
    <2> o \in _SubmitCommand(t, done)
        OBVIOUS
    <2> HIDE DEF done
    <2> QED
        BY Outcomes
<1>1. CASE o = Answer(u, out)
    BY <1>1, AnswerFields DEF Obeyed
<1>2. CASE Failure(o) /\ o.tpm = t /\ o.fault = "unsent"
    BY <1>2 DEF Failure, Ignored, Codes
<1>3. CASE Failure(o) /\ o.tpm = Answer(u, out).tpm /\ o.fault = "lost"
    BY <1>3, AnswerFields DEF Obeyed, Failure
<1>4. QED
    BY <1>0, <1>1, <1>2, <1>3

LEMMA Refused ==
    ASSUME NEW t, NEW rc \in Codes \ {"success"}, NEW o \in _SubmitCommand(t, Refuse(t, rc))
    PROVE  \/ Ignored(o, t)
           \/ o.rc = "failure" /\ o.tpm = t /\ o.fault = "lost"
<1> DEFINE done == Refuse(t, rc)
<1>0. \/ o = done
      \/ Failure(o) /\ o.tpm = t /\ o.fault = "unsent"
      \/ Failure(o) /\ o.tpm = done.tpm /\ o.fault = "lost"
    <2> o \in _SubmitCommand(t, done)
        OBVIOUS
    <2> HIDE DEF done
    <2> QED
        BY Outcomes
<1>1. CASE o = Refuse(t, rc)
    BY <1>1, RefuseFields DEF Ignored
<1>2. CASE Failure(o) /\ o.tpm = t /\ o.fault = "unsent"
    BY <1>2 DEF Failure, Ignored, Codes
<1>3. CASE Failure(o) /\ o.tpm = Refuse(t, rc).tpm /\ o.fault = "lost"
    BY <1>3, RefuseFields DEF Failure
<1>4. QED
    BY <1>0, <1>1, <1>2, <1>3

\* The chip with one session or one object changed.
PutSession(t, s, x) == [t EXCEPT !.session = [t.session EXCEPT ![s] = x]]
PutObject(t, h, x) == [t EXCEPT !.object = [t.object EXCEPT ![h] = x]]

LEMMA SessionSet ==
    ASSUME NEW t \in Chips, NEW s \in Sessions, NEW x \in SessionStates \cup {Nil},
           NEW u, u = PutSession(t, s, x)
    PROVE  /\ u \in Chips /\ u.session[s] = x
           /\ u.object = t.object /\ u.pcr = t.pcr
           /\ x = Nil => Used(u.session) = Used(t.session) \ {s}
           /\ x # Nil => Used(u.session) = Used(t.session) \cup {s}
           /\ Used(u.object) = Used(t.object)
<1> DEFINE ss == [t.session EXCEPT ![s] = x]
<1>1. /\ ss \in [Sessions -> SessionStates \cup {Nil}] /\ ss[s] = x
      /\ t.session \in [Sessions -> SessionStates \cup {Nil}]
      /\ \A r \in Sessions \ {s} : ss[r] = t.session[r]
    BY DEF Chips
<1> HIDE DEF ss
<1>2. u = [t EXCEPT !.session = ss]
    BY DEF ss, PutSession
<1>3. u \in Chips /\ u.session = ss /\ u.object = t.object /\ u.pcr = t.pcr
    BY <1>1, <1>2 DEF Chips
<1>4. /\ x = Nil => Used(ss) = Used(t.session) \ {s}
      /\ x # Nil => Used(ss) = Used(t.session) \cup {s}
    BY <1>1 DEF Used, FreeSlots
<1>5. QED
    BY <1>1, <1>3, <1>4

LEMMA ObjectSet ==
    ASSUME NEW t \in Chips, NEW h \in Objects, NEW x \in ObjectStates \cup {Nil},
           NEW u, u = PutObject(t, h, x)
    PROVE  /\ u \in Chips /\ u.object[h] = x
           /\ u.session = t.session /\ u.pcr = t.pcr
           /\ x = Nil => Used(u.object) = Used(t.object) \ {h}
           /\ x # Nil => Used(u.object) = Used(t.object) \cup {h}
           /\ Used(u.session) = Used(t.session)
<1> DEFINE ss == [t.object EXCEPT ![h] = x]
<1>1. /\ ss \in [Objects -> ObjectStates \cup {Nil}] /\ ss[h] = x
      /\ t.object \in [Objects -> ObjectStates \cup {Nil}]
      /\ \A r \in Objects \ {h} : ss[r] = t.object[r]
    BY DEF Chips
<1> HIDE DEF ss
<1>2. u = [t EXCEPT !.object = ss]
    BY DEF ss, PutObject
<1>3. u \in Chips /\ u.object = ss /\ u.session = t.session /\ u.pcr = t.pcr
    BY <1>1, <1>2 DEF Chips
<1>4. /\ x = Nil => Used(ss) = Used(t.object) \ {h}
      /\ x # Nil => Used(ss) = Used(t.object) \cup {h}
    BY <1>1 DEF Used, FreeSlots
<1>5. QED
    BY <1>1, <1>3, <1>4

-----------------------------------------------------------------------------
(* What the firmware measures and what the commands predict has its type.  *)

VarNames == {"SecureBoot", "PK", "KEK", "db", "dbx"}

LEMMA FirmwareTyped ==
    ASSUME NEW v \in Variables
    PROVE  Firmware(v) \in Registers
<1> DEFINE a == <<HashVariable("SecureBoot", v["SecureBoot"]),
                  HashVariable("PK", v["PK"]), HashVariable("KEK", v["KEK"]),
                  HashVariable("db", v["db"]), HashVariable("dbx", v["dbx"]),
                  ComputeHash("00000000")>>
           d == IF v["SecureBoot"] = "01"
                THEN <<HashVariable("db", CheckImageDB(v["db"]))>> ELSE <<>>
<1>1. /\ v["SecureBoot"] \in Texts /\ v["PK"] \in Texts /\ v["KEK"] \in Texts
      /\ v["db"] = "trusted" /\ v["dbx"] \in Texts /\ v["db"] \in Texts
    BY DEF Variables, Texts
<1>2. \A n \in VarNames : HashVariable(n, v[n]) \in Digests
    BY <1>1 DEF HashVariable, Digests, VarNames
<1>3. ComputeHash("00000000") \in Digests
    BY DEF ComputeHash, Digests, Texts
<1>4. HashVariable("db", CheckImageDB(v["db"])) \in Digests
    BY <1>1 DEF HashVariable, CheckImageDB, Digests, Texts
<1>5. a \in Seq(Digests)
    BY <1>2, <1>3 DEF VarNames
<1>6. d \in Seq(Digests)
    BY <1>4
<1>7. Firmware(v) = [p \in PCRs |-> IF p # 7 THEN <<>> ELSE a \o d]
    BY DEF Firmware
<1> HIDE DEF a, d
<1>8. a \o d \in Seq(Digests)
    BY <1>5, <1>6, ConcatProperties
<1>9. QED
    BY <1>7, <1>8 DEF Registers

\* The values a prediction may find, and the entries of the policies.
VarsTyped(vs) ==
    /\ \E n \in Nat : DOMAIN vs = 1 .. n
    /\ \A i \in DOMAIN vs : vs[i].data \in Texts
FilesTyped(files) == \A p \in DOMAIN files : files[p] \in Texts \cup {Nil}
EntryTyped(e) ==
    /\ e.pcr \in Mask /\ e.type \in {"EFIVAR", "BINARY", "CAP"}
    /\ e.type = "EFIVAR" => e.path[1] \in VarNames
PolicyTyped(policy) ==
    Len(policy) \in Nat /\ \A i \in 1 .. Len(policy) : EntryTyped(policy[i])
Measures == [ok : BOOLEAN, mask : SUBSET Mask, banks : [Banks -> Registers]]

LEMMA VarsFound ==
    ASSUME NEW vs, VarsTyped(vs), NEW path
    PROVE  VarsFind(vs, path) \in Texts \cup {Nil}
<1> DEFINE hits == {i \in DOMAIN vs : vs[i].path = path}
<1>1. CASE hits = {}
    BY <1>1 DEF VarsFind
<1>2. CASE hits # {}
  <2> DEFINE k == CHOOSE i \in hits : \A j \in hits : i <= j
  <2>1. hits \subseteq Nat
      BY DEF VarsTyped
  <2>2. \E i \in hits : \A j \in hits : i <= j
      BY <1>2, <2>1, LeastElement
  <2>3. k \in hits
      BY <2>2, Zenon
  <2>4. VarsFind(vs, path) = vs[k].data
      BY <1>2 DEF VarsFind
  <2> HIDE DEF k
  <2>5. QED
      BY <2>3, <2>4 DEF VarsTyped
<1>3. QED
    BY <1>1, <1>2

LEMMA ValueLoaded ==
    ASSUME NEW vs, VarsTyped(vs), NEW files, FilesTyped(files), NEW path
    PROVE  _LoadVariableOrFile(vs, files, path) \in Texts \cup {Nil}
    BY VarsFound DEF _LoadVariableOrFile, VarsLoad, FilesTyped

LEMMA Measured ==
    ASSUME NEW m \in Measures, NEW p \in Mask, NEW d \in Digests
    PROVE  Measure(m, p, d) \in Measures
<1> DEFINE x == _Extend(m.banks, p, d)
<1>1. x \in [Banks -> Registers]
  <2>1. \A b \in Banks : [m.banks[b] EXCEPT ![p] = Append(@, d)] \in Registers
    <3> TAKE b \in Banks
    <3>1. m.banks[b] \in [PCRs -> Seq(Digests)] /\ p \in PCRs
        BY DEF Measures, Registers, Mask, PCRs
    <3>2. Append(m.banks[b][p], d) \in Seq(Digests)
        BY <3>1, AppendProperties
    <3>3. QED
        BY <3>1, <3>2 DEF Registers
  <2>2. QED
      BY <2>1 DEF _Extend
<1>2. Measure(m, p, d) = [m EXCEPT !.ok = TRUE, !.banks = x, !.mask = m.mask \cup {p}]
    BY DEF Measure
<1> HIDE DEF x
<1>3. m.mask \cup {p} \in SUBSET Mask
    BY DEF Measures
<1>4. QED
    BY <1>1, <1>2, <1>3 DEF Measures

LEMMA EntryMeasured ==
    ASSUME NEW m \in Measures, NEW vs, VarsTyped(vs), NEW files, FilesTyped(files),
           NEW v \in Variables, NEW ent, EntryTyped(ent)
    PROVE  MeasureEntry(m, vs, files, v, ent) \in Measures
<1>1. Unmeasured(m) \in Measures
    BY DEF Unmeasured, Measures
<1> DEFINE own == _LoadVariableOrFile(vs, files, ent.path)
<1>2. own \in Texts \cup {Nil}
    BY ValueLoaded
<1>3. CASE ent.type = "EFIVAR"
  <2> DEFINE name == ent.path[1]
             data == IF own # Nil THEN own ELSE LoadEFIVar(v, name)
  <2>1. name \in VarNames
      BY <1>3 DEF EntryTyped
  <2>2. LoadEFIVar(v, name) \in Texts
    <3>1. \A n \in VarNames : n \in DOMAIN v /\ v[n] \in Texts
        BY DEF VarNames, Variables, Texts
    <3>2. QED
        BY <2>1, <3>1 DEF LoadEFIVar
  <2>3. data \in Texts \cup {Nil}
      BY <1>2, <2>2
  <2>4. MeasureEntry(m, vs, files, v, ent)
          = IF data = Nil THEN Unmeasured(m) ELSE Measure(m, ent.pcr, HashVariable(name, data))
      BY <1>3 DEF MeasureEntry, MeasureEFIVariable
  <2> HIDE DEF name, data
  <2>5. data \in Texts => HashVariable(name, data) \in Digests
      BY <2>1 DEF HashVariable, Digests, VarNames
  <2>6. QED
      BY <1>1, <2>3, <2>4, <2>5, Measured DEF EntryTyped
<1>4. CASE ent.type = "BINARY"
  <2>1. MeasureEntry(m, vs, files, v, ent)
          = IF own = Nil THEN Unmeasured(m) ELSE Measure(m, ent.pcr, ComputeHash(own))
      BY <1>4 DEF MeasureEntry, MeasureBinaryFile
  <2> HIDE DEF own
  <2>2. own \in Texts => ComputeHash(own) \in Digests
      BY DEF ComputeHash, Digests
  <2>3. QED
      BY <1>1, <1>2, <2>1, <2>2, Measured DEF EntryTyped
<1>5. CASE ent.type = "CAP"
  <2>1. MeasureEntry(m, vs, files, v, ent) = Measure(m, ent.pcr, Zeros)
      BY <1>5 DEF MeasureEntry, MeasureCap
  <2>2. Zeros \in Digests
      BY DEF Zeros, ComputeHash, Digests, Texts
  <2>3. QED
      BY <2>1, <2>2, Measured DEF EntryTyped
<1>6. QED
    BY <1>3, <1>4, <1>5 DEF EntryTyped

\* MeasurePolicy step by step: r is what the first n - 1 entries made.
MeasureStep(r, vs, files, v, ent) ==
    IF ~r.ok THEN r ELSE MeasureEntry(r, vs, files, v, ent)
Unextended ==
    [ok |-> TRUE, mask |-> {}, banks |-> [b \in Banks |-> [p \in PCRs |-> <<>>]]]
IsUpTo(g, k, vs, files, v, policy) ==
    g = [n \in 0 .. k |-> IF n = 0 THEN Unextended
                          ELSE MeasureStep(g[n - 1], vs, files, v, policy[n])]

\* The recursion of MeasurePolicy defines a function.
LEMMA UpToExists ==
    ASSUME NEW vs, NEW files, NEW v, NEW policy, NEW N \in Nat
    PROVE  \E g : IsUpTo(g, N, vs, files, v, policy)
<1> DEFINE Has(k) == \E g : IsUpTo(g, k, vs, files, v, policy)
           S == {k \in Nat : ~Has(k)}
<1>1. Has(0)
  <2> DEFINE g == [n \in 0 .. 0 |-> Unextended]
  <2>1. g = [n \in 0 .. 0 |-> IF n = 0 THEN Unextended
                              ELSE MeasureStep(g[n - 1], vs, files, v, policy[n])]
      OBVIOUS
  <2>2. QED
      BY <2>1, Zenon DEF IsUpTo
<1>2. ASSUME NEW k \in Nat, k > 0, Has(k - 1)
      PROVE  Has(k)
  <2>1. PICK g : IsUpTo(g, k - 1, vs, files, v, policy)
      BY <1>2
  <2> DEFINE last == MeasureStep(g[k - 1], vs, files, v, policy[k])
             h == [n \in 0 .. k |-> IF n = k THEN last ELSE g[n]]
  <2>2. \A n \in 0 .. k - 1 :
          g[n] = IF n = 0 THEN Unextended ELSE MeasureStep(g[n - 1], vs, files, v, policy[n])
      BY <2>1 DEF IsUpTo
  <2>3. \A n \in 0 .. k : n # 0 => h[n - 1] = g[n - 1]
      OBVIOUS
  <2>4. ASSUME NEW n \in 0 .. k
        PROVE  h[n] = IF n = 0 THEN Unextended
                      ELSE MeasureStep(h[n - 1], vs, files, v, policy[n])
    <3>1. CASE n = k
      <4>1. h[n] = last /\ n # 0
          BY <3>1, <1>2
      <4>2. h[n - 1] = g[k - 1]
          BY <2>3, <3>1, <4>1
      <4> HIDE DEF h
      <4>3. QED
          BY <3>1, <4>1, <4>2
    <3>2. CASE n # k
      <4>1. h[n] = g[n] /\ n \in 0 .. k - 1
          BY <3>2, <1>2
      <4> HIDE DEF h
      <4>2. QED
          BY <2>2, <2>3, <4>1
    <3>3. QED
        BY <3>1, <3>2
  <2>5. h = [n \in 0 .. k |-> IF n = 0 THEN Unextended
                              ELSE MeasureStep(h[n - 1], vs, files, v, policy[n])]
    <3>1. DOMAIN h = 0 .. k /\ h = [n \in 0 .. k |-> h[n]]
        OBVIOUS
    <3> HIDE DEF h
    <3>2. QED
        BY <2>4, <3>1
  <2>6. QED
      BY <2>5, Zenon DEF IsUpTo
<1>3. S = {}
  <2>1. SUFFICES ASSUME S # {} PROVE FALSE
      OBVIOUS
  <2>2. PICK k \in S : \A j \in S : k <= j
    <3>1. S \subseteq Nat
        OBVIOUS
    <3> HIDE DEF S
    <3>2. QED
        BY <2>1, <3>1, LeastElement
  <2>3. k \in Nat /\ ~Has(k)
      BY Zenon
  <2>4. k # 0
      BY <1>1, <2>3, Zenon
  <2>5. k - 1 \in Nat /\ ~(k <= k - 1) /\ k > 0
      BY <2>3, <2>4
  <2>6. k - 1 \notin S
      BY <2>2, <2>5, Zenon
  <2>7. Has(k - 1)
      BY <2>5, <2>6, Zenon
  <2>8. QED
      BY <1>2, <2>3, <2>5, <2>7, Zenon
<1>4. QED
    BY <1>3, Zenon

\* MeasurePolicy as the steps it makes, which all have their type.
Unrolled(g, vs, files, v, policy) ==
    /\ MeasurePolicy(vs, files, v, policy) = g[Len(policy)]
    /\ g[0] = Unextended
    /\ \A n \in 1 .. Len(policy) : g[n] = MeasureStep(g[n - 1], vs, files, v, policy[n])
    /\ \A n \in 0 .. Len(policy) : g[n] \in Measures

LEMMA PolicyUnrolled ==
    ASSUME NEW vs, VarsTyped(vs), NEW files, FilesTyped(files),
           NEW v \in Variables, NEW policy, PolicyTyped(policy)
    PROVE  \E g : Unrolled(g, vs, files, v, policy)
<1> DEFINE N == Len(policy)
           g == CHOOSE h : h = [n \in 0 .. N |-> IF n = 0 THEN Unextended
                                ELSE MeasureStep(h[n - 1], vs, files, v, policy[n])]
<1>0. N \in Nat
    BY DEF PolicyTyped
<1>1. MeasurePolicy(vs, files, v, policy) = g[N]
    BY DEF MeasurePolicy, MeasureStep, Unextended
<1>2. IsUpTo(g, N, vs, files, v, policy)
  <2>1. \E h : IsUpTo(h, N, vs, files, v, policy)
      BY <1>0, UpToExists
  <2>2. QED
      BY <2>1, Zenon DEF IsUpTo
<1> HIDE DEF g
<1>3. /\ g[0] = Unextended
      /\ \A n \in 1 .. N : g[n] = MeasureStep(g[n - 1], vs, files, v, policy[n])
    BY <1>0, <1>2 DEF IsUpTo
<1>4. Unextended \in Measures
    BY DEF Unextended, Measures, Registers
<1>5. \A n \in 1 .. N : g[n - 1] \in Measures => g[n] \in Measures
  <2> TAKE n \in 1 .. N
  <2> HAVE g[n - 1] \in Measures
  <2>1. EntryTyped(policy[n])
      BY DEF PolicyTyped
  <2>2. MeasureEntry(g[n - 1], vs, files, v, policy[n]) \in Measures
      BY <2>1, EntryMeasured
  <2>3. QED
      BY <1>3, <2>2 DEF MeasureStep
<1>6. {n \in 0 .. N : g[n] \notin Measures} = {}
  <2> DEFINE S == {n \in 0 .. N : g[n] \notin Measures}
  <2>1. SUFFICES ASSUME S # {} PROVE FALSE
      OBVIOUS
  <2>2. PICK k \in S : \A j \in S : k <= j
    <3>1. S \subseteq Nat
        BY <1>0
    <3> HIDE DEF S
    <3>2. QED
        BY <2>1, <3>1, LeastElement
  <2>3. k \in 0 .. N /\ g[k] \notin Measures /\ k # 0
      BY <1>3, <1>4
  <2>4. k \in 1 .. N /\ k - 1 \in 0 .. N /\ ~(k <= k - 1)
      BY <1>0, <2>3
  <2>5. g[k - 1] \in Measures
      BY <2>2, <2>4, Zenon
  <2>6. QED
      BY <1>5, <2>3, <2>4, <2>5
<1>7. \A n \in 0 .. N : g[n] \in Measures
    BY <1>6
<1>8. Unrolled(g, vs, files, v, policy)
    BY <1>1, <1>3, <1>7, Zenon DEF Unrolled
<1>9. QED
    BY <1>8, Zenon

\* What a policy measures is registers, whatever its entries find.
LEMMA PolicyMeasured ==
    ASSUME NEW vs, VarsTyped(vs), NEW files, FilesTyped(files),
           NEW v \in Variables, NEW policy, PolicyTyped(policy)
    PROVE  MeasurePolicy(vs, files, v, policy) \in Measures
<1>1. PICK g : Unrolled(g, vs, files, v, policy)
    BY PolicyUnrolled, Zenon
<1>2. Len(policy) \in 0 .. Len(policy)
    BY DEF PolicyTyped
<1>3. QED
    BY <1>1, <1>2, Zenon DEF Unrolled

LEMMA PredictedTyped ==
    ASSUME NEW m \in Measures
    PROVE  Predicted(m) \in Selections
<1>1. \A p \in m.mask : m.banks["SHA256"][p] \in Seq(Digests)
    BY DEF Measures, Registers, Mask, PCRs, Banks
<1>2. m.mask = Mask \/ m.mask = {7} \/ m.mask = {11} \/ m.mask = {}
    BY DEF Measures, Mask
<1>3. Predicted(m) \in [m.mask -> Seq(Digests)]
    BY <1>1 DEF Predicted
<1>4. QED
    BY <1>2, <1>3 DEF Selections
\* The fields every caller looks at.
Outcome(o) ==
    /\ o.tpm \in Chips /\ o.rc \in Codes /\ o.fault \in {"none", "unsent", "lost"}
    /\ o.rc = "success" => o.fault = "none"

\* Commands that only ask the chip something.
Asked(o, t, out) == Outcome(o) /\ o.tpm = t /\ (o.rc = "success" => o.out = out)

LEMMA AskedOf ==
    ASSUME NEW t \in Chips, NEW out, NEW o \in _SubmitCommand(t, Answer(t, out))
    PROVE  Asked(o, t, out)
    BY Answered DEF Asked, Outcome, Obeyed, Ignored, Codes

LEMMA Asking ==
    ASSUME NEW t \in Chips, NEW s, NEW x, NEW y
    PROVE  /\ \A o \in TPM2X_SetDictionaryAttackLockReset(t) : Asked(o, t, Nil)
           /\ \A o \in TPM2_PolicyGetDigest(t, s) : Asked(o, t, t.session[s].policy)
           /\ \A o \in TPM2_Create(t, x, y) : Asked(o, t, y)
    BY AskedOf DEF TPM2X_SetDictionaryAttackLockReset, TPM2_DictionaryAttackLockReset,
                   TPM2_PolicyGetDigest, TPM2_Create

LEMMA ReadOutcome ==
    ASSUME NEW t \in Chips, NEW bank, NEW mask, NEW regs,
           regs = [p \in mask |-> t.pcr[bank][p]], NEW o \in TPM2_PCR_Read(t, bank, mask)
    PROVE  Asked(o, t, regs)
    BY AskedOf DEF TPM2_PCR_Read

LEMMA ReadPublicOutcome ==
    ASSUME NEW t \in Chips, NEW h, NEW o \in TPM2_ReadPublic(t, h)
    PROVE  Outcome(o) /\ o.tpm = t
<1>1. "handle" \in Codes \ {"success"}
    BY DEF Codes
<1>2. \/ o \in _SubmitCommand(t, Answer(t, "public"))
      \/ o \in _SubmitCommand(t, Refuse(t, "handle"))
    BY DEF TPM2_ReadPublic
<1>3. QED
    BY <1>1, <1>2, AskedOf, Refused DEF Asked, Outcome, Ignored, Codes

\* Commands that leave the sessions and objects alone.
Extended(o, t) ==
    Outcome(o) /\ o.tpm.session = t.session /\ o.tpm.object = t.object

LEMMA LockoutOutcome ==
    ASSUME NEW t \in Chips, NEW o \in TPM2X_SetLockoutParams(t)
    PROVE  Extended(o, t)
<1> DEFINE u == [t EXCEPT !.tries = "relaxed"]
<1>1. u \in Chips /\ u.session = t.session /\ u.object = t.object
    BY DEF Chips
<1>2. o \in _SubmitCommand(t, Answer(u, Nil))
    BY DEF TPM2X_SetLockoutParams, TPM2_DictionaryAttackParameters
<1> HIDE DEF u
<1>3. QED
    BY <1>1, <1>2, Answered DEF Extended, Outcome, Obeyed, Ignored, Codes

LEMMA RegistersSet ==
    ASSUME NEW t \in Chips, NEW r \in [Banks -> Registers], NEW u, u = [t EXCEPT !.pcr = r]
    PROVE  /\ u \in Chips /\ u.pcr = r
           /\ u.session = t.session /\ u.object = t.object
    BY DEF Chips

LEMMA Appended ==
    ASSUME NEW r \in Registers, NEW p, NEW d \in Digests
    PROVE  [r EXCEPT ![p] = Append(r[p], d)] \in Registers
<1>1. p \in PCRs => Append(r[p], d) \in Seq(Digests)
    BY DEF Registers
<1>2. QED
    BY <1>1 DEF Registers

LEMMA ExtendOutcome ==
    ASSUME NEW t \in Chips, NEW bank \in Banks, NEW p, NEW d \in Digests,
           NEW o \in TPM2_PCR_Extend(t, bank, p, d)
    PROVE  Extended(o, t)
<1> DEFINE r == [t.pcr EXCEPT ![bank] = [t.pcr[bank] EXCEPT ![p] = Append(t.pcr[bank][p], d)]]
           u == [t EXCEPT !.pcr[bank][p] = Append(@, d)]
<1>1. t.pcr \in [Banks -> Registers]
    BY DEF Chips
<1>2. r \in [Banks -> Registers]
    BY <1>1, Appended
<1>3. u = [t EXCEPT !.pcr = r]
    OBVIOUS
<1>4. o \in _SubmitCommand(t, Answer(u, Nil))
    BY DEF TPM2_PCR_Extend
<1> HIDE DEF r, u
<1>5. u \in Chips /\ u.session = t.session /\ u.object = t.object
    BY <1>2, <1>3, RegistersSet
<1>6. QED
    BY <1>4, <1>5, Answered DEF Extended, Outcome, Obeyed, Ignored, Codes

LEMMA HashLogOutcome ==
    ASSUME NEW t \in Chips, NEW p, NEW d \in Digests, NEW o \in HashLogExtendEvent(t, p, d)
    PROVE  Extended(o, t)
<1> DEFINE r == [b \in Banks |-> [t.pcr[b] EXCEPT ![p] = Append(t.pcr[b][p], d)]]
           u == [t EXCEPT !.pcr = r]
<1>1. t.pcr \in [Banks -> Registers]
    BY DEF Chips
<1>2. r \in [Banks -> Registers]
    BY <1>1, Appended
<1>3. \/ o = Answer(u, Nil)
      \/ o = [rc |-> "failure", tpm |-> t, out |-> Nil, fault |-> "unsent"]
    BY DEF HashLogExtendEvent
<1> HIDE DEF r
<1>4. u \in Chips /\ u.session = t.session /\ u.object = t.object
    BY <1>2, RegistersSet
<1> HIDE DEF u
<1>5. CASE o = Answer(u, Nil)
    BY <1>4, <1>5, AnswerFields DEF Extended, Outcome, Codes
<1>6. CASE o = [rc |-> "failure", tpm |-> t, out |-> Nil, fault |-> "unsent"]
    BY <1>6 DEF Extended, Outcome, Codes
<1>7. QED
    BY <1>3, <1>5, <1>6

\* Commands that give out a handle: the slot was free, and it is used at most if
\* the answer arrived or was lost.
LEMMA CreateSRKOutcome ==
    ASSUME NEW t \in Chips, NEW o \in TPM2X_CreateSRKKey(t)
    PROVE  /\ Outcome(o) /\ Used(o.tpm.session) = Used(t.session)
           /\ o.rc = "success" =>
                o.out \in Objects /\ Used(o.tpm.object) = Used(t.object) \cup {o.out}
           /\ o.rc # "success" =>
                \/ o.tpm = t
                \/ o.fault = "lost" /\ \E h \in Objects : Used(o.tpm.object) = Used(t.object) \cup {h}
<1>1. "memory" \in Codes \ {"success"}
    BY DEF Codes
<1>2. CASE o \in _SubmitCommand(t, Refuse(t, "memory"))
    BY <1>1, <1>2, Refused DEF Outcome, Ignored, Codes
<1>3. CASE ~(o \in _SubmitCommand(t, Refuse(t, "memory")))
  <2> DEFINE h == FreeSlot(t.object)
             u == PutObject(t, h, SRK)
  <2>1. FreeSlots(t.object) # {} /\ o \in _SubmitCommand(t, Answer(u, h))
      BY <1>3 DEF TPM2X_CreateSRKKey, TPM2_CreatePrimary, PutObject
  <2>2. DOMAIN t.object = 1 .. MaxObjects /\ MaxObjects \in Nat
      BY SlotsAssumption DEF Chips, Objects
  <2>3. h \in Objects
      BY <2>1, <2>2, FreeSlotIsFree DEF Objects
  <2>4. SRK \in ObjectStates \cup {Nil} /\ SRK # Nil
      BY NilAssumption DEF SRK, ObjectStates
  <2> HIDE DEF h
  <2>5. /\ u \in Chips /\ Used(u.session) = Used(t.session)
        /\ Used(u.object) = Used(t.object) \cup {h}
      BY <2>3, <2>4, ObjectSet
  <2> HIDE DEF u
  <2>6. QED
      BY <2>1, <2>3, <2>5, Answered DEF Outcome, Obeyed, Ignored, Codes
<1>4. QED
    BY <1>2, <1>3

LEMMA LoadOutcome ==
    ASSUME NEW t \in Chips, NEW parent, NEW blob \in SealPolicies \cup {Nil, Garbage},
           NEW o \in TPM2_Load(t, parent, blob)
    PROVE  /\ Outcome(o) /\ Used(o.tpm.session) = Used(t.session)
           /\ o.rc = "success" =>
                o.out \in Objects /\ Used(o.tpm.object) = Used(t.object) \cup {o.out}
           /\ o.rc # "success" =>
                \/ o.tpm = t
                \/ o.fault = "lost" /\ \E h \in Objects : Used(o.tpm.object) = Used(t.object) \cup {h}
<1>1. "memory" \in Codes \ {"success"} /\ "integrity" \in Codes \ {"success"}
    BY DEF Codes
<1>2. CASE o \in _SubmitCommand(t, Refuse(t, "memory"))
    BY <1>1, <1>2, Refused DEF Outcome, Ignored, Codes
<1>3. CASE o \in _SubmitCommand(t, Refuse(t, "integrity"))
    BY <1>1, <1>3, Refused DEF Outcome, Ignored, Codes
<1>4. CASE /\ ~(o \in _SubmitCommand(t, Refuse(t, "memory")))
           /\ ~(o \in _SubmitCommand(t, Refuse(t, "integrity")))
  <2> DEFINE h == FreeSlot(t.object)
             u == PutObject(t, h, Sealed(blob))
  <2>1. /\ FreeSlots(t.object) # {} /\ blob # Garbage
        /\ o \in _SubmitCommand(t, Answer(u, h))
      BY <1>4 DEF TPM2_Load, PutObject
  <2>2. DOMAIN t.object = 1 .. MaxObjects /\ MaxObjects \in Nat
      BY SlotsAssumption DEF Chips, Objects
  <2>3. h \in Objects
      BY <2>1, <2>2, FreeSlotIsFree DEF Objects
  <2>4. Sealed(blob) \in ObjectStates \cup {Nil} /\ Sealed(blob) # Nil
      BY <2>1, NilAssumption DEF Sealed, ObjectStates
  <2> HIDE DEF h
  <2>5. /\ u \in Chips /\ Used(u.session) = Used(t.session)
        /\ Used(u.object) = Used(t.object) \cup {h}
      BY <2>3, <2>4, ObjectSet
  <2> HIDE DEF u
  <2>6. QED
      BY <2>1, <2>3, <2>5, Answered DEF Outcome, Obeyed, Ignored, Codes
<1>5. QED
    BY <1>2, <1>3, <1>4

LEMMA StartOutcome ==
    ASSUME NEW t \in Chips, NEW type \in {"trial", "policy"},
           NEW o \in TPM2_StartAuthSession(t, type)
    PROVE  /\ Outcome(o) /\ Used(o.tpm.object) = Used(t.object)
           /\ o.rc = "success" =>
                /\ o.out \in Sessions /\ o.tpm.session[o.out] # Nil
                /\ Used(o.tpm.session) = Used(t.session) \cup {o.out}
           /\ o.rc # "success" =>
                \/ o.tpm = t
                \/ /\ o.fault = "lost"
                   /\ \E s \in Sessions : Used(o.tpm.session) = Used(t.session) \cup {s}
<1>1. "memory" \in Codes \ {"success"}
    BY DEF Codes
<1>2. CASE o \in _SubmitCommand(t, Refuse(t, "memory"))
    BY <1>1, <1>2, Refused DEF Outcome, Ignored, Codes
<1>3. CASE ~(o \in _SubmitCommand(t, Refuse(t, "memory")))
  <2> DEFINE s == FreeSlot(t.session)
             new == [type |-> type, policy |-> Policy(FALSE, Nil)]
             u == PutSession(t, s, new)
  <2>1. FreeSlots(t.session) # {} /\ o \in _SubmitCommand(t, Answer(u, s))
      BY <1>3 DEF TPM2_StartAuthSession, PutSession
  <2>2. DOMAIN t.session = 1 .. MaxSessions /\ MaxSessions \in Nat
      BY SlotsAssumption DEF Chips, Sessions
  <2>3. s \in Sessions
      BY <2>1, <2>2, FreeSlotIsFree DEF Sessions
  <2>4. new \in SessionStates \cup {Nil} /\ new # Nil
    <3>1. Policy(FALSE, Nil) \in Policies
        BY DEF Policy, Policies
    <3>2. new \in SessionStates
        BY <3>1 DEF SessionStates
    <3>3. QED
        BY <3>2, NilAssumption
  <2> HIDE DEF s, new
  <2>5. /\ u \in Chips /\ Used(u.object) = Used(t.object) /\ u.session[s] # Nil
        /\ Used(u.session) = Used(t.session) \cup {s}
      BY <2>3, <2>4, SessionSet
  <2> HIDE DEF u
  <2>6. QED
      BY <2>1, <2>3, <2>5, Answered DEF Outcome, Obeyed, Ignored, Codes
<1>4. QED
    BY <1>2, <1>3

\* Commands that work on an open session.
LEMMA PasswordOutcome ==
    ASSUME NEW t \in Chips, NEW s \in Sessions, t.session[s] # Nil,
           NEW o \in TPM2_PolicyPassword(t, s)
    PROVE  Outcome(o) /\ Keeps(t, o.tpm) /\ o.tpm.session[s] # Nil
<1> DEFINE x == [t.session[s] EXCEPT !.policy = [t.session[s].policy EXCEPT !.password = TRUE]]
           u == PutSession(t, s, x)
<1>1. t.session[s] \in SessionStates /\ s \in Used(t.session)
    BY DEF Chips, Used, FreeSlots
<1>2. x \in SessionStates
    BY <1>1 DEF SessionStates, Policies
<1>3. [t EXCEPT !.session[s].policy.password = TRUE] = u
    BY DEF PutSession
<1>4. o \in _SubmitCommand(t, Answer(u, Nil))
    BY <1>3 DEF TPM2_PolicyPassword
<1> HIDE DEF x
<1>5. u \in Chips /\ Keeps(t, u) /\ u.session[s] # Nil
  <2>1. x \in SessionStates \cup {Nil} /\ x # Nil
      BY <1>2, NilAssumption
  <2>2. /\ u \in Chips /\ u.session[s] = x /\ Used(u.object) = Used(t.object)
        /\ Used(u.session) = Used(t.session) \cup {s}
      BY <2>1, SessionSet
  <2>3. QED
      BY <1>1, <2>1, <2>2 DEF Keeps
<1> HIDE DEF u
<1>6. Keeps(t, t)
    BY DEF Keeps
<1>7. QED
    BY <1>4, <1>5, <1>6, Answered DEF Outcome, Obeyed, Ignored, Codes

LEMMA PolicyPCROutcome ==
    ASSUME NEW t \in Chips, NEW s \in Sessions, t.session[s] # Nil,
           NEW bank, NEW pcrs \in Selections, NEW o \in TPM2_PolicyPCR(t, s, bank, pcrs)
    PROVE  /\ Outcome(o) /\ Keeps(t, o.tpm) /\ o.tpm.session[s] # Nil
           /\ o.rc = "success" => o.tpm.session[s].policy \in SealPolicies
<1>1. "value" \in Codes \ {"success"} /\ Keeps(t, t)
    BY DEF Codes, Keeps
<1>2. CASE o \in _SubmitCommand(t, Refuse(t, "value"))
    BY <1>1, <1>2, Refused DEF Outcome, Ignored, Codes
<1>3. CASE ~(o \in _SubmitCommand(t, Refuse(t, "value")))
  <2> DEFINE x == [t.session[s] EXCEPT !.policy = [t.session[s].policy EXCEPT !.pcrs = pcrs]]
             u == PutSession(t, s, x)
  <2>1. t.session[s] \in SessionStates /\ s \in Used(t.session)
      BY DEF Chips, Used, FreeSlots
  <2>2. x \in SessionStates /\ x.policy \in SealPolicies
      BY <2>1 DEF SessionStates, Policies, SealPolicies
  <2>3. [t EXCEPT !.session[s].policy.pcrs = pcrs] = u
      BY DEF PutSession
  <2>4. o \in _SubmitCommand(t, Answer(u, Nil))
      BY <1>3, <2>3 DEF TPM2_PolicyPCR
  <2> HIDE DEF x
  <2>5. u \in Chips /\ Keeps(t, u) /\ u.session[s] = x /\ x # Nil
    <3>1. x \in SessionStates \cup {Nil} /\ x # Nil
        BY <2>2, NilAssumption
    <3>2. /\ u \in Chips /\ u.session[s] = x /\ Used(u.object) = Used(t.object)
          /\ Used(u.session) = Used(t.session) \cup {s}
        BY <3>1, SessionSet
    <3>3. QED
        BY <2>1, <3>1, <3>2 DEF Keeps
  <2> HIDE DEF u
  <2>6. QED
      BY <1>1, <2>2, <2>4, <2>5, Answered DEF Outcome, Obeyed, Ignored, Codes
<1>4. QED
    BY <1>2, <1>3

\* Commands that release a slot: the chip obeys, or there was nothing to
\* release, or the request was not sent.
LEMMA UnsealOutcome ==
    ASSUME NEW t \in Chips, NEW h, NEW s \in Sessions, NEW o \in TPM2_Unseal(t, h, s)
    PROVE  /\ Outcome(o) /\ Used(o.tpm.object) = Used(t.object)
           /\ Used(o.tpm.session) \subseteq Used(t.session)
           /\ o.rc = "success" => o.out = "keys" /\ s \notin Used(o.tpm.session)
<1>1. "policy" \in Codes \ {"success"}
    BY DEF Codes
<1>2. CASE o \in _SubmitCommand(t, Refuse(t, "policy"))
    BY <1>1, <1>2, Refused DEF Outcome, Ignored, Codes
<1>3. CASE ~(o \in _SubmitCommand(t, Refuse(t, "policy")))
  <2> DEFINE u == PutSession(t, s, Nil)
  <2>1. o \in _SubmitCommand(t, Answer(u, "keys"))
      BY <1>3 DEF TPM2_Unseal, PutSession
  <2>2. /\ u \in Chips /\ Used(u.object) = Used(t.object)
        /\ Used(u.session) = Used(t.session) \ {s}
      BY SessionSet
  <2> HIDE DEF u
  <2>3. QED
      BY <2>1, <2>2, Answered DEF Outcome, Obeyed, Ignored, Codes
<1>4. QED
    BY <1>2, <1>3

LEMMA FlushSessionOutcome ==
    ASSUME NEW t \in Chips, NEW s \in Sessions, NEW o \in TPM2_FlushContext(t, "session", s)
    PROVE  /\ Outcome(o) /\ Used(o.tpm.object) = Used(t.object)
           /\ IF o.fault = "unsent" THEN o.tpm = t
              ELSE Used(o.tpm.session) = Used(t.session) \ {s}
<1>1. "handle" \in Codes \ {"success"}
    BY DEF Codes
<1>2. CASE t.session[s] = Nil
  <2>1. o \in _SubmitCommand(t, Refuse(t, "handle"))
      BY <1>2 DEF TPM2_FlushContext
  <2>2. Used(t.session) = Used(t.session) \ {s}
      BY <1>2 DEF Used, FreeSlots, Chips
  <2>3. QED
      BY <1>1, <2>1, <2>2, Refused DEF Outcome, Ignored, Codes
<1>3. CASE t.session[s] # Nil
  <2> DEFINE u == PutSession(t, s, Nil)
  <2>1. o \in _SubmitCommand(t, Answer(u, Nil))
      BY <1>3 DEF TPM2_FlushContext, PutSession
  <2>2. /\ u \in Chips /\ Used(u.object) = Used(t.object)
        /\ Used(u.session) = Used(t.session) \ {s}
      BY SessionSet
  <2> HIDE DEF u
  <2>3. QED
      BY <2>1, <2>2, Answered DEF Outcome, Obeyed, Ignored, Codes
<1>4. QED
    BY <1>2, <1>3

LEMMA FlushObjectOutcome ==
    ASSUME NEW t \in Chips, NEW h \in Objects, NEW o \in TPM2_FlushContext(t, "object", h)
    PROVE  /\ Outcome(o) /\ Used(o.tpm.session) = Used(t.session)
           /\ IF o.fault = "unsent" THEN o.tpm = t
              ELSE Used(o.tpm.object) = Used(t.object) \ {h}
<1>1. "handle" \in Codes \ {"success"}
    BY DEF Codes
<1>2. CASE t.object[h] = Nil
  <2>1. o \in _SubmitCommand(t, Refuse(t, "handle"))
      BY <1>2 DEF TPM2_FlushContext
  <2>2. Used(t.object) = Used(t.object) \ {h}
      BY <1>2 DEF Used, FreeSlots, Chips
  <2>3. QED
      BY <1>1, <2>1, <2>2, Refused DEF Outcome, Ignored, Codes
<1>3. CASE t.object[h] # Nil
  <2> DEFINE u == PutObject(t, h, Nil)
  <2>1. o \in _SubmitCommand(t, Answer(u, Nil))
      BY <1>3 DEF TPM2_FlushContext, PutObject
  <2>2. /\ u \in Chips /\ Used(u.session) = Used(t.session)
        /\ Used(u.object) = Used(t.object) \ {h}
      BY ObjectSet
  <2> HIDE DEF u
  <2>3. QED
      BY <2>1, <2>2, Answered DEF Outcome, Obeyed, Ignored, Codes
<1>4. QED
    BY <1>2, <1>3

-----------------------------------------------------------------------------
(* What is common to all steps.                                            *)

\* What every step of a client changes, but its frame and its place.
MachineOK ==
    /\ tpm \in Chips /\ nv \in Variables /\ phase \in {"loader", "os"}
    /\ file \in SealPolicies \cup {Nil, Garbage}
    /\ faults \in 0 .. MaxFaults /\ runs \in 0 .. MaxRuns
    /\ orphans \in Nat

LEMMA Counted ==
    ASSUME MachineOK, NEW o, Outcome(o), Returns(o)
    PROVE  /\ tpm' \in Chips /\ faults' \in 0 .. MaxFaults
           /\ orphans' \in Nat /\ orphans' >= orphans
    BY ClientsAssumption DEF MachineOK, Outcome, Returns

LEMMA Returned ==
    ASSUME MachineOK, NEW o, Outcome(o), Returns(o), Keep
    PROVE  MachineOK' /\ orphans' >= orphans
    BY Counted DEF MachineOK, Keep

LEMMA LocalStep ==
    ASSUME MachineOK, Local \/ Fault, Keep
    PROVE  MachineOK' /\ orphans' >= orphans /\ tpm' = tpm
    BY ClientsAssumption DEF MachineOK, Local, Fault, Keep

LEMMA LeftFinite ==
    ASSUME TypeOK
    PROVE  IsFiniteSet(SessionsLeft) /\ IsFiniteSet(ObjectsLeft)
<1>1. SessionsLeft \subseteq 1 .. MaxSessions /\ ObjectsLeft \subseteq 1 .. MaxObjects
    BY DEF TypeOK, Chips, Used, SessionsLeft, ObjectsLeft, Sessions, Objects
<1>2. IsFiniteSet(1 .. MaxSessions) /\ IsFiniteSet(1 .. MaxObjects)
    BY FS_Interval, SlotsAssumption
<1>3. QED
    BY <1>1, <1>2, FS_Subset

\* Nothing more is left than before.
LEMMA AccountKept ==
    ASSUME TypeOK, Accounted, orphans' \in Nat, orphans' >= orphans,
           SessionsLeft' \subseteq SessionsLeft, ObjectsLeft' \subseteq ObjectsLeft
    PROVE  Accounted'
<1>1. IsFiniteSet(SessionsLeft) /\ IsFiniteSet(ObjectsLeft)
    BY LeftFinite
<1>2. /\ Cardinality(SessionsLeft') <= Cardinality(SessionsLeft)
      /\ Cardinality(ObjectsLeft') <= Cardinality(ObjectsLeft)
      /\ Cardinality(SessionsLeft') \in Nat /\ Cardinality(ObjectsLeft') \in Nat
      /\ Cardinality(SessionsLeft) \in Nat /\ Cardinality(ObjectsLeft) \in Nat
    BY <1>1, FS_Subset, FS_CardinalityType
<1>3. QED
    BY <1>2 DEF Accounted, TypeOK

\* One session or one object more is left, and counted.
LEMMA AccountSession ==
    ASSUME TypeOK, Accounted, orphans' = orphans + 1, NEW x,
           SessionsLeft' \subseteq SessionsLeft \cup {x}, ObjectsLeft' \subseteq ObjectsLeft
    PROVE  Accounted'
<1>1. IsFiniteSet(SessionsLeft) /\ IsFiniteSet(ObjectsLeft)
    BY LeftFinite
<1>2. /\ IsFiniteSet(SessionsLeft \cup {x})
      /\ Cardinality(SessionsLeft \cup {x}) <= Cardinality(SessionsLeft) + 1
  <2>1. IsFiniteSet(SessionsLeft \cup {x})
      BY <1>1, FS_AddElement
  <2>2. \/ Cardinality(SessionsLeft \cup {x}) = Cardinality(SessionsLeft)
        \/ Cardinality(SessionsLeft \cup {x}) = Cardinality(SessionsLeft) + 1
      BY <1>1, FS_AddElement
  <2>3. QED
      BY <1>1, <2>1, <2>2, FS_CardinalityType
<1>3. /\ Cardinality(SessionsLeft') <= Cardinality(SessionsLeft \cup {x})
      /\ Cardinality(ObjectsLeft') <= Cardinality(ObjectsLeft)
    BY <1>1, <1>2, FS_Subset
<1>4. /\ Cardinality(SessionsLeft') \in Nat /\ Cardinality(ObjectsLeft') \in Nat
      /\ Cardinality(SessionsLeft) \in Nat /\ Cardinality(ObjectsLeft) \in Nat
      /\ Cardinality(SessionsLeft \cup {x}) \in Nat
    BY <1>1, <1>2, FS_Subset, FS_CardinalityType
<1>5. QED
    BY <1>2, <1>3, <1>4 DEF Accounted, TypeOK

LEMMA AccountObject ==
    ASSUME TypeOK, Accounted, orphans' = orphans + 1, NEW x,
           SessionsLeft' \subseteq SessionsLeft, ObjectsLeft' \subseteq ObjectsLeft \cup {x}
    PROVE  Accounted'
<1>1. IsFiniteSet(SessionsLeft) /\ IsFiniteSet(ObjectsLeft)
    BY LeftFinite
<1>2. /\ IsFiniteSet(ObjectsLeft \cup {x})
      /\ Cardinality(ObjectsLeft \cup {x}) <= Cardinality(ObjectsLeft) + 1
  <2>1. IsFiniteSet(ObjectsLeft \cup {x})
      BY <1>1, FS_AddElement
  <2>2. \/ Cardinality(ObjectsLeft \cup {x}) = Cardinality(ObjectsLeft)
        \/ Cardinality(ObjectsLeft \cup {x}) = Cardinality(ObjectsLeft) + 1
      BY <1>1, FS_AddElement
  <2>3. QED
      BY <1>1, <2>1, <2>2, FS_CardinalityType
<1>3. /\ Cardinality(ObjectsLeft') <= Cardinality(ObjectsLeft \cup {x})
      /\ Cardinality(SessionsLeft') <= Cardinality(SessionsLeft)
    BY <1>1, <1>2, FS_Subset
<1>4. /\ Cardinality(SessionsLeft') \in Nat /\ Cardinality(ObjectsLeft') \in Nat
      /\ Cardinality(SessionsLeft) \in Nat /\ Cardinality(ObjectsLeft) \in Nat
      /\ Cardinality(ObjectsLeft \cup {x}) \in Nat
    BY <1>1, <1>2, FS_Subset, FS_CardinalityType
<1>5. QED
    BY <1>2, <1>3, <1>4 DEF Accounted, TypeOK

\* _vars at the end of a client is the static table again.
LEMMA Released ==
    /\ StaticVars # VarsWithEntry
    /\ _ReleaseLSVMLoadPolicy(StaticVars) = StaticVars
    /\ _ReleaseLSVMLoadPolicy(VarsWithEntry) = StaticVars
<1>0. StaticVars[6].path = <<"LINUX_SCENARIO_VERSION", "">>
    BY DEF StaticVars, Var
<1>1. Len(StaticVars) = 6
    BY DEF StaticVars
<1> DEFINE x == Var("db", "Entry", "entry")
           S == {Var("SecureBoot", "False", "00"), Var("SecureBoot", "True", "01"),
                 Var("SEPARATOR", "", "00000000"),
                 Var("ALLOW_PREBOOT_SEALING", "", "10000000"),
                 Var("LINUX_SCENARIO_ID", "", "0200F000"),
                 Var("LINUX_SCENARIO_VERSION", "", "01000000"), x}
<1>2. StaticVars \in Seq(S)
    BY DEF StaticVars
<1>3. x.path = <<"db", "Entry">> /\ x \in S
    BY DEF Var
<1> HIDE DEF S
<1> HIDE DEF x, S
<1>4. VarsWithEntry = Append(StaticVars, x)
    BY DEF VarsWithEntry, x
<1>5. /\ Len(VarsWithEntry) = 7 /\ VarsWithEntry[7] = x
      /\ VarsWithEntry \in Seq(S)
      /\ \A i \in 1 .. 6 : VarsWithEntry[i] = StaticVars[i]
  <2>1. /\ Append(StaticVars, x) \in Seq(S)
        /\ Len(Append(StaticVars, x)) = Len(StaticVars) + 1
        /\ \A i \in 1 .. Len(StaticVars) : Append(StaticVars, x)[i] = StaticVars[i]
        /\ Append(StaticVars, x)[Len(StaticVars) + 1] = x
      BY <1>2, <1>3, AppendProperties
  <2>2. QED
      BY <1>1, <1>4, <2>1
<1>6. SubSeq(VarsWithEntry, 1, 6) = StaticVars
  <2>1. /\ SubSeq(VarsWithEntry, 1, 6) \in Seq(S) /\ Len(SubSeq(VarsWithEntry, 1, 6)) = 6
        /\ \A i \in 1 .. 6 : SubSeq(VarsWithEntry, 1, 6)[i] = VarsWithEntry[i]
    <3> DEFINE v == VarsWithEntry
    <3>1. v \in Seq(S) /\ Len(v) = 7
        BY <1>5
    <3> HIDE DEF v
    <3>2. \A i \in 1 .. 6 : v[i] \in S
      <4>1. \A i \in 1 .. 6 : i \in 1 .. Len(v)
          BY <3>1
      <4>2. QED
          BY <3>1, <4>1, ElementOfSeq
    <3>3. SubSeq(v, 1, 6) \in Seq(S)
        BY <3>2, SubSeqProperties
    <3>4. Len(SubSeq(v, 1, 6)) = 6 /\ \A i \in 1 .. 6 : SubSeq(v, 1, 6)[i] = v[i]
        BY <3>1
    <3>5. QED
        BY <3>3, <3>4 DEF v
  <2>2. QED
      BY <1>1, <1>2, <1>5, <2>1, SeqEqual
<1>7. StaticVars[6].path # <<"db", "Entry">>
  <2>1. <<"LINUX_SCENARIO_VERSION", "">> # <<"db", "Entry">>
      OBVIOUS
  <2>2. QED
      BY <1>0, <2>1, Zenon
<1>8. _ReleaseLSVMLoadPolicy(StaticVars) = StaticVars
    BY <1>1, <1>7 DEF _ReleaseLSVMLoadPolicy
<1>9. _ReleaseLSVMLoadPolicy(VarsWithEntry) = StaticVars
    BY <1>3, <1>5, <1>6 DEF _ReleaseLSVMLoadPolicy
<1>10. QED
  <2>1. StaticVars # VarsWithEntry
    <3>1. Len(VarsWithEntry) = 7
        BY <1>5, Zenon
    <3>2. 6 # 7
        OBVIOUS
    <3>3. QED
        BY <1>1, <3>1, <3>2, Zenon
  <2>2. QED
      BY <1>8, <1>9, <2>1

-----------------------------------------------------------------------------
(* Every step keeps ClientsIInv.                                           *)

USE DEF PolicySealers, Openers, PolicySteps, SealSteps, UnsealSteps, CapSteps, LoaderSteps,
        SessionHeld, BeforeSeal, Sealers, Unsealers, Clients

\* What a step leaves alone in the frame.
SameHandles == f'.session = f.session /\ f'.object = f.object /\ f'.srk = f.srk
SameSeal ==
    /\ f'.client = f.client /\ f'.built = f.built /\ f'.rc = f.rc
    /\ f'.blob = f.blob /\ f'.status = f.status

\* What ClientsIInv says of the client, without the chip.
Program == f \in Frames /\ Routing /\ Handles /\ VarsKept /\ BlobKept

LEMMA Parts ==
    ASSUME ClientsIInv
    PROVE  /\ MachineOK /\ Program /\ SessionOpen /\ Accounted
           /\ f \in Frames /\ tpm \in Chips
    BY DEF ClientsIInv, MachineOK, Program, TypeOK

LEMMA Whole ==
    ASSUME MachineOK', Program', SessionOpen', Accounted'
    PROVE  ClientsIInv'
    BY DEF ClientsIInv, MachineOK, Program, TypeOK

\* The chip has what it had and the client what it held.
LEMMA AccountSame ==
    ASSUME ClientsIInv, MachineOK', orphans' >= orphans, SameHandles,
           Used(tpm'.session) \subseteq Used(tpm.session),
           Used(tpm'.object) \subseteq Used(tpm.object)
    PROVE  Accounted'
    BY AccountKept DEF ClientsIInv, SessionsLeft, ObjectsLeft, SameHandles, MachineOK

\* A client that holds nothing exits; if it seals, it has not sealed anything.
LEMMA Exits ==
    ASSUME ClientsIInv, NEW g \in Frames, Exit(g), file' = file,
           g.session = f.session /\ g.object = f.object /\ g.srk = f.srk,
           g.client = f.client /\ g.built = f.built /\ g.blob = f.blob,
           g.status = f.status \/ f.client \notin Sealers,
           pc \in {"lockreset", "lockout", "predict", "srk", "scenario", "cap.before",
                   "cap.after", "capall.read", "capall.check"}
             \/ (pc \in CapSteps /\ f.client \notin Unsealers)
    PROVE  Program' /\ SessionOpen' /\ SameHandles
<1>1. pc' = "idle" /\ f' = [g EXCEPT !.vars = StaticVars]
    BY Released DEF Exit, Goto, Set, Frames
<1>2. /\ f' \in Frames /\ f'.vars = StaticVars /\ f'.client = f.client
      /\ f'.built = f.built /\ f'.blob = f.blob /\ f'.status = g.status
      /\ SameHandles
    BY <1>1 DEF Frames, SameHandles
<1>3. Routing' /\ VarsKept' /\ SessionOpen'
    BY <1>1, <1>2 DEF Routing, VarsKept, SessionOpen
<1>4. Handles'
    BY <1>1, <1>2 DEF ClientsIInv, Handles, Routing, SameHandles
<1>5. BlobKept'
    BY <1>1, <1>2 DEF ClientsIInv, BlobKept, Routing
<1>6. QED
    BY <1>2, <1>3, <1>4, <1>5 DEF Program

LEMMA LockResetStep ==
    ASSUME ClientsIInv, LockReset
    PROVE  ClientsIInv'
<1> USE Parts
<1>1. PICK o \in TPM2X_SetDictionaryAttackLockReset(tpm) :
        /\ pc = "lockreset" /\ Returns(o) /\ Keep
        /\ IF o.rc = "success" THEN Goto("lockout") /\ Set(f) ELSE Exit(f)
    BY DEF LockReset, Call, Is
<1>2. Outcome(o) /\ tpm' = tpm
    BY <1>1, Asking DEF Asked, Returns
<1>3. MachineOK' /\ orphans' >= orphans
    BY <1>1, <1>2, Returned
<1>4. CASE pc' = "lockout" /\ f' = f
  <2>1. Program' /\ SessionOpen' /\ SameHandles
      BY <1>1, <1>4 DEF Program, Routing, Handles, VarsKept, BlobKept, SessionOpen,
                        SameHandles, Keep
  <2>2. QED
      BY <1>2, <1>3, <2>1, AccountSame, Whole
<1>5. CASE Exit(f)
    BY <1>1, <1>2, <1>3, <1>5, Exits, AccountSame, Whole DEF Keep
<1>6. QED
    BY <1>1, <1>4, <1>5 DEF Goto, Set

LEMMA LockoutStep ==
    ASSUME ClientsIInv, Lockout
    PROVE  ClientsIInv'
<1> USE Parts
<1>1. PICK o \in TPM2X_SetLockoutParams(tpm) :
        /\ pc = "lockout" /\ Returns(o) /\ Keep
        /\ IF o.rc = "success" THEN Goto(AfterLockout) /\ Set(f) ELSE Exit(f)
    BY DEF Lockout, Call, Is
<1>2. Outcome(o) /\ tpm'.session = tpm.session /\ tpm'.object = tpm.object
    BY <1>1, LockoutOutcome DEF Extended, Returns
<1>3. MachineOK' /\ orphans' >= orphans
    BY <1>1, <1>2, Returned
<1>4. CASE pc' = AfterLockout /\ f' = f
  <2>1. f.client \in Clients
      BY DEF Frames
  <2>2. \/ pc' = "scenario" /\ f.client = "lsvmload"
        \/ pc' = "predict" /\ f.client \in PolicySealers
        \/ pc' = "cap.sha1" /\ f.client = "cappcr11"
        \/ pc' = "capall.read" /\ f.client = "capall"
        \/ pc' = "srk" /\ f.client \in Unsealers \cup {"seal", "srk"}
      BY <1>4, <2>1 DEF AfterLockout
  <2>3. Routing'
    <3>1. f'.client = f.client /\ f'.i \in 0 .. 2
        BY <1>1, <1>4 DEF Program, Routing
    <3>2. QED
        BY <2>2, <3>1 DEF Routing
  <2>4. Handles' /\ VarsKept' /\ SessionOpen' /\ SameHandles
      BY <1>1, <1>4, <2>2 DEF Program, Handles, VarsKept, SessionOpen, SameHandles
  <2>5. BlobKept'
      BY <1>1, <1>4, <2>2 DEF Program, BlobKept, Keep
  <2>6. QED
      BY <1>2, <1>3, <1>4, <2>3, <2>4, <2>5, AccountSame, Whole DEF Program
<1>5. CASE Exit(f)
    BY <1>1, <1>2, <1>3, <1>5, Exits, AccountSame, Whole DEF Keep
<1>6. QED
    BY <1>1, <1>4, <1>5 DEF Goto, Set

LEMMA NilNotUsed ==
    ASSUME NEW t \in Chips
    PROVE  Nil \notin Used(t.session) /\ Nil \notin Used(t.object)
    BY NilAssumption DEF Chips, Used

LEMMA CreateSRKStep ==
    ASSUME ClientsIInv, CreateSRK
    PROVE  ClientsIInv'
<1> USE Parts
<1>1. PICK o \in TPM2X_CreateSRKKey(tpm) :
        /\ pc = "srk" /\ Returns(o) /\ Keep
        /\ IF o.rc = "success"
           THEN pc' = AfterSRK /\ f' = [f EXCEPT !.srk = o.out, !.parent = o.out]
           ELSE NoSRK(f)
    BY DEF CreateSRK, Call, Is, Goto, Set
<1>2. /\ Outcome(o) /\ tpm' = o.tpm /\ Used(tpm'.session) = Used(tpm.session)
      /\ o.rc = "success" =>
           o.out \in Objects /\ Used(tpm'.object) = Used(tpm.object) \cup {o.out}
      /\ o.rc # "success" =>
           \/ tpm' = tpm
           \/ o.fault = "lost" /\ \E h \in Objects : Used(tpm'.object) = Used(tpm.object) \cup {h}
    BY <1>1, CreateSRKOutcome DEF Returns
<1>3. MachineOK' /\ orphans' >= orphans /\ (o.fault = "lost" => orphans' = orphans + 1)
    BY <1>1, <1>2, Returned DEF Returns, Creates
<1>4. /\ f.session = Nil /\ f.object = Nil /\ f.srk = Nil /\ f.client \in Sealers \cup Openers \cup {"srk"}
      /\ Nil \notin Objects
    BY <1>1, NilAssumption DEF Program, Handles, Routing
<1>5. CASE o.rc = "success"
  <2>1. /\ f' \in Frames /\ f'.srk \in Objects /\ f'.srk = o.out
        /\ f'.session = f.session /\ f'.object = f.object /\ SameSeal
        /\ f'.vars = f.vars /\ f'.proc = f.proc
    <3>1. f' = [f EXCEPT !.srk = o.out, !.parent = o.out] /\ o.out \in Objects
        BY <1>1, <1>2, <1>5
    <3>2. QED
        BY <3>1 DEF Frames, SameSeal
  <2>2. \/ pc' = "flushsrk" /\ f.client = "srk"
        \/ pc' = "load" /\ f.client \in Unsealers
        \/ pc' = "unseal.session" /\ f.client = "lsvmload"
        \/ pc' = "input" /\ f.client = "seal"
        \/ pc' = "seal.session" /\ f.client \in PolicySealers
      BY <1>1, <1>4, <1>5 DEF AfterSRK
  <2>3. Routing' /\ SessionOpen'
      BY <2>1, <2>2 DEF Routing, SameSeal, SessionOpen
  <2>4. Handles'
      BY <1>4, <2>1, <2>2 DEF Handles, SameSeal
  <2>5. VarsKept' /\ BlobKept'
      BY <1>1, <2>1, <2>2 DEF Program, VarsKept, BlobKept, SameSeal, Keep
  <2>6. Accounted'
    <3>1. SessionsLeft' \subseteq SessionsLeft /\ ObjectsLeft' \subseteq ObjectsLeft
        BY <1>2, <1>4, <1>5, <2>1, NilNotUsed DEF SessionsLeft, ObjectsLeft
    <3>2. QED
        BY <1>3, <3>1, AccountKept DEF ClientsIInv, MachineOK
  <2>7. QED
      BY <1>3, <2>1, <2>3, <2>4, <2>5, <2>6, Whole DEF Program
<1>6. CASE o.rc # "success"
  <2>1. /\ Program' /\ SessionOpen' /\ f'.session = f.session /\ f'.object = f.object
        /\ f'.srk \in Objects \cup {Nil}
    <3>1. CASE f.client = "lsvmload"
      <4>1. PICK h \in Objects : pc' = "flushsrk" /\ f' = [f EXCEPT !.srk = h]
          BY <1>1, <1>6, <3>1 DEF NoSRK, Goto, Set
      <4>2. /\ f' \in Frames /\ f'.srk = h /\ f'.session = f.session /\ f'.object = f.object
            /\ SameSeal /\ f'.vars = f.vars
          BY <4>1 DEF Frames, SameSeal
      <4>3. QED
          BY <1>1, <1>4, <3>1, <4>1, <4>2
             DEF Program, Routing, Handles, VarsKept, BlobKept, SessionOpen, SameSeal
    <3>2. CASE f.client \in Unsealers
      <4>1. pc' = "cap.sha1" /\ f' = f
          BY <1>1, <1>6, <3>2 DEF NoSRK, Goto, Set
      <4>2. QED
          BY <1>1, <1>4, <3>2, <4>1
             DEF Program, Routing, Handles, VarsKept, BlobKept, SessionOpen
    <3>3. CASE f.client \notin Openers
      <4>1. Exit(f)
          BY <1>1, <1>6, <3>3 DEF NoSRK
      <4>2. QED
          BY <1>1, <1>4, <4>1, Exits DEF Keep, SameHandles
    <3>4. QED
        BY <3>1, <3>2, <3>3
  <2>2. SessionsLeft' \subseteq SessionsLeft
      BY <1>2, <2>1 DEF SessionsLeft
  <2>3. CASE tpm' = tpm
    <3>1. ObjectsLeft' \subseteq ObjectsLeft
        BY <1>4, <2>1, <2>3, NilNotUsed DEF ObjectsLeft
    <3>2. QED
        BY <1>3, <2>1, <2>2, <3>1, AccountKept, Whole DEF ClientsIInv, MachineOK
  <2>4. ASSUME NEW h \in Objects, Used(tpm'.object) = Used(tpm.object) \cup {h}, o.fault = "lost"
        PROVE  ClientsIInv'
    <3>1. ObjectsLeft' \subseteq ObjectsLeft \cup {h}
        BY <1>4, <2>1, <2>4, NilNotUsed DEF ObjectsLeft
    <3>2. QED
        BY <1>3, <2>1, <2>2, <2>4, <3>1, AccountObject, Whole DEF ClientsIInv
  <2>5. QED
      BY <1>2, <1>6, <2>3, <2>4
<1>7. QED
    BY <1>5, <1>6

LEMMA FlushSRKStep ==
    ASSUME ClientsIInv, FlushSRK
    PROVE  ClientsIInv'
<1> USE Parts
<1>1. /\ pc = "flushsrk" /\ pc' = AfterFlush
      /\ f.client \in Sealers => f.srk # Nil
      /\ f.client \in Sealers \cup Openers \cup {"srk"}
    BY DEF FlushSRK, Is, Goto, Program, Handles, Routing
<1>2. f.session = Nil /\ f.object = Nil
    BY <1>1 DEF Program, Handles
<1>3. \/ pc' = "split" /\ f.client = "lsvmload"
      \/ pc' = "put" /\ f.client \in PolicySealers /\ f.status = "sealed"
      \/ pc' = "idle" /\ f.client # "lsvmload"
    BY <1>1 DEF AfterFlush
<1>4. CASE f.srk = Nil
  <2>1. f' = f /\ Local /\ Keep
      BY <1>4 DEF FlushSRK, Set
  <2>2. f.vars = StaticVars
      BY <1>1, <1>4 DEF Program, VarsKept
  <2>3. Program' /\ SessionOpen' /\ SameHandles
      BY <1>1, <1>2, <1>3, <1>4, <2>1, <2>2
         DEF Program, Routing, Handles, VarsKept, BlobKept, SessionOpen, SameHandles, Keep
  <2>4. QED
      BY <2>1, <2>3, LocalStep, AccountSame, Whole
<1>5. CASE f.srk # Nil
  <2>1. PICK o \in TPM2_FlushContext(tpm, "object", f.srk) : Returns(o) /\ Keep
      BY <1>5 DEF FlushSRK, Call
  <2>2. f' = [f EXCEPT !.srk = Nil, !.vars = StaticVars] /\ f.srk \in Objects
      BY <1>5, Released DEF FlushSRK, Set, Frames
  <2>3. /\ Outcome(o) /\ tpm' = o.tpm /\ Used(tpm'.session) = Used(tpm.session)
        /\ o.fault = "unsent" => tpm' = tpm
        /\ o.fault # "unsent" => Used(tpm'.object) = Used(tpm.object) \ {f.srk}
      BY <2>1, <2>2, FlushObjectOutcome DEF Returns
  <2>4. MachineOK' /\ orphans' >= orphans /\ (o.fault = "unsent" => orphans' = orphans + 1)
      BY <1>1, <2>1, <2>3, Returned DEF Returns, Flushes, Creates
  <2>5. /\ f' \in Frames /\ f'.srk = Nil /\ f'.vars = StaticVars
        /\ f'.session = f.session /\ f'.object = f.object /\ SameSeal
      BY <2>2 DEF Frames, SameSeal
  <2>6. Program' /\ SessionOpen'
      BY <1>1, <1>2, <1>3, <2>1, <2>5
         DEF Program, Routing, Handles, VarsKept, BlobKept, SessionOpen, SameSeal, Keep
  <2>7. SessionsLeft' \subseteq SessionsLeft
      BY <2>3, <2>5 DEF SessionsLeft
  <2>8. CASE o.fault = "unsent"
    <3>1. ObjectsLeft' \subseteq ObjectsLeft \cup {f.srk}
        BY <2>3, <2>5, <2>8 DEF ObjectsLeft
    <3>2. QED
        BY <2>4, <2>6, <2>7, <2>8, <3>1, AccountObject, Whole DEF ClientsIInv
  <2>9. CASE o.fault # "unsent"
    <3>1. ObjectsLeft' \subseteq ObjectsLeft
        BY <2>3, <2>5, <2>9 DEF ObjectsLeft
    <3>2. QED
        BY <2>4, <2>6, <2>7, <3>1, AccountKept, Whole DEF ClientsIInv, MachineOK
  <2>10. QED
      BY <2>8, <2>9
<1>6. QED
    BY <1>4, <1>5

\* TPM2X_BuildPolicy fails: the session is flushed next.
LEMMA PolicyFails ==
    ASSUME ClientsIInv, NEW rc \in Codes, pc \in PolicySteps, PolicyFailed(rc), file' = file
    PROVE  Program' /\ SessionOpen' /\ SameHandles
<1> USE Parts
<1>1. CASE f.proc = "seal"
  <2>1. pc' = "seal.flush" /\ f' = f /\ f.client \in Sealers
      BY <1>1 DEF PolicyFailed, Goto, Set, Program, Routing
  <2>2. Routing' /\ Handles' /\ VarsKept' /\ SessionOpen' /\ SameHandles
      BY <2>1 DEF Program, Routing, Handles, VarsKept, SessionOpen, SameHandles
  <2>3. BlobKept'
      BY <2>1 DEF Program, BlobKept
  <2>4. QED
      BY <2>1, <2>2, <2>3 DEF Program
<1>2. CASE f.proc # "seal"
  <2>1. pc' = "unseal.flush" /\ f' = [f EXCEPT !.rc = rc] /\ f.client \in Openers
      BY <1>2 DEF PolicyFailed, Goto, Set, Program, Routing
  <2>2. /\ f' \in Frames /\ SameHandles /\ f'.client = f.client /\ f'.vars = f.vars
      BY <2>1 DEF Frames, SameHandles
  <2>3. Routing' /\ Handles' /\ VarsKept' /\ BlobKept' /\ SessionOpen'
      BY <2>1, <2>2 DEF Program, Routing, Handles, VarsKept, BlobKept, SessionOpen, SameHandles
  <2>4. QED
      BY <2>2, <2>3 DEF Program
<1>3. QED
    BY <1>1, <1>2

LEMMA PolicyPasswordStep ==
    ASSUME ClientsIInv, PolicyPassword
    PROVE  ClientsIInv'
<1> USE Parts
<1>1. PICK o \in TPM2_PolicyPassword(tpm, f.session) :
        /\ pc = "policy.password" /\ Returns(o) /\ Keep
        /\ IF o.rc = "success"
           THEN pc' = (IF f.pcrs = Nil THEN "policy.read" ELSE "policy.pcr") /\ f' = f
           ELSE PolicyFailed(o.rc)
    BY DEF PolicyPassword, Call, Is, Goto, Set
<1>2. f.session \in Sessions /\ tpm.session[f.session] # Nil
    BY <1>1 DEF Program, Handles, SessionOpen, Frames
<1>3. /\ Outcome(o) /\ tpm' = o.tpm /\ tpm'.session[f.session] # Nil
      /\ Used(tpm'.session) = Used(tpm.session) /\ Used(tpm'.object) = Used(tpm.object)
    BY <1>1, <1>2, PasswordOutcome DEF Keeps, Returns
<1>4. MachineOK' /\ orphans' >= orphans
    BY <1>1, <1>3, Returned
<1>5. CASE o.rc = "success"
  <2>1. f' = f /\ (pc' = "policy.read" \/ (pc' = "policy.pcr" /\ f.pcrs # Nil))
      BY <1>1, <1>5
  <2>2. Routing' /\ VarsKept' /\ SessionOpen' /\ SameHandles
      BY <1>1, <1>3, <2>1 DEF Program, Routing, VarsKept, SessionOpen, SameHandles
  <2>3. Handles' /\ BlobKept'
      BY <1>1, <2>1 DEF Program, Handles, BlobKept, Keep
  <2>4. QED
      BY <1>3, <1>4, <2>1, <2>2, <2>3, AccountSame, Whole DEF Program
<1>6. CASE o.rc # "success"
    BY <1>1, <1>3, <1>4, <1>6, PolicyFails, AccountSame, Whole DEF Outcome, Keep
<1>7. QED
    BY <1>5, <1>6

LEMMA PolicyReadStep ==
    ASSUME ClientsIInv, PolicyRead
    PROVE  ClientsIInv'
<1> USE Parts
<1> DEFINE regs == [p \in Mask |-> tpm.pcr["SHA256"][p]]
<1>1. PICK o \in TPM2_PCR_Read(tpm, "SHA256", Mask) :
        /\ pc = "policy.read" /\ Returns(o) /\ Keep
        /\ IF o.rc = "success" THEN pc' = "policy.pcr" /\ f' = [f EXCEPT !.pcrs = o.out]
           ELSE PolicyFailed(o.rc)
    BY DEF PolicyRead, Call, Is, Goto, Set
<1>2. regs \in Selections /\ regs # Nil
  <2>1. tpm.pcr["SHA256"] \in [PCRs -> Seq(Digests)]
      BY DEF Chips, Registers, Banks
  <2>2. regs \in [Mask -> Seq(Digests)]
      BY <2>1 DEF Mask, PCRs
  <2>3. QED
      BY <2>2, NilAssumption DEF Selections
<1>3. Outcome(o) /\ tpm' = tpm /\ (o.rc = "success" => o.out = regs)
  <2>1. Asked(o, tpm, regs)
      BY <1>1, ReadOutcome
  <2>2. QED
      BY <1>1, <2>1 DEF Asked, Returns
<1> HIDE DEF regs
<1>4. MachineOK' /\ orphans' >= orphans
    BY <1>1, <1>3, Returned
<1>5. CASE o.rc = "success"
  <2>1. pc' = "policy.pcr" /\ f' = [f EXCEPT !.pcrs = regs]
      BY <1>1, <1>3, <1>5
  <2>2. /\ f' \in Frames /\ SameHandles /\ SameSeal /\ f'.pcrs # Nil
        /\ f'.vars = f.vars /\ f'.proc = f.proc
      BY <1>2, <2>1 DEF Frames, SameHandles, SameSeal
  <2>3. Routing' /\ VarsKept' /\ SessionOpen'
      BY <1>1, <1>3, <2>1, <2>2 DEF Program, Routing, VarsKept, SessionOpen, SameHandles, SameSeal
  <2>4. Handles' /\ BlobKept'
      BY <1>1, <2>1, <2>2 DEF Program, Handles, BlobKept, Keep, SameHandles, SameSeal
  <2>5. QED
      BY <1>3, <1>4, <2>2, <2>3, <2>4, AccountSame, Whole DEF Program
<1>6. CASE o.rc # "success"
    BY <1>1, <1>3, <1>4, <1>6, PolicyFails, AccountSame, Whole DEF Outcome, Keep
<1>7. QED
    BY <1>5, <1>6

LEMMA PolicyPCRStep ==
    ASSUME ClientsIInv, PolicyPCR
    PROVE  ClientsIInv'
<1> USE Parts
<1>1. PICK o \in TPM2_PolicyPCR(tpm, f.session, "SHA256", f.pcrs) :
        /\ pc = "policy.pcr" /\ Returns(o) /\ Keep
        /\ IF o.rc = "success"
           THEN /\ pc' = (IF f.proc = "seal" THEN "seal.digest" ELSE "unseal.load")
                /\ f' = [f EXCEPT !.built = TRUE]
           ELSE PolicyFailed(o.rc)
    BY DEF PolicyPCR, Call, Is, Goto, Set
<1>2. f.session \in Sessions /\ tpm.session[f.session] # Nil /\ f.pcrs \in Selections
    BY <1>1 DEF Program, Handles, SessionOpen, Frames
<1>3. /\ Outcome(o) /\ tpm' = o.tpm /\ tpm'.session[f.session] # Nil
      /\ Used(tpm'.session) = Used(tpm.session) /\ Used(tpm'.object) = Used(tpm.object)
      /\ o.rc = "success" => tpm'.session[f.session].policy \in SealPolicies
    BY <1>1, <1>2, PolicyPCROutcome DEF Keeps, Returns
<1>4. MachineOK' /\ orphans' >= orphans
    BY <1>1, <1>3, Returned
<1>5. CASE o.rc = "success"
  <2>1. /\ f' = [f EXCEPT !.built = TRUE]
        /\ \/ pc' = "seal.digest" /\ f.client \in Sealers
           \/ pc' = "unseal.load" /\ f.client \in Openers
      BY <1>1, <1>5 DEF Program, Routing
  <2>2. /\ f' \in Frames /\ SameHandles /\ f'.client = f.client /\ f'.status = f.status
        /\ f'.vars = f.vars
      BY <2>1 DEF Frames, SameHandles
  <2>3. Routing' /\ VarsKept' /\ SessionOpen'
      BY <1>1, <1>3, <1>5, <2>1, <2>2 DEF Program, Routing, VarsKept, SessionOpen, SameHandles
  <2>4. Handles' /\ BlobKept'
      BY <1>1, <2>1, <2>2 DEF Program, Handles, BlobKept, Keep, SameHandles
  <2>5. QED
      BY <1>3, <1>4, <2>2, <2>3, <2>4, AccountSame, Whole DEF Program
<1>6. CASE o.rc # "success"
    BY <1>1, <1>3, <1>4, <1>6, PolicyFails, AccountSame, Whole DEF Outcome, Keep
<1>7. QED
    BY <1>5, <1>6

LEMMA LoadInputStep ==
    ASSUME ClientsIInv, LoadInput
    PROVE  ClientsIInv'
<1> USE Parts
<1>1. /\ pc = "input" /\ f' = f /\ Keep /\ (Local \/ Fault)
      /\ pc' \in {"seal.session", "flushsrk"}
    BY DEF LoadInput, Is, Set, Goto
<1>2. MachineOK' /\ orphans' >= orphans /\ tpm' = tpm
    BY <1>1, LocalStep
<1>3. Routing' /\ VarsKept' /\ SessionOpen' /\ SameHandles
    BY <1>1 DEF Program, Routing, VarsKept, SessionOpen, SameHandles
<1>4. Handles' /\ BlobKept'
    BY <1>1 DEF Program, Routing, Handles, BlobKept, Keep
<1>5. QED
    BY <1>1, <1>2, <1>3, <1>4, AccountSame, Whole DEF Program

LEMMA SealSessionStep ==
    ASSUME ClientsIInv, SealSession
    PROVE  ClientsIInv'
<1> USE Parts
<1>1. PICK o \in TPM2X_StartAuthSession(tpm, TRUE) :
        /\ pc = "seal.session" /\ Returns(o) /\ Keep
        /\ IF o.rc = "success"
           THEN pc' = "policy.password" /\ f' = [f EXCEPT !.session = o.out, !.proc = "seal"]
           ELSE pc' = "sealed" /\ f' = [f EXCEPT !.rc = o.rc]
    BY DEF SealSession, Call, Is, Goto, Set
<1>2. /\ Outcome(o) /\ tpm' = o.tpm /\ Used(tpm'.object) = Used(tpm.object)
      /\ o.rc = "success" =>
           /\ o.out \in Sessions /\ tpm'.session[o.out] # Nil
           /\ Used(tpm'.session) = Used(tpm.session) \cup {o.out}
      /\ o.rc # "success" =>
           \/ tpm' = tpm
           \/ o.fault = "lost" /\ \E s \in Sessions : Used(tpm'.session) = Used(tpm.session) \cup {s}
  <2>1. o \in TPM2_StartAuthSession(tpm, "trial")
      BY <1>1 DEF TPM2X_StartAuthSession
  <2>2. tpm' = o.tpm
      BY <1>1 DEF Returns
  <2>3. QED
      BY <2>1, <2>2, StartOutcome
<1>3. MachineOK' /\ orphans' >= orphans /\ (o.fault = "lost" => orphans' = orphans + 1)
    BY <1>1, <1>2, Returned DEF Returns, Creates
<1>4. /\ f.session = Nil /\ f.object = Nil /\ f.srk # Nil /\ f.client \in Sealers
      /\ Nil \notin Sessions
    BY <1>1, NilAssumption DEF Program, Handles, Routing
<1>5. CASE o.rc = "success"
  <2>1. f' = [f EXCEPT !.session = o.out, !.proc = "seal"] /\ pc' = "policy.password"
      BY <1>1, <1>5
  <2>2. /\ f' \in Frames /\ f'.session = o.out /\ f'.object = f.object /\ f'.srk = f.srk
        /\ f'.proc = "seal" /\ f'.vars = f.vars /\ SameSeal
      BY <1>2, <1>5, <2>1 DEF Frames, SameSeal
  <2>3. Routing' /\ VarsKept' /\ SessionOpen'
      BY <1>1, <1>2, <1>4, <1>5, <2>1, <2>2
         DEF Program, Routing, VarsKept, SessionOpen, SameSeal
  <2>4. Handles' /\ BlobKept'
      BY <1>1, <1>2, <1>4, <1>5, <2>1, <2>2 DEF Program, Handles, BlobKept, SameSeal, Keep
  <2>5. SessionsLeft' \subseteq SessionsLeft /\ ObjectsLeft' \subseteq ObjectsLeft
      BY <1>2, <1>4, <1>5, <2>2, NilNotUsed DEF SessionsLeft, ObjectsLeft
  <2>6. QED
      BY <1>3, <2>2, <2>3, <2>4, <2>5, AccountKept, Whole DEF ClientsIInv, MachineOK, Program
<1>6. CASE o.rc # "success"
  <2>1. f' = [f EXCEPT !.rc = o.rc] /\ pc' = "sealed" /\ o.rc \in Codes
      BY <1>1, <1>2, <1>6 DEF Outcome
  <2>2. /\ f' \in Frames /\ SameHandles /\ f'.vars = f.vars /\ f'.rc = o.rc
        /\ f'.client = f.client /\ f'.status = f.status /\ f'.built = f.built
      BY <2>1 DEF Frames, SameHandles
  <2>3. Routing' /\ VarsKept' /\ SessionOpen' /\ Handles' /\ BlobKept'
      BY <1>1, <1>4, <1>6, <2>1, <2>2
         DEF Program, Routing, Handles, VarsKept, BlobKept, SessionOpen, SameHandles
  <2>4. CASE tpm' = tpm
      BY <1>3, <2>2, <2>3, <2>4, AccountSame, Whole DEF Program
  <2>5. ASSUME NEW s \in Sessions, o.fault = "lost",
               Used(tpm'.session) = Used(tpm.session) \cup {s}
        PROVE  ClientsIInv'
    <3>1. SessionsLeft' \subseteq SessionsLeft \cup {s} /\ ObjectsLeft' \subseteq ObjectsLeft
        BY <1>2, <2>2, <2>5 DEF SessionsLeft, ObjectsLeft, SameHandles
    <3>2. QED
        BY <1>3, <2>2, <2>3, <2>5, <3>1, AccountSession, Whole DEF ClientsIInv, Program
  <2>6. QED
      BY <1>2, <1>6, <2>4, <2>5
<1>7. QED
    BY <1>5, <1>6

LEMMA SealDigestStep ==
    ASSUME ClientsIInv, SealDigest
    PROVE  ClientsIInv'
<1> USE Parts
<1>1. PICK o \in TPM2_PolicyGetDigest(tpm, f.session) :
        /\ pc = "seal.digest" /\ Returns(o) /\ Keep
        /\ IF o.rc = "success" THEN pc' = "seal.create" /\ f' = [f EXCEPT !.digest = o.out]
           ELSE pc' = "seal.flush" /\ f' = [f EXCEPT !.rc = o.rc]
    BY DEF SealDigest, Call, Is, Goto, Set
<1>2. /\ Outcome(o) /\ tpm' = tpm
      /\ o.rc = "success" => o.out \in SealPolicies
  <2>1. Asked(o, tpm, tpm.session[f.session].policy)
      BY <1>1, Asking
  <2>2. QED
      BY <1>1, <2>1 DEF Asked, Returns, SessionOpen
<1>3. MachineOK' /\ orphans' >= orphans
    BY <1>1, <1>2, Returned
<1>4. CASE o.rc = "success"
  <2>1. pc' = "seal.create" /\ f' = [f EXCEPT !.digest = o.out] /\ o.out \in SealPolicies
      BY <1>1, <1>2, <1>4
  <2>2. /\ f' \in Frames /\ SameHandles /\ SameSeal /\ f'.vars = f.vars /\ f'.digest = o.out
      BY <2>1 DEF Frames, SameHandles, SameSeal
  <2>3. Routing' /\ VarsKept' /\ SessionOpen'
      BY <1>1, <2>1, <2>2, NilAssumption DEF Program, Routing, VarsKept, SessionOpen, SameSeal
  <2>4. Handles' /\ BlobKept'
      BY <1>1, <2>1, <2>2 DEF Program, Handles, BlobKept, SameHandles, SameSeal, Keep
  <2>5. QED
      BY <1>2, <1>3, <2>2, <2>3, <2>4, AccountSame, Whole DEF Program
<1>5. CASE o.rc # "success"
  <2>1. f' = [f EXCEPT !.rc = o.rc] /\ pc' = "seal.flush" /\ o.rc \in Codes
      BY <1>1, <1>2, <1>5 DEF Outcome
  <2>2. /\ f' \in Frames /\ SameHandles /\ f'.vars = f.vars /\ f'.rc = o.rc
        /\ f'.client = f.client /\ f'.status = f.status /\ f'.built = f.built
      BY <2>1 DEF Frames, SameHandles
  <2>3. Routing' /\ VarsKept' /\ SessionOpen' /\ Handles' /\ BlobKept'
      BY <1>1, <1>5, <2>1, <2>2
         DEF Program, Routing, Handles, VarsKept, BlobKept, SessionOpen, SameHandles
  <2>4. QED
      BY <1>2, <1>3, <2>2, <2>3, AccountSame, Whole DEF Program
<1>6. QED
    BY <1>4, <1>5

LEMMA SealCreateStep ==
    ASSUME ClientsIInv, SealCreate
    PROVE  ClientsIInv'
<1> USE Parts
<1>1. PICK o \in TPM2_Create(tpm, f.srk, f.digest) :
        /\ pc = "seal.create" /\ pc' = "seal.flush" /\ Returns(o) /\ Keep
        /\ IF o.rc = "success" THEN f' = [f EXCEPT !.blob = o.out]
           ELSE f' = [f EXCEPT !.rc = o.rc]
    BY DEF SealCreate, Call, Is, Goto, Set
<1>2. Outcome(o) /\ tpm' = tpm /\ (o.rc = "success" => o.out \in SealPolicies)
  <2>1. Asked(o, tpm, f.digest)
      BY <1>1, Asking
  <2>2. f.digest \in SealPolicies
      BY <1>1 DEF SessionOpen, Frames
  <2>3. QED
      BY <1>1, <2>1, <2>2 DEF Asked, Returns
<1>3. MachineOK' /\ orphans' >= orphans
    BY <1>1, <1>2, Returned
<1>4. /\ f' \in Frames /\ SameHandles /\ f'.vars = f.vars
      /\ f'.client = f.client /\ f'.status = f.status /\ f'.built = f.built
      /\ f'.rc = "success" => f'.blob \in SealPolicies
  <2>1. CASE o.rc = "success"
    <3>1. f' = [f EXCEPT !.blob = o.out] /\ o.out \in SealPolicies
        BY <1>1, <1>2, <2>1
    <3>2. QED
        BY <3>1 DEF Frames, SameHandles
  <2>2. CASE o.rc # "success"
    <3>1. f' = [f EXCEPT !.rc = o.rc] /\ o.rc \in Codes
        BY <1>1, <1>2, <2>2 DEF Outcome
    <3>2. QED
        BY <2>2, <3>1 DEF Frames, SameHandles
  <2>3. QED
      BY <2>1, <2>2
<1>5. Routing' /\ VarsKept' /\ SessionOpen' /\ Handles' /\ BlobKept'
    BY <1>1, <1>4 DEF Program, Routing, Handles, VarsKept, BlobKept, SessionOpen, SameHandles
<1>6. QED
    BY <1>2, <1>3, <1>4, <1>5, AccountSame, Whole DEF Program

LEMMA SealFlushStep ==
    ASSUME ClientsIInv, SealFlush
    PROVE  ClientsIInv'
<1> USE Parts
<1>1. PICK o \in TPM2_FlushContext(tpm, "session", f.session) :
        /\ pc = "seal.flush" /\ pc' = "sealed" /\ f' = [f EXCEPT !.session = Nil]
        /\ Returns(o) /\ Keep
    BY DEF SealFlush, Call, Is, Goto, Set
<1>2. f.session \in Sessions
    BY <1>1 DEF Program, Handles, Frames
<1>3. /\ Outcome(o) /\ tpm' = o.tpm /\ Used(tpm'.object) = Used(tpm.object)
      /\ o.fault = "unsent" => tpm' = tpm
      /\ o.fault # "unsent" => Used(tpm'.session) = Used(tpm.session) \ {f.session}
    BY <1>1, <1>2, FlushSessionOutcome DEF Returns
<1>4. MachineOK' /\ orphans' >= orphans /\ (o.fault = "unsent" => orphans' = orphans + 1)
    BY <1>1, <1>3, Returned DEF Returns, Flushes, Creates
<1>5. /\ f' \in Frames /\ f'.session = Nil /\ f'.object = f.object /\ f'.srk = f.srk
      /\ SameSeal /\ f'.vars = f.vars
    BY <1>1 DEF Frames, SameSeal
<1>6. Routing' /\ VarsKept' /\ SessionOpen' /\ Handles' /\ BlobKept'
    BY <1>1, <1>5 DEF Program, Routing, Handles, VarsKept, BlobKept, SessionOpen, SameSeal, Keep
<1>7. ObjectsLeft' \subseteq ObjectsLeft
    BY <1>3, <1>5 DEF ObjectsLeft
<1>8. CASE o.fault = "unsent"
  <2>1. SessionsLeft' \subseteq SessionsLeft \cup {f.session}
      BY <1>3, <1>5, <1>8 DEF SessionsLeft
  <2>2. QED
      BY <1>4, <1>5, <1>6, <1>7, <1>8, <2>1, AccountSession, Whole DEF ClientsIInv, Program
<1>9. CASE o.fault # "unsent"
  <2>1. SessionsLeft' \subseteq SessionsLeft
      BY <1>3, <1>5, <1>9 DEF SessionsLeft
  <2>2. QED
      BY <1>4, <1>5, <1>6, <1>7, <2>1, AccountKept, Whole DEF ClientsIInv, MachineOK, Program
<1>10. QED
    BY <1>8, <1>9

LEMMA SealPolicyStep ==
    ASSUME ClientsIInv, SealPolicy
    PROVE  ClientsIInv'
<1> USE Parts
<1>1. /\ pc = "sealed" /\ Local /\ Keep
      /\ \/ pc' = "flushsrk" /\ f' = f
         \/ \E b \in TPM2X_SerializeBlob(f.blob) :
              /\ f.rc = "success" /\ b # Nil
              /\ pc' = (IF f.client = "seal" THEN "put" ELSE "flushsrk")
              /\ f' = [f EXCEPT !.blob = b, !.status = "sealed"]
    BY DEF SealPolicy, Is, Goto, Set
<1>2. MachineOK' /\ orphans' >= orphans /\ tpm' = tpm
    BY <1>1, LocalStep
<1>3. CASE pc' = "flushsrk" /\ f' = f
  <2>1. Routing' /\ VarsKept' /\ SessionOpen' /\ Handles' /\ BlobKept' /\ SameHandles
      BY <1>1, <1>3 DEF Program, Routing, Handles, VarsKept, BlobKept, SessionOpen, SameHandles
  <2>2. QED
      BY <1>2, <1>3, <2>1, AccountSame, Whole DEF Program
<1>4. ASSUME NEW b \in TPM2X_SerializeBlob(f.blob), f.rc = "success", b # Nil,
             pc' = (IF f.client = "seal" THEN "put" ELSE "flushsrk"),
             f' = [f EXCEPT !.blob = b, !.status = "sealed"]
      PROVE  ClientsIInv'
  <2>1. b = f.blob
      BY <1>4 DEF TPM2X_SerializeBlob
  <2>2. /\ f' \in Frames /\ SameHandles /\ f'.vars = f.vars /\ f'.client = f.client
        /\ f'.built = f.built /\ f'.blob = f.blob /\ f'.status = "sealed"
      BY <1>4, <2>1 DEF Frames, SameHandles
  <2>3. f.built => f.blob # Garbage
      BY <1>1, <1>4, NilAssumption DEF Program, BlobKept, Routing
  <2>4. \/ pc' = "put" /\ f.client = "seal"
        \/ pc' = "flushsrk" /\ f.client \in PolicySealers
      BY <1>1, <1>4 DEF Program, Routing
  <2>5. Routing' /\ SessionOpen' /\ BlobKept'
      BY <1>1, <2>2, <2>3, <2>4 DEF Program, Routing, BlobKept, SessionOpen
  <2>6. Handles' /\ VarsKept'
      BY <1>1, <2>2, <2>4 DEF Program, Handles, VarsKept, SameHandles
  <2>7. QED
      BY <1>2, <2>2, <2>5, <2>6, AccountSame, Whole DEF Program
<1>5. QED
    BY <1>1, <1>3, <1>4

LEMMA PutFileStep ==
    ASSUME ClientsIInv, PutFile
    PROVE  ClientsIInv'
<1> USE Parts
<1>1. /\ pc = "put" /\ UNCHANGED <<nv, phase, runs>>
      /\ pc' = (IF f.client = "seal" THEN "flushsrk" ELSE "idle")
      /\ \/ Local /\ file' = f.blob /\ f' = [f EXCEPT !.status = "ok"]
         \/ Fault /\ file' \in {file, Nil} /\ f' = [f EXCEPT !.status = "error"]
    BY DEF PutFile, Is, Goto, Set
<1>2. f.client \in Sealers /\ f.status = "sealed" /\ (f.srk # Nil => f.client = "seal")
    BY <1>1 DEF Program, Routing, Handles, BlobKept
<1>3. MachineOK' /\ orphans' >= orphans /\ tpm' = tpm
  <2>1. f.blob \in SealPolicies \cup {Nil, Garbage}
      BY DEF Frames
  <2>2. file' \in SealPolicies \cup {Nil, Garbage}
      BY <1>1, <2>1 DEF MachineOK
  <2>3. faults' \in 0 .. MaxFaults /\ tpm' = tpm /\ orphans' = orphans
    <3>1. Local \/ Fault
        BY <1>1
    <3>2. faults \in 0 .. MaxFaults /\ MaxFaults \in Nat
        BY ClientsAssumption DEF MachineOK
    <3>3. CASE Local
        BY <3>2, <3>3 DEF Local
    <3>4. CASE Fault
        BY <3>2, <3>4 DEF Fault
    <3>5. QED
        BY <3>1, <3>3, <3>4
  <2>4. QED
      BY <1>1, <2>2, <2>3 DEF MachineOK
<1>4. /\ f' \in Frames /\ SameHandles /\ f'.vars = f.vars /\ f'.client = f.client
      /\ f'.built = f.built /\ f'.blob = f.blob
      /\ \/ f'.status = "error"
         \/ f'.status = "ok" /\ file' = f.blob
  <2>1. CASE file' = f.blob /\ f' = [f EXCEPT !.status = "ok"]
      BY <2>1 DEF Frames, SameHandles
  <2>2. CASE f' = [f EXCEPT !.status = "error"]
      BY <2>2 DEF Frames, SameHandles
  <2>3. QED
      BY <1>1, <2>1, <2>2
<1>5. \/ pc' = "flushsrk" /\ f.client = "seal"
      \/ pc' = "idle" /\ f.client # "seal"
    BY <1>1
<1>6. f.client = "seal" => f.srk # Nil
    BY <1>1 DEF Program, Handles
<1>7. Routing' /\ SessionOpen' /\ VarsKept'
    BY <1>1, <1>2, <1>4, <1>5 DEF Program, Routing, SessionOpen, VarsKept
<1>8. Handles'
    BY <1>1, <1>2, <1>4, <1>5, <1>6 DEF Program, Handles, SameHandles
<1>9. BlobKept'
    BY <1>1, <1>2, <1>4, <1>5 DEF Program, BlobKept
<1>10. QED
    BY <1>3, <1>4, <1>7, <1>8, <1>9, AccountSame, Whole DEF Program

LEMMA LoadSealedDataStep ==
    ASSUME ClientsIInv, LoadSealedData
    PROVE  ClientsIInv'
<1> USE Parts
<1>1. pc = "load" /\ Keep /\ (Local \/ Fault) /\ f.client \in Openers
    BY DEF LoadSealedData, Is, Program, Routing
<1>2. MachineOK' /\ orphans' >= orphans /\ tpm' = tpm
    BY <1>1, LocalStep
<1>3. PICK b \in SealPolicies \cup {Nil, Garbage} :
        /\ f' = [f EXCEPT !.blob = b]
        /\ \/ pc' \in {"cap.before", "readpublic"} /\ f.client = "lsvmload"
           \/ pc' \in {"cap.sha1", "unseal.session"} /\ f.client \in Unsealers
    BY <1>1 DEF LoadSealedData, Set, Goto, TPM2X_DeserializeBlob, MachineOK
<1>4. f' \in Frames /\ SameHandles /\ f'.vars = f.vars /\ f'.client = f.client
    BY <1>3 DEF Frames, SameHandles
<1>5. Routing' /\ SessionOpen' /\ VarsKept' /\ BlobKept'
    BY <1>1, <1>3, <1>4 DEF Program, Routing, SessionOpen, VarsKept, BlobKept
<1>6. Handles'
    BY <1>1, <1>3, <1>4 DEF Program, Handles, SameHandles
<1>7. QED
    BY <1>2, <1>4, <1>5, <1>6, AccountSame, Whole DEF Program

LEMMA GetSRKStep ==
    ASSUME ClientsIInv, _Get_SRK
    PROVE  ClientsIInv'
<1> USE Parts
<1>1. PICK o \in TPM2_ReadPublic(tpm, SRKHandle) :
        /\ pc = "readpublic" /\ Returns(o) /\ Keep
        /\ \/ pc' = "unseal.session" /\ f' = [f EXCEPT !.parent = SRKHandle]
           \/ pc' \in {"srk", "cap.before"} /\ f' = f
    BY DEF _Get_SRK, Call, Is, Goto, Set
<1>2. Outcome(o) /\ tpm' = tpm
    BY <1>1, ReadPublicOutcome DEF Returns
<1>3. MachineOK' /\ orphans' >= orphans
    BY <1>1, <1>2, Returned
<1>4. /\ f' \in Frames /\ SameHandles /\ SameSeal /\ f'.vars = f.vars
      /\ f.client = "lsvmload"
  <2>1. f.client = "lsvmload"
      BY <1>1 DEF Program, Routing
  <2>2. CASE f' = [f EXCEPT !.parent = SRKHandle]
      BY <2>1, <2>2 DEF Frames, SameHandles, SameSeal
  <2>3. CASE f' = f
      BY <2>1, <2>3 DEF SameHandles, SameSeal
  <2>4. QED
      BY <1>1, <2>2, <2>3
<1>5. Routing' /\ SessionOpen' /\ VarsKept' /\ BlobKept'
    BY <1>1, <1>4 DEF Program, Routing, SessionOpen, VarsKept, BlobKept, SameSeal
<1>6. Handles'
    BY <1>1, <1>4 DEF Program, Handles, SameHandles, SameSeal
<1>7. QED
    BY <1>2, <1>3, <1>4, <1>5, <1>6, AccountSame, Whole DEF Program

LEMMA UnsealSessionStep ==
    ASSUME ClientsIInv, UnsealSession
    PROVE  ClientsIInv'
<1> USE Parts
<1>1. pc = "unseal.session" /\ f.client \in Openers /\ f.session = Nil /\ f.object = Nil
    BY DEF UnsealSession, Is, Program, Routing, Handles
<1>2. ASSUME NEW rc \in Codes, f' = [f EXCEPT !.rc = rc], pc' = "unsealed"
      PROVE  Program' /\ SessionOpen' /\ SameHandles
  <2>1. f' \in Frames /\ SameHandles /\ f'.vars = f.vars /\ f'.client = f.client
      BY <1>2 DEF Frames, SameHandles
  <2>2. Routing' /\ SessionOpen' /\ VarsKept' /\ BlobKept' /\ Handles'
      BY <1>1, <1>2, <2>1
         DEF Program, Routing, SessionOpen, VarsKept, BlobKept, Handles, SameHandles
  <2>3. QED
      BY <2>1, <2>2 DEF Program
<1>3. CASE Local /\ Keep /\ pc' = "unsealed" /\ f' = [f EXCEPT !.rc = "failure"]
  <2>1. "failure" \in Codes
      BY DEF Codes
  <2>2. QED
      BY <1>2, <1>3, <2>1, LocalStep, AccountSame, Whole
<1>4. ASSUME NEW o \in TPM2X_StartAuthSession(tpm, FALSE), Returns(o), Keep,
             o.rc = "success" =>
               pc' = "policy.password" /\ f' = [f EXCEPT !.session = o.out, !.proc = "unseal"],
             o.rc # "success" => pc' = "unsealed" /\ f' = [f EXCEPT !.rc = o.rc]
      PROVE  ClientsIInv'
  <2>1. /\ Outcome(o) /\ tpm' = o.tpm /\ Used(tpm'.object) = Used(tpm.object)
        /\ o.rc = "success" =>
             /\ o.out \in Sessions /\ tpm'.session[o.out] # Nil
             /\ Used(tpm'.session) = Used(tpm.session) \cup {o.out}
        /\ o.rc # "success" =>
             \/ tpm' = tpm
             \/ o.fault = "lost" /\ \E s \in Sessions : Used(tpm'.session) = Used(tpm.session) \cup {s}
    <3>1. o \in TPM2_StartAuthSession(tpm, "policy")
        BY <1>4 DEF TPM2X_StartAuthSession
    <3>2. QED
        BY <1>4, <3>1, StartOutcome DEF Returns
  <2>2. MachineOK' /\ orphans' >= orphans /\ (o.fault = "lost" => orphans' = orphans + 1)
      BY <1>1, <1>4, <2>1, Returned DEF Returns, Creates
  <2>3. CASE o.rc = "success"
    <3>1. /\ f' = [f EXCEPT !.session = o.out, !.proc = "unseal"] /\ pc' = "policy.password"
          /\ o.out \in Sessions /\ Nil \notin Sessions
        BY <1>4, <2>1, <2>3, NilAssumption
    <3>2. /\ f' \in Frames /\ f'.session = o.out /\ f'.object = f.object /\ f'.srk = f.srk
          /\ f'.proc = "unseal" /\ f'.vars = f.vars /\ f'.client = f.client
        BY <3>1 DEF Frames
    <3>3. Routing' /\ VarsKept' /\ SessionOpen' /\ BlobKept'
        BY <1>1, <2>1, <2>3, <3>1, <3>2 DEF Program, Routing, VarsKept, SessionOpen, BlobKept
    <3>4. Handles'
        BY <1>1, <3>1, <3>2 DEF Program, Handles
    <3>5. SessionsLeft' \subseteq SessionsLeft /\ ObjectsLeft' \subseteq ObjectsLeft
        BY <1>1, <2>1, <2>3, <3>2, NilNotUsed DEF SessionsLeft, ObjectsLeft
    <3>6. QED
        BY <2>2, <3>2, <3>3, <3>4, <3>5, AccountKept, Whole DEF ClientsIInv, MachineOK, Program
  <2>4. CASE o.rc # "success"
    <3>1. Program' /\ SessionOpen' /\ SameHandles
        BY <1>2, <1>4, <2>1, <2>4 DEF Outcome
    <3>2. CASE tpm' = tpm
        BY <2>2, <3>1, <3>2, AccountSame, Whole
    <3>3. ASSUME NEW s \in Sessions, o.fault = "lost",
                 Used(tpm'.session) = Used(tpm.session) \cup {s}
          PROVE  ClientsIInv'
      <4>1. SessionsLeft' \subseteq SessionsLeft \cup {s} /\ ObjectsLeft' \subseteq ObjectsLeft
          BY <2>1, <3>1, <3>3 DEF SessionsLeft, ObjectsLeft, SameHandles
      <4>2. QED
          BY <2>2, <3>1, <3>3, <4>1, AccountSession, Whole DEF ClientsIInv
    <3>4. QED
        BY <2>1, <2>4, <3>2, <3>3
  <2>5. QED
      BY <2>3, <2>4
<1>5. QED
    BY <1>3, <1>4 DEF UnsealSession, Call, Goto, Set

LEMMA UnsealLoadStep ==
    ASSUME ClientsIInv, UnsealLoad
    PROVE  ClientsIInv'
<1> USE Parts
<1>1. PICK o \in TPM2_Load(tpm, f.parent, f.blob) :
        /\ pc = "unseal.load" /\ Returns(o) /\ Keep
        /\ o.rc = "success" => pc' = "unseal.unseal" /\ f' = [f EXCEPT !.object = o.out]
        /\ o.rc # "success" => pc' = "unseal.flush" /\ f' = [f EXCEPT !.rc = o.rc]
    BY DEF UnsealLoad, Call, Is, Goto, Set
<1>2. /\ Outcome(o) /\ tpm' = o.tpm /\ Used(tpm'.session) = Used(tpm.session)
      /\ o.rc = "success" =>
           o.out \in Objects /\ Used(tpm'.object) = Used(tpm.object) \cup {o.out}
      /\ o.rc # "success" =>
           \/ tpm' = tpm
           \/ o.fault = "lost" /\ \E h \in Objects : Used(tpm'.object) = Used(tpm.object) \cup {h}
  <2>1. f.blob \in SealPolicies \cup {Nil, Garbage} /\ tpm' = o.tpm
      BY <1>1 DEF Frames, Returns
  <2>2. QED
      BY <2>1, LoadOutcome
<1>3. MachineOK' /\ orphans' >= orphans /\ (o.fault = "lost" => orphans' = orphans + 1)
    BY <1>1, <1>2, Returned DEF Returns, Creates
<1>4. /\ f.session # Nil /\ f.object = Nil /\ f.client \in Openers /\ Nil \notin Objects
    BY <1>1, NilAssumption DEF Program, Handles, Routing
<1>5. CASE o.rc = "success"
  <2>1. f' = [f EXCEPT !.object = o.out] /\ pc' = "unseal.unseal" /\ o.out \in Objects
      BY <1>1, <1>2, <1>5
  <2>2. /\ f' \in Frames /\ f'.session = f.session /\ f'.object = o.out /\ f'.srk = f.srk
        /\ f'.vars = f.vars /\ f'.client = f.client
      BY <2>1 DEF Frames
  <2>3. Routing' /\ VarsKept' /\ SessionOpen' /\ BlobKept'
      BY <1>1, <1>4, <2>1, <2>2 DEF Program, Routing, VarsKept, SessionOpen, BlobKept
  <2>4. Handles'
      BY <1>1, <1>4, <2>1, <2>2 DEF Program, Handles
  <2>5. SessionsLeft' \subseteq SessionsLeft /\ ObjectsLeft' \subseteq ObjectsLeft
      BY <1>2, <1>4, <1>5, <2>2, NilNotUsed DEF SessionsLeft, ObjectsLeft
  <2>6. QED
      BY <1>3, <2>2, <2>3, <2>4, <2>5, AccountKept, Whole DEF ClientsIInv, MachineOK, Program
<1>6. CASE o.rc # "success"
  <2>1. f' = [f EXCEPT !.rc = o.rc] /\ pc' = "unseal.flush" /\ o.rc \in Codes
      BY <1>1, <1>2, <1>6 DEF Outcome
  <2>2. f' \in Frames /\ SameHandles /\ f'.vars = f.vars /\ f'.client = f.client
      BY <2>1 DEF Frames, SameHandles
  <2>3. Routing' /\ VarsKept' /\ SessionOpen' /\ Handles' /\ BlobKept'
      BY <1>1, <1>4, <2>1, <2>2
         DEF Program, Routing, Handles, VarsKept, BlobKept, SessionOpen, SameHandles
  <2>4. CASE tpm' = tpm
      BY <1>3, <2>2, <2>3, <2>4, AccountSame, Whole DEF Program
  <2>5. ASSUME NEW h \in Objects, o.fault = "lost",
               Used(tpm'.object) = Used(tpm.object) \cup {h}
        PROVE  ClientsIInv'
    <3>1. SessionsLeft' \subseteq SessionsLeft /\ ObjectsLeft' \subseteq ObjectsLeft \cup {h}
        BY <1>2, <2>2, <2>5 DEF SessionsLeft, ObjectsLeft, SameHandles
    <3>2. QED
        BY <1>3, <2>2, <2>3, <2>5, <3>1, AccountObject, Whole DEF ClientsIInv, Program
  <2>6. QED
      BY <1>2, <1>6, <2>4, <2>5
<1>7. QED
    BY <1>5, <1>6

LEMMA UnsealUnsealStep ==
    ASSUME ClientsIInv, UnsealUnseal
    PROVE  ClientsIInv'
<1> USE Parts
<1>1. PICK o \in TPM2_Unseal(tpm, f.object, f.session) :
        /\ pc = "unseal.unseal" /\ pc' = "unseal.flush" /\ Returns(o) /\ Keep
        /\ o.rc = "success" => f' = [f EXCEPT !.data = o.out, !.session = Nil]
        /\ o.rc # "success" => f' = [f EXCEPT !.rc = o.rc]
    BY DEF UnsealUnseal, Call, Is, Goto, Set
<1>2. f.session \in Sessions /\ f.client \in Openers
    BY <1>1 DEF Program, Handles, Routing, Frames
<1>3. /\ Outcome(o) /\ tpm' = o.tpm /\ Used(tpm'.object) = Used(tpm.object)
      /\ Used(tpm'.session) \subseteq Used(tpm.session)
      /\ o.rc = "success" => o.out = "keys" /\ f.session \notin Used(tpm'.session)
  <2>1. tpm' = o.tpm
      BY <1>1 DEF Returns
  <2>2. /\ Outcome(o) /\ Used(o.tpm.object) = Used(tpm.object)
        /\ Used(o.tpm.session) \subseteq Used(tpm.session)
        /\ o.rc = "success" => o.out = "keys" /\ f.session \notin Used(o.tpm.session)
      BY <1>1, <1>2, UnsealOutcome, Zenon
  <2>3. QED
      BY <2>1, <2>2, Zenon
<1>4. MachineOK' /\ orphans' >= orphans
    BY <1>1, <1>3, Returned
<1>5. /\ f' \in Frames /\ f'.object = f.object /\ f'.srk = f.srk
      /\ f'.vars = f.vars /\ f'.client = f.client
      /\ \/ f'.session = f.session
         \/ f'.session = Nil /\ o.rc = "success"
  <2>1. CASE o.rc = "success"
    <3>1. f' = [f EXCEPT !.data = "keys", !.session = Nil]
        BY <1>1, <1>3, <2>1
    <3>2. QED
        BY <2>1, <3>1 DEF Frames
  <2>2. CASE o.rc # "success"
    <3>1. f' = [f EXCEPT !.rc = o.rc] /\ o.rc \in Codes
        BY <1>1, <1>3, <2>2 DEF Outcome
    <3>2. QED
        BY <3>1 DEF Frames
  <2>3. QED
      BY <2>1, <2>2
<1>6. Routing' /\ VarsKept' /\ SessionOpen' /\ Handles' /\ BlobKept'
    BY <1>1, <1>2, <1>5 DEF Program, Routing, Handles, VarsKept, BlobKept, SessionOpen
<1>7. SessionsLeft' \subseteq SessionsLeft /\ ObjectsLeft' \subseteq ObjectsLeft
    BY <1>3, <1>5 DEF SessionsLeft, ObjectsLeft
<1>8. QED
    BY <1>4, <1>5, <1>6, <1>7, AccountKept, Whole DEF ClientsIInv, MachineOK, Program

LEMMA UnsealFlushSessionStep ==
    ASSUME ClientsIInv, UnsealFlushSession
    PROVE  ClientsIInv'
<1> USE Parts
<1>1. /\ pc = "unseal.flush" /\ pc' = "unseal.flushobject" /\ f' = [f EXCEPT !.session = Nil]
      /\ f.client \in Openers
    BY DEF UnsealFlushSession, Is, Goto, Set, Program, Routing
<1>2. /\ f' \in Frames /\ f'.session = Nil /\ f'.object = f.object /\ f'.srk = f.srk
      /\ f'.vars = f.vars /\ f'.client = f.client
    BY <1>1 DEF Frames
<1>3. Routing' /\ VarsKept' /\ SessionOpen' /\ Handles' /\ BlobKept'
    BY <1>1, <1>2 DEF Program, Routing, Handles, VarsKept, BlobKept, SessionOpen
<1>4. CASE f.session = Nil
  <2>1. MachineOK' /\ orphans' >= orphans /\ tpm' = tpm
      BY <1>4, LocalStep DEF UnsealFlushSession
  <2>2. QED
      BY <1>2, <1>3, <1>4, <2>1, AccountSame, Whole DEF SameHandles, Program
<1>5. CASE f.session # Nil
  <2>1. PICK o \in TPM2_FlushContext(tpm, "session", f.session) : Returns(o) /\ Keep
      BY <1>5 DEF UnsealFlushSession, Call
  <2>2. f.session \in Sessions
      BY <1>5 DEF Frames
  <2>3. /\ Outcome(o) /\ tpm' = o.tpm /\ Used(tpm'.object) = Used(tpm.object)
        /\ o.fault = "unsent" => tpm' = tpm
        /\ o.fault # "unsent" => Used(tpm'.session) = Used(tpm.session) \ {f.session}
      BY <2>1, <2>2, FlushSessionOutcome DEF Returns
  <2>4. MachineOK' /\ orphans' >= orphans /\ (o.fault = "unsent" => orphans' = orphans + 1)
      BY <1>1, <2>1, <2>3, Returned DEF Returns, Flushes, Creates
  <2>5. ObjectsLeft' \subseteq ObjectsLeft
      BY <1>2, <2>3 DEF ObjectsLeft
  <2>6. CASE o.fault = "unsent"
    <3>1. SessionsLeft' \subseteq SessionsLeft \cup {f.session}
        BY <1>2, <2>3, <2>6 DEF SessionsLeft
    <3>2. QED
        BY <1>2, <1>3, <2>4, <2>5, <2>6, <3>1, AccountSession, Whole DEF ClientsIInv, Program
  <2>7. CASE o.fault # "unsent"
    <3>1. SessionsLeft' \subseteq SessionsLeft
        BY <1>2, <2>3, <2>7 DEF SessionsLeft
    <3>2. QED
        BY <1>2, <1>3, <2>4, <2>5, <3>1, AccountKept, Whole DEF ClientsIInv, MachineOK, Program
  <2>8. QED
      BY <2>6, <2>7
<1>6. QED
    BY <1>4, <1>5

LEMMA UnsealFlushObjectStep ==
    ASSUME ClientsIInv, UnsealFlushObject
    PROVE  ClientsIInv'
<1> USE Parts
<1>1. /\ pc = "unseal.flushobject" /\ pc' = "unsealed" /\ f' = [f EXCEPT !.object = Nil]
      /\ f.client \in Openers
    BY DEF UnsealFlushObject, Is, Goto, Set, Program, Routing
<1>2. /\ f' \in Frames /\ f'.object = Nil /\ f'.session = f.session /\ f'.srk = f.srk
      /\ f'.vars = f.vars /\ f'.client = f.client
    BY <1>1 DEF Frames
<1>3. Routing' /\ VarsKept' /\ SessionOpen' /\ Handles' /\ BlobKept'
    BY <1>1, <1>2 DEF Program, Routing, Handles, VarsKept, BlobKept, SessionOpen
<1>4. CASE f.object = Nil
  <2>1. MachineOK' /\ orphans' >= orphans /\ tpm' = tpm
      BY <1>4, LocalStep DEF UnsealFlushObject
  <2>2. QED
      BY <1>2, <1>3, <1>4, <2>1, AccountSame, Whole DEF SameHandles, Program
<1>5. CASE f.object # Nil
  <2>1. PICK o \in TPM2_FlushContext(tpm, "object", f.object) : Returns(o) /\ Keep
      BY <1>5 DEF UnsealFlushObject, Call
  <2>2. f.object \in Objects
      BY <1>5 DEF Frames
  <2>3. /\ Outcome(o) /\ tpm' = o.tpm /\ Used(tpm'.session) = Used(tpm.session)
        /\ o.fault = "unsent" => tpm' = tpm
        /\ o.fault # "unsent" => Used(tpm'.object) = Used(tpm.object) \ {f.object}
      BY <2>1, <2>2, FlushObjectOutcome DEF Returns
  <2>4. MachineOK' /\ orphans' >= orphans /\ (o.fault = "unsent" => orphans' = orphans + 1)
      BY <1>1, <2>1, <2>3, Returned DEF Returns, Flushes, Creates
  <2>5. SessionsLeft' \subseteq SessionsLeft
      BY <1>2, <2>3 DEF SessionsLeft
  <2>6. CASE o.fault = "unsent"
    <3>1. ObjectsLeft' \subseteq ObjectsLeft \cup {f.object}
        BY <1>2, <2>3, <2>6 DEF ObjectsLeft
    <3>2. QED
        BY <1>2, <1>3, <2>4, <2>5, <2>6, <3>1, AccountObject, Whole DEF ClientsIInv, Program
  <2>7. CASE o.fault # "unsent"
    <3>1. ObjectsLeft' \subseteq ObjectsLeft
        BY <1>2, <2>3, <2>7 DEF ObjectsLeft
    <3>2. QED
        BY <1>2, <1>3, <2>4, <2>5, <3>1, AccountKept, Whole DEF ClientsIInv, MachineOK, Program
  <2>8. QED
      BY <2>6, <2>7
<1>6. QED
    BY <1>4, <1>5

LEMMA UnsealedStep ==
    ASSUME ClientsIInv, Unsealed
    PROVE  ClientsIInv'
<1> USE Parts
<1>1. pc = "unsealed" /\ Keep /\ (Local \/ Fault) /\ f.client \in Openers
    BY DEF Unsealed, Is, Program, Routing
<1>2. MachineOK' /\ orphans' >= orphans /\ tpm' = tpm
    BY <1>1, LocalStep
<1>3. /\ f' = f \/ f' = [f EXCEPT !.status = "ok"]
      /\ pc' = "flushsrk" \/ (pc' = "cap.sha1" /\ f.client \in Unsealers)
    BY <1>1 DEF Unsealed, Set, Goto
<1>4. f' \in Frames /\ SameHandles /\ f'.vars = f.vars /\ f'.client = f.client
  <2>1. CASE f' = f
      BY <2>1 DEF SameHandles
  <2>2. CASE f' = [f EXCEPT !.status = "ok"]
      BY <2>2 DEF Frames, SameHandles
  <2>3. QED
      BY <1>3, <2>1, <2>2
<1>5. Routing' /\ SessionOpen' /\ VarsKept' /\ BlobKept'
    BY <1>1, <1>3, <1>4 DEF Program, Routing, SessionOpen, VarsKept, BlobKept
<1>6. Handles'
    BY <1>1, <1>3, <1>4 DEF Program, Handles, SameHandles
<1>7. QED
    BY <1>2, <1>4, <1>5, <1>6, AccountSame, Whole DEF Program

LEMMA SplitKeysStep ==
    ASSUME ClientsIInv, SplitKeys
    PROVE  ClientsIInv'
<1> USE Parts
<1>1. /\ pc = "split" /\ Keep /\ Local /\ pc' = "cap.before" /\ f.client = "lsvmload"
      /\ f' = [f EXCEPT !.status = "error"] \/ f' = [f EXCEPT !.status = "keys"]
    BY DEF SplitKeys, Is, Set, Goto, Program, Routing
<1>2. MachineOK' /\ orphans' >= orphans /\ tpm' = tpm
    BY <1>1, LocalStep
<1>3. f' \in Frames /\ SameHandles /\ f'.vars = f.vars /\ f'.client = f.client
  <2>1. CASE f' = [f EXCEPT !.status = "error"]
      BY <2>1 DEF Frames, SameHandles
  <2>2. CASE f' = [f EXCEPT !.status = "keys"]
      BY <2>2 DEF Frames, SameHandles
  <2>3. QED
      BY <1>1, <2>1, <2>2
<1>4. Routing' /\ SessionOpen' /\ VarsKept' /\ BlobKept' /\ Handles'
    BY <1>1, <1>3 DEF Program, Routing, SessionOpen, VarsKept, BlobKept, Handles, SameHandles
<1>5. QED
    BY <1>2, <1>3, <1>4, AccountSame, Whole DEF Program

\* Zeros, and what lsvmload measures, are digests.
LEMMA MeasuredDigests ==
    /\ Zeros \in Digests
    /\ \A i \in 0 .. 2 : ComputeHash(MeasureLinuxScenario[i + 1]) \in Digests
<1>1. \A x \in Texts : ComputeHash(x) \in Digests
    BY DEF ComputeHash, Digests
<1>2. /\ "zeros" \in Texts /\ "10000000" \in Texts
      /\ "0200F000" \in Texts /\ "01000000" \in Texts
    BY DEF Texts
<1>3. ASSUME NEW i \in 0 .. 2 PROVE MeasureLinuxScenario[i + 1] \in Texts
  <2>1. i = 0 \/ i = 1 \/ i = 2
      OBVIOUS
  <2>2. QED
      BY <1>2, <2>1 DEF MeasureLinuxScenario
<1>4. QED
    BY <1>1, <1>2, <1>3 DEF Zeros

LEMMA ScenarioStep ==
    ASSUME ClientsIInv, Scenario
    PROVE  ClientsIInv'
<1> USE Parts
<1>1. PICK o \in HashLogExtendEvent(tpm, 11, ComputeHash(MeasureLinuxScenario[f.i + 1])) :
        /\ pc = "scenario" /\ Returns(o) /\ Keep
        /\ o.rc = "success" => /\ pc' = (IF f.i = 2 THEN "load" ELSE "scenario")
                               /\ f' = [f EXCEPT !.i = (f.i + 1) % 3]
        /\ o.rc # "success" => Exit(f)
    BY DEF Scenario, Call, Is, Goto, Set
<1>2. f.client = "lsvmload" /\ f.i \in 0 .. 2
    BY <1>1 DEF Program, Routing
<1>3. Outcome(o) /\ tpm'.session = tpm.session /\ tpm'.object = tpm.object
  <2>1. tpm' = o.tpm /\ ComputeHash(MeasureLinuxScenario[f.i + 1]) \in Digests
      BY <1>1, <1>2, MeasuredDigests DEF Returns
  <2>2. QED
      BY <2>1, HashLogOutcome DEF Extended
<1>4. MachineOK' /\ orphans' >= orphans
    BY <1>1, <1>3, Returned
<1>5. CASE o.rc = "success"
  <2> DEFINE j == (f.i + 1) % 3
  <2>1. j \in 0 .. 2 /\ j \in Nat
      BY <1>2
  <2>2. pc' \in {"load", "scenario"} /\ f' = [f EXCEPT !.i = j]
      BY <1>1, <1>5
  <2> HIDE DEF j
  <2>3. f' \in Frames /\ SameHandles /\ SameSeal /\ f'.vars = f.vars /\ f'.i = j
      BY <2>1, <2>2 DEF Frames, SameHandles, SameSeal
  <2>4. Routing' /\ SessionOpen' /\ VarsKept' /\ BlobKept'
      BY <1>1, <1>2, <2>1, <2>2, <2>3
         DEF Program, Routing, SessionOpen, VarsKept, BlobKept, SameSeal
  <2>5. Handles'
      BY <1>1, <1>2, <2>2, <2>3 DEF Program, Handles, SameHandles, SameSeal
  <2>6. QED
      BY <1>3, <1>4, <2>3, <2>4, <2>5, AccountSame, Whole DEF Program
<1>6. CASE o.rc # "success"
  <2>1. Program' /\ SessionOpen' /\ SameHandles
      BY <1>1, <1>6, Exits DEF Keep
  <2>2. QED
      BY <1>3, <1>4, <2>1, AccountSame, Whole
<1>7. QED
    BY <1>5, <1>6

\* One register read with TPM2X_ReadPCRSHA256.
LEMMA OneRegister ==
    ASSUME NEW t \in Chips, NEW p \in {0, 11}, NEW o \in TPM2X_ReadPCRSHA256(t, p)
    PROVE  /\ Outcome(o) /\ o.tpm = t
           /\ o.rc = "success" =>
                o.out \in [{0} -> Seq(Digests)] \cup [{11} -> Seq(Digests)] \cup {Nil}
<1> DEFINE regs == [q \in {p} |-> t.pcr["SHA256"][q]]
<1>1. o \in TPM2_PCR_Read(t, "SHA256", {p})
    BY DEF TPM2X_ReadPCRSHA256
<1>2. t.pcr["SHA256"] \in [PCRs -> Seq(Digests)]
    BY DEF Chips, Registers, Banks
<1>3. regs \in [{0} -> Seq(Digests)] \cup [{11} -> Seq(Digests)] \cup {Nil}
  <2>1. CASE p = 0
      BY <1>2, <2>1 DEF PCRs
  <2>2. CASE p = 11
      BY <1>2, <2>2 DEF PCRs
  <2>3. QED
      BY <2>1, <2>2
<1>4. Asked(o, t, regs)
    BY <1>1, ReadOutcome
<1> HIDE DEF regs
<1>5. QED
    BY <1>3, <1>4 DEF Asked

LEMMA CapBeforeStep ==
    ASSUME ClientsIInv, CapBefore \/ CapAllRead
    PROVE  ClientsIInv'
<1> USE Parts
<1>1. PICK p \in {0, 11} : \E o \in TPM2X_ReadPCRSHA256(tpm, p) :
        /\ pc \in {"cap.before", "capall.read"} /\ Returns(o) /\ Keep
        /\ o.rc = "success" => pc' = "cap.sha1" /\ f' = [f EXCEPT !.before = o.out]
        /\ o.rc # "success" => Exit(f)
    BY DEF CapBefore, CapAllRead, Call, Is, Goto, Set
<1>2. PICK o \in TPM2X_ReadPCRSHA256(tpm, p) :
        /\ pc \in {"cap.before", "capall.read"} /\ Returns(o) /\ Keep
        /\ o.rc = "success" => pc' = "cap.sha1" /\ f' = [f EXCEPT !.before = o.out]
        /\ o.rc # "success" => Exit(f)
    BY <1>1
<1>3. /\ Outcome(o) /\ tpm' = tpm
      /\ o.rc = "success" =>
           o.out \in [{0} -> Seq(Digests)] \cup [{11} -> Seq(Digests)] \cup {Nil}
  <2>1. tpm' = o.tpm
      BY <1>2 DEF Returns
  <2>2. QED
      BY <2>1, OneRegister
<1>4. MachineOK' /\ orphans' >= orphans /\ f.client \in {"lsvmload", "capall"}
    BY <1>2, <1>3, Returned DEF Program, Routing
<1>5. CASE o.rc = "success"
  <2>1. /\ pc' = "cap.sha1" /\ f' = [f EXCEPT !.before = o.out]
        /\ o.out \in [{0} -> Seq(Digests)] \cup [{11} -> Seq(Digests)] \cup {Nil}
      BY <1>2, <1>3, <1>5
  <2>2. f' \in Frames /\ SameHandles /\ f'.vars = f.vars /\ f'.client = f.client
      BY <2>1 DEF Frames, SameHandles
  <2>3. Routing' /\ SessionOpen' /\ VarsKept' /\ BlobKept'
      BY <1>2, <1>4, <2>1, <2>2 DEF Program, Routing, SessionOpen, VarsKept, BlobKept
  <2>4. Handles'
      BY <1>2, <2>1, <2>2 DEF Program, Handles, SameHandles
  <2>5. QED
      BY <1>3, <1>4, <2>2, <2>3, <2>4, AccountSame, Whole DEF Program
<1>6. CASE o.rc # "success"
  <2>1. Program' /\ SessionOpen' /\ SameHandles
      BY <1>2, <1>6, Exits DEF Keep
  <2>2. QED
      BY <1>3, <1>4, <2>1, AccountSame, Whole
<1>7. QED
    BY <1>5, <1>6

\* A bank cannot be extended: unseal goes on, the other clients exit.
LEMMA CapFails ==
    ASSUME ClientsIInv, NEW rc, pc \in CapSteps, CapFailed(rc), file' = file
    PROVE  Program' /\ SessionOpen' /\ SameHandles
<1> USE Parts
<1>1. CASE f.client \in Unsealers
  <2>1. pc' = "flushsrk" /\ f' = f
      BY <1>1 DEF CapFailed, Goto, Set
  <2>2. QED
      BY <1>1, <2>1
         DEF Program, Routing, Handles, VarsKept, BlobKept, SessionOpen, SameHandles
<1>2. CASE f.client \notin Unsealers
    BY <1>2, Exits DEF CapFailed
<1>3. QED
    BY <1>1, <1>2

LEMMA CapSHA1Step ==
    ASSUME ClientsIInv, CapSHA1
    PROVE  ClientsIInv'
<1> USE Parts
<1>1. PICK o \in TPM2_PCR_Extend(tpm, "SHA1", CapPCRNumber, Zeros) :
        /\ pc = "cap.sha1" /\ Returns(o) /\ Keep
        /\ o.rc = "success" => pc' = "cap.sha256" /\ f' = f
        /\ o.rc # "success" => CapFailed(o.rc)
    BY DEF CapSHA1, Call, Is, Goto, Set
<1>2. Outcome(o) /\ tpm'.session = tpm.session /\ tpm'.object = tpm.object
  <2>1. tpm' = o.tpm /\ Zeros \in Digests /\ "SHA1" \in Banks
      BY <1>1, MeasuredDigests DEF Returns, Banks
  <2>2. QED
      BY <2>1, ExtendOutcome DEF Extended
<1>3. MachineOK' /\ orphans' >= orphans
    BY <1>1, <1>2, Returned
<1>4. Program' /\ SessionOpen' /\ SameHandles
  <2>1. CASE o.rc = "success"
      BY <1>1, <2>1
         DEF Program, Routing, Handles, VarsKept, BlobKept, SessionOpen, SameHandles, Keep
  <2>2. CASE o.rc # "success"
      BY <1>1, <2>2, CapFails DEF Keep
  <2>3. QED
      BY <2>1, <2>2
<1>5. QED
    BY <1>2, <1>3, <1>4, AccountSame, Whole

LEMMA CapSHA256Step ==
    ASSUME ClientsIInv, CapSHA256
    PROVE  ClientsIInv'
<1> USE Parts
<1>1. PICK o \in TPM2_PCR_Extend(tpm, "SHA256", CapPCRNumber, Zeros) :
        /\ pc = "cap.sha256" /\ Returns(o) /\ Keep
        /\ o.rc = "success" =>
             /\ pc' = AfterCap
             /\ f' = [f EXCEPT !.i = f.i + 1,
                               !.status = IF f.client = "cappcr11" THEN "ok" ELSE f.status]
        /\ o.rc # "success" => CapFailed(o.rc)
    BY DEF CapSHA256, Call, Is, Goto, Set
<1>2. Outcome(o) /\ tpm'.session = tpm.session /\ tpm'.object = tpm.object
  <2>1. tpm' = o.tpm /\ Zeros \in Digests /\ "SHA256" \in Banks
      BY <1>1, MeasuredDigests DEF Returns, Banks
  <2>2. QED
      BY <2>1, ExtendOutcome DEF Extended
<1>3. MachineOK' /\ orphans' >= orphans
    BY <1>1, <1>2, Returned
<1>4. Program' /\ SessionOpen' /\ SameHandles
  <2>1. CASE o.rc = "success"
    <3> DEFINE st == IF f.client = "cappcr11" THEN "ok" ELSE f.status
           j == f.i + 1
    <3>1. st \in {"error", "keys", "sealed", "ok"} /\ j \in Nat
      <4>1. f.status \in {"error", "keys", "sealed", "ok"} /\ f.i \in Nat
          BY DEF Frames
      <4>2. QED
          BY <4>1
    <3>2. f' = [f EXCEPT !.i = j, !.status = st]
        BY <1>1, <2>1
    <3> HIDE DEF st, j
    <3>3. f' \in Frames /\ SameHandles /\ f'.vars = f.vars /\ f'.client = f.client
        BY <3>1, <3>2 DEF Frames, SameHandles
    <3>4. f.client \in Openers \cup {"cappcr11", "capall"}
        BY <1>1 DEF Program, Routing
    <3>5. \/ pc' = "cap.after" /\ f.client = "lsvmload"
          \/ pc' = "flushsrk" /\ f.client \in Unsealers
          \/ pc' \in {"cap.sha1", "capall.check"} /\ f.client = "capall"
          \/ pc' = "idle" /\ f.client = "cappcr11"
        BY <1>1, <2>1, <3>4 DEF AfterCap
    <3>6. Routing' /\ SessionOpen' /\ VarsKept' /\ BlobKept'
        BY <1>1, <3>3, <3>5 DEF Program, Routing, SessionOpen, VarsKept, BlobKept
    <3>7. Handles'
        BY <1>1, <3>3, <3>5 DEF Program, Handles, SameHandles
    <3>8. QED
        BY <3>3, <3>6, <3>7 DEF Program
  <2>2. CASE o.rc # "success"
      BY <1>1, <2>2, CapFails DEF Keep
  <2>3. QED
      BY <2>1, <2>2
<1>5. QED
    BY <1>2, <1>3, <1>4, AccountSame, Whole

LEMMA CapAfterStep ==
    ASSUME ClientsIInv, CapAfter
    PROVE  ClientsIInv'
<1> USE Parts
<1>1. PICK o \in TPM2X_ReadPCRSHA256(tpm, 11) :
        /\ pc = "cap.after" /\ Returns(o) /\ Exit(f)
        /\ phase' \in {phase, "os"} /\ UNCHANGED <<nv, file, runs, sealedFor>>
    BY DEF CapAfter, Is
<1>2. Outcome(o) /\ tpm' = tpm
    BY <1>1, OneRegister DEF Returns
<1>3. MachineOK' /\ orphans' >= orphans
  <2>1. faults' \in 0 .. MaxFaults /\ orphans' \in Nat /\ orphans' >= orphans
      BY <1>1, <1>2, Counted
  <2>2. QED
      BY <1>1, <1>2, <2>1 DEF MachineOK
<1>4. Program' /\ SessionOpen' /\ SameHandles
    BY <1>1, Exits
<1>5. QED
    BY <1>2, <1>3, <1>4, AccountSame, Whole

LEMMA CapAllCheckStep ==
    ASSUME ClientsIInv, CapAllCheck
    PROVE  ClientsIInv'
<1> USE Parts
<1>1. PICK o \in TPM2X_ReadPCRSHA256(tpm, 0) :
        /\ pc = "capall.check" /\ Returns(o) /\ Keep
        /\ IF o.rc = "success"
           THEN Exit([f EXCEPT !.status = IF o.out = f.before THEN "error" ELSE "ok"])
           ELSE Exit(f)
    BY DEF CapAllCheck, Call, Is
<1>2. Outcome(o) /\ tpm' = tpm
    BY <1>1, OneRegister DEF Returns
<1>3. MachineOK' /\ orphans' >= orphans /\ f.client = "capall" /\ file' = file
    BY <1>1, <1>2, Returned DEF Program, Routing, Keep
<1>4. CASE o.rc = "success"
  <2> DEFINE st == IF o.out = f.before THEN "error" ELSE "ok"
  <2>1. PICK g : g = [f EXCEPT !.status = st]
      OBVIOUS
  <2>2. Exit(g)
      BY <1>1, <1>4, <2>1
  <2>3. st \in {"error", "keys", "sealed", "ok"}
      OBVIOUS
  <2> HIDE DEF st
  <2>4. /\ g \in Frames /\ g.session = f.session /\ g.object = f.object /\ g.srk = f.srk
        /\ g.client = f.client /\ g.built = f.built /\ g.blob = f.blob
      BY <2>1, <2>3 DEF Frames
  <2>5. Program' /\ SessionOpen' /\ SameHandles
      BY <1>1, <1>3, <2>2, <2>4, Exits
  <2>6. QED
      BY <1>2, <1>3, <2>5, AccountSame, Whole
<1>5. CASE o.rc # "success"
  <2>1. Program' /\ SessionOpen' /\ SameHandles
    <3>1. Exit(f) /\ pc = "capall.check"
        BY <1>1, <1>5
    <3>2. QED
        BY <1>3, <3>1, Exits
  <2>2. QED
      BY <1>2, <1>3, <2>1, AccountSame, Whole
<1>6. QED
    BY <1>4, <1>5

-----------------------------------------------------------------------------
(* The predictions, and the machine.                                       *)

LEMMA TablesTyped ==
    /\ VarsTyped(StaticVars) /\ VarsTyped(VarsWithEntry) /\ VarsTyped(<<>>)
    /\ FilesTyped(Files) /\ FilesTyped(NoFiles)
<1> DEFINE x == Var("db", "Entry", "entry")
           S == {Var("SecureBoot", "False", "00"), Var("SecureBoot", "True", "01"),
                 Var("SEPARATOR", "", "00000000"),
                 Var("ALLOW_PREBOOT_SEALING", "", "10000000"),
                 Var("LINUX_SCENARIO_ID", "", "0200F000"),
                 Var("LINUX_SCENARIO_VERSION", "", "01000000"), x}
<1>1. \A y \in S : y.data \in Texts
  <2>1. \A n, e : \A d \in Texts : Var(n, e, d).data \in Texts
      BY DEF Var
  <2>2. /\ "00" \in Texts /\ "01" \in Texts /\ "00000000" \in Texts /\ "10000000" \in Texts
        /\ "0200F000" \in Texts /\ "01000000" \in Texts /\ "entry" \in Texts
      BY DEF Texts
  <2>3. /\ Var("SecureBoot", "False", "00").data \in Texts
        /\ Var("SecureBoot", "True", "01").data \in Texts
        /\ Var("SEPARATOR", "", "00000000").data \in Texts
        /\ Var("ALLOW_PREBOOT_SEALING", "", "10000000").data \in Texts
        /\ Var("LINUX_SCENARIO_ID", "", "0200F000").data \in Texts
        /\ Var("LINUX_SCENARIO_VERSION", "", "01000000").data \in Texts
        /\ Var("db", "Entry", "entry").data \in Texts
      BY <2>1, <2>2, Zenon
  <2>4. QED
      BY <2>3, Zenon
<1>2. StaticVars \in Seq(S) /\ <<>> \in Seq(S) /\ x \in S
    BY DEF StaticVars
<1> HIDE DEF x, S
<1>3. VarsWithEntry \in Seq(S)
  <2>1. Append(StaticVars, x) \in Seq(S)
      BY <1>2, AppendProperties
  <2>2. QED
      BY <2>1 DEF VarsWithEntry, x
<1>4. ASSUME NEW vs \in Seq(S)
      PROVE  VarsTyped(vs)
  <2>1. DOMAIN vs = 1 .. Len(vs) /\ Len(vs) \in Nat /\ \A i \in 1 .. Len(vs) : vs[i] \in S
      BY <1>4, ElementOfSeq, LenProperties
  <2>2. QED
      BY <1>1, <2>1 DEF VarsTyped
<1>5. VarsTyped(StaticVars)
    BY <1>2, <1>4
<1>6. FilesTyped(Files)
    BY <1>5, VarsFound DEF FilesTyped, Files
<1>7. FilesTyped(NoFiles)
    BY DEF FilesTyped, NoFiles
<1>8. QED
    BY <1>2, <1>3, <1>4, <1>6, <1>7

LEMMA PoliciesTyped ==
    PolicyTyped(_policy) /\ PolicyTyped(_secureBootPolicy) /\ PolicyTyped(FinalPolicy)
<1> DEFINE E == {Entry("SecureBoot", "False", "EFIVAR", 7), Entry("SecureBoot", "True", "EFIVAR", 7),
                 Entry("PK", "", "EFIVAR", 7), Entry("KEK", "", "EFIVAR", 7),
                 Entry("db", "", "EFIVAR", 7), Entry("dbx", "", "EFIVAR", 7),
                 Entry("SEPARATOR", "", "BINARY", 7), Entry("db", "Entry", "EFIVAR", 7),
                 Entry("ALLOW_PREBOOT_SEALING", "", "BINARY", 11),
                 Entry("LINUX_SCENARIO_ID", "", "BINARY", 11),
                 Entry("LINUX_SCENARIO_VERSION", "", "BINARY", 11),
                 Entry("", "", "CAP", 11)}
           a == <<Entry("SecureBoot", "False", "EFIVAR", 7)>>
           b == <<Entry("SecureBoot", "True", "EFIVAR", 7)>>
           c == <<Entry("db", "Entry", "EFIVAR", 7)>>
           d == <<Entry("", "", "CAP", 11)>>
<1>1. \A e \in E : EntryTyped(e)
  <2>1. \A n, x, t, p : /\ Entry(n, x, t, p).pcr = p /\ Entry(n, x, t, p).type = t
                         /\ Entry(n, x, t, p).path[1] = n
      BY DEF Entry
  <2>2. \A n \in VarNames : \A x : EntryTyped(Entry(n, x, "EFIVAR", 7))
      BY <2>1 DEF EntryTyped, Mask
  <2>3. \A n, x : /\ EntryTyped(Entry(n, x, "BINARY", 7)) /\ EntryTyped(Entry(n, x, "BINARY", 11))
                  /\ EntryTyped(Entry(n, x, "CAP", 11))
      BY <2>1 DEF EntryTyped, Mask
  <2>4. VarNames = {"SecureBoot", "PK", "KEK", "db", "dbx"}
      BY DEF VarNames
  <2>5. QED
      BY <2>2, <2>3, <2>4, Zenon
<1>2. CommonEntries \in Seq(E)
    BY DEF CommonEntries
<1>3. ScenarioEntries \in Seq(E)
    BY DEF ScenarioEntries
<1>4. a \in Seq(E) /\ b \in Seq(E) /\ c \in Seq(E) /\ d \in Seq(E)
    OBVIOUS
<1>5. /\ _policy = a \o CommonEntries \o ScenarioEntries
      /\ _secureBootPolicy = b \o CommonEntries \o c \o ScenarioEntries
      /\ FinalPolicy = _policy \o d
    BY DEF _policy, _secureBootPolicy, FinalPolicy
<1> HIDE DEF E, a, b, c, d
<1>6. _policy \in Seq(E) /\ _secureBootPolicy \in Seq(E)
    BY <1>2, <1>3, <1>4, <1>5, ConcatProperties
<1>7. FinalPolicy \in Seq(E)
    BY <1>4, <1>5, <1>6, ConcatProperties
<1>8. ASSUME NEW p \in Seq(E)
      PROVE  PolicyTyped(p)
  <2>1. Len(p) \in Nat /\ \A i \in 1 .. Len(p) : p[i] \in E
      BY <1>8, ElementOfSeq, LenProperties
  <2>2. QED
      BY <1>1, <2>1 DEF PolicyTyped
<1>9. QED
    BY <1>6, <1>7, <1>8

LEMMA PredictStep ==
    ASSUME ClientsIInv, Predict
    PROVE  ClientsIInv'
<1> USE Parts
<1> DEFINE how == IF f.client = "sealpolicy" THEN [vars |-> <<>>, policy |-> FinalPolicy]
                  ELSE SealLSVMLoadPolicy
           files == IF f.client = "sealpolicy" THEN Files ELSE NoFiles
           m == MeasurePolicy(how.vars, files, nv, how.policy)
<1>1. /\ pc = "predict" /\ Keep
      /\ \/ /\ Local /\ pc' = "srk"
            /\ f' = [f EXCEPT !.vars = IF how.vars = <<>> THEN @ ELSE how.vars,
                              !.pcrs = Predicted(m)]
         \/ Fault /\ Exit(f)
    BY DEF Predict, Is, Goto, Set
<1>2. f.client \in PolicySealers /\ f.vars = StaticVars /\ nv \in Variables
    BY <1>1 DEF Program, Routing, VarsKept, MachineOK
<1>3. /\ how.vars = <<>> \/ how.vars \in {StaticVars, VarsWithEntry}
      /\ PolicyTyped(how.policy)
  <2>1. CASE f.client = "sealpolicy"
      BY <2>1, PoliciesTyped
  <2>2. CASE f.client = "seallsvmloadpolicy"
      BY <1>2, <2>2, PoliciesTyped DEF SealLSVMLoadPolicy
  <2>3. CASE f.client = "seallsvmloadpolicy --secureboot"
    <3>1. nv["db"] = "trusted"
        BY <1>2 DEF Variables
    <3>2. CheckImageDB(nv["db"]) = "entry"
        BY <3>1 DEF CheckImageDB
    <3>3. _InitLSVMLoadPolicy(f.vars) = VarsWithEntry
        BY <1>2, <3>2 DEF _InitLSVMLoadPolicy, VarsWithEntry
    <3>4. QED
        BY <2>3, <3>3, PoliciesTyped DEF SealLSVMLoadPolicy
  <2>4. QED
      BY <1>2, <2>1, <2>2, <2>3
<1>4. FilesTyped(files)
    BY TablesTyped
<1> DEFINE vs == IF how.vars = <<>> THEN StaticVars ELSE how.vars
<1>5. vs \in {StaticVars, VarsWithEntry}
    BY <1>3
<1>6. Predicted(m) \in Selections
  <2>1. VarsTyped(how.vars)
      BY <1>3, TablesTyped, Zenon
  <2> HIDE DEF how, files
  <2>2. m \in Measures
      BY <1>2, <1>3, <1>4, <2>1, PolicyMeasured
  <2> HIDE DEF m
  <2>3. QED
      BY <2>2, PredictedTyped
<1>7. MachineOK' /\ orphans' >= orphans /\ tpm' = tpm
    BY <1>1, LocalStep
<1>8. CASE /\ pc' = "srk"
           /\ f' = [f EXCEPT !.vars = IF how.vars = <<>> THEN @ ELSE how.vars,
                             !.pcrs = Predicted(m)]
  <2>1. f' = [f EXCEPT !.vars = vs, !.pcrs = Predicted(m)]
      BY <1>2, <1>8
  <2> DEFINE p == Predicted(m)
  <2>2. p \in Selections
      BY <1>6
  <2>3. f' = [f EXCEPT !.vars = vs, !.pcrs = p]
      BY <2>1
  <2> HIDE DEF how, files, m, vs, p
  <2>4. f' \in Frames /\ SameHandles /\ SameSeal
      BY <1>5, <2>2, <2>3 DEF Frames, SameHandles, SameSeal
  <2>5. Routing' /\ VarsKept' /\ SessionOpen'
      BY <1>2, <1>8, <2>4 DEF Routing, VarsKept, SessionOpen, SameSeal
  <2>6. Handles' /\ BlobKept'
      BY <1>1, <1>8, <2>4 DEF Program, Handles, BlobKept, SameSeal, SameHandles, Keep
  <2>7. QED
      BY <1>7, <2>4, <2>5, <2>6, AccountSame, Whole DEF Program
<1>9. CASE Exit(f)
  <2>1. Program' /\ SessionOpen' /\ SameHandles
      BY <1>1, <1>9, Exits DEF Keep
  <2>2. QED
      BY <1>7, <2>1, AccountSame, Whole
<1>10. QED
    BY <1>1, <1>8, <1>9

LEMMA NewFrame ==
    ASSUME NEW c \in Clients
    PROVE  /\ Frame(c) \in Frames /\ Frame(c).client = c
           /\ Frame(c).srk = Nil /\ Frame(c).session = Nil /\ Frame(c).object = Nil
           /\ Frame(c).vars = StaticVars /\ Frame(c).status = "error"
           /\ Frame(c).built = FALSE /\ Frame(c).i = 0
    BY DEF Frame, Frames, Codes

\* A client begins with nothing, whichever it is.
LEMMA Begins ==
    ASSUME NEW c \in Clients, pc' = "lockreset", f' = Frame(c)
    PROVE  Program' /\ SessionOpen'
<1>1. /\ f' \in Frames /\ f'.srk = Nil /\ f'.session = Nil /\ f'.object = Nil
      /\ f'.vars = StaticVars /\ f'.status = "error" /\ f'.built = FALSE /\ f'.i = 0
    BY NewFrame
<1>2. QED
    BY <1>1 DEF Program, Routing, Handles, VarsKept, BlobKept, SessionOpen

LEMMA RunStep ==
    ASSUME ClientsIInv, NEW c \in Commands, Run(c)
    PROVE  ClientsIInv'
<1> USE Parts
<1>1. /\ pc = "idle" /\ pc' = "lockreset" /\ f' = Frame(c) /\ c \in Clients
      /\ Local /\ UNCHANGED <<nv, file, phase, sealedFor>>
      /\ runs' = runs + 1 /\ runs < MaxRuns
    BY ClientsAssumption DEF Run, Is, Goto, Set
<1>2. MachineOK' /\ orphans' >= orphans /\ tpm' = tpm
  <2>1. runs' \in 0 .. MaxRuns
    <3>1. runs \in 0 .. MaxRuns /\ MaxRuns \in Nat
        BY ClientsAssumption DEF MachineOK
    <3>2. runs' = runs + 1 /\ runs < MaxRuns
        BY <1>1
    <3>3. QED
        BY <3>1, <3>2
  <2>2. tpm' = tpm /\ faults' = faults /\ orphans' = orphans /\ orphans \in Nat
      BY <1>1 DEF Local, MachineOK
  <2>3. nv' = nv /\ file' = file /\ phase' = phase
      BY <1>1
  <2>4. QED
      BY <2>1, <2>2, <2>3 DEF MachineOK
<1>3. Program' /\ SessionOpen'
    BY <1>1, Begins
<1>4. SameHandles
    BY <1>1, NewFrame DEF SameHandles, Program, Handles
<1>5. QED
    BY <1>2, <1>3, <1>4, AccountSame, Whole

\* A chip that was just reset holds nothing.
LEMMA NewChip ==
    ASSUME NEW v \in Variables, NEW persistent \in BOOLEAN
    PROVE  /\ Chip(Firmware(v), persistent) \in Chips
           /\ Used(Chip(Firmware(v), persistent).session) = {}
           /\ Used(Chip(Firmware(v), persistent).object) = {}
<1> DEFINE m == Firmware(v)
<1>1. m \in Registers
    BY FirmwareTyped
<1> HIDE DEF m
<1>2. /\ Chip(m, persistent) \in Chips
      /\ Chip(m, persistent).session = [s \in Sessions |-> Nil]
      /\ Chip(m, persistent).object = [o \in Objects |-> Nil]
    BY <1>1 DEF Chip, Chips
<1>3. Used([s \in Sessions |-> Nil]) = {} /\ Used([o \in Objects |-> Nil]) = {}
    BY DEF Used, FreeSlots
<1>4. QED
    BY <1>2, <1>3 DEF m

LEMMA RebootStep ==
    ASSUME ClientsIInv, Reboot
    PROVE  ClientsIInv'
<1> USE Parts
<1>1. PICK v \in Variables : nv' = v /\ tpm' = Chip(Firmware(v), tpm.persistent)
    BY DEF Reboot
<1>2. /\ phase' = "loader" /\ pc' = "lockreset" /\ f' = Frame("lsvmload")
      /\ runs' = 0 /\ orphans' = 0 /\ UNCHANGED <<file, faults, sealedFor>>
    BY DEF Reboot, Goto, Set
<1>3. /\ tpm' \in Chips /\ Used(tpm'.session) = {} /\ Used(tpm'.object) = {}
    BY <1>1, NewChip DEF Chips
<1>4. MachineOK'
  <2>1. runs' \in 0 .. MaxRuns /\ orphans' \in Nat
    <3>1. MaxRuns \in Nat
        BY ClientsAssumption
    <3>2. runs' = 0 /\ orphans' = 0
        BY <1>2
    <3>3. QED
        BY <3>1, <3>2
  <2>2. QED
      BY <1>1, <1>2, <1>3, <2>1 DEF MachineOK
<1>5. Program' /\ SessionOpen'
    BY <1>2, Begins
<1>6. Accounted'
  <2>1. SessionsLeft' = {} /\ ObjectsLeft' = {}
      BY <1>3 DEF SessionsLeft, ObjectsLeft
  <2>2. QED
      BY <1>2, <2>1, FS_EmptySet DEF Accounted
<1>7. QED
    BY <1>4, <1>5, <1>6, Whole

LEMMA ClientsInit ==
    ASSUME Init
    PROVE  ClientsIInv
<1>1. PICK persistent \in BOOLEAN : tpm = Chip(Firmware(nv), persistent)
    BY DEF Init
<1>2. /\ tpm \in Chips /\ Used(tpm.session) = {} /\ Used(tpm.object) = {}
    BY <1>1, NewChip DEF Init
<1>3. /\ f \in Frames /\ f.srk = Nil /\ f.session = Nil /\ f.object = Nil
      /\ f.vars = StaticVars /\ f.status = "error" /\ f.built = FALSE /\ f.i = 0
      /\ pc = "lockreset"
    BY NewFrame DEF Init
<1>4. Routing /\ Handles /\ SessionOpen /\ VarsKept /\ BlobKept
    BY <1>3 DEF Routing, Handles, VarsKept, BlobKept, SessionOpen
<1>5. TypeOK
  <2>1. /\ nv \in Variables /\ phase = "loader" /\ file = Nil
        /\ faults = MaxFaults /\ runs = 0 /\ orphans = 0
      BY DEF Init
  <2>2. faults \in 0 .. MaxFaults /\ runs \in 0 .. MaxRuns /\ orphans \in Nat
    <3>1. MaxFaults \in Nat /\ MaxRuns \in Nat
        BY ClientsAssumption
    <3>2. QED
        BY <2>1, <3>1
  <2>3. QED
      BY <1>2, <1>3, <2>1, <2>2 DEF TypeOK
<1>6. Accounted
  <2>1. SessionsLeft = {} /\ ObjectsLeft = {}
      BY <1>2 DEF SessionsLeft, ObjectsLeft
  <2>2. QED
      BY <2>1, FS_EmptySet DEF Accounted, Init
<1>7. QED
    BY <1>4, <1>5, <1>6 DEF ClientsIInv

-----------------------------------------------------------------------------

\* Every step of every program keeps ClientsIInv.
LEMMA ClientsNext ==
    ASSUME ClientsIInv, [Next]_vars
    PROVE  ClientsIInv'
<1>1. CASE UNCHANGED vars
  <2>1. /\ tpm' = tpm /\ nv' = nv /\ file' = file /\ phase' = phase /\ pc' = pc
        /\ f' = f /\ faults' = faults /\ runs' = runs /\ orphans' = orphans
      BY <1>1 DEF vars
  <2>2. TypeOK' /\ VarsKept' /\ BlobKept'
      BY <2>1 DEF ClientsIInv, TypeOK, VarsKept, BlobKept
  <2>5. Routing'
      BY <2>1 DEF ClientsIInv, Routing
  <2>6. Handles' /\ SessionOpen'
      BY <2>1 DEF ClientsIInv, Handles, SessionOpen
  <2>3. Accounted'
      BY <2>1 DEF ClientsIInv, Accounted, SessionsLeft, ObjectsLeft
  <2>4. QED
      BY <2>2, <2>3, <2>5, <2>6 DEF ClientsIInv
<1>2. CASE LockReset \/ Lockout \/ CreateSRK \/ FlushSRK
    BY <1>2, LockResetStep, LockoutStep, CreateSRKStep, FlushSRKStep
<1>3. CASE PolicyPassword \/ PolicyRead \/ PolicyPCR
    BY <1>3, PolicyPasswordStep, PolicyReadStep, PolicyPCRStep
<1>4. CASE LoadInput \/ Predict \/ SealSession \/ SealDigest \/ SealCreate
    BY <1>4, LoadInputStep, PredictStep, SealSessionStep, SealDigestStep, SealCreateStep
<1>5. CASE SealFlush \/ SealPolicy \/ PutFile
    BY <1>5, SealFlushStep, SealPolicyStep, PutFileStep
<1>6. CASE LoadSealedData \/ _Get_SRK \/ UnsealSession \/ UnsealLoad \/ UnsealUnseal
    BY <1>6, LoadSealedDataStep, GetSRKStep, UnsealSessionStep, UnsealLoadStep, UnsealUnsealStep
<1>7. CASE UnsealFlushSession \/ UnsealFlushObject \/ Unsealed \/ SplitKeys
    BY <1>7, UnsealFlushSessionStep, UnsealFlushObjectStep, UnsealedStep, SplitKeysStep
<1>8. CASE Scenario \/ CapBefore \/ CapSHA1 \/ CapSHA256
    BY <1>8, ScenarioStep, CapBeforeStep, CapSHA1Step, CapSHA256Step
<1>9. CASE CapAfter \/ CapAllRead \/ CapAllCheck
    BY <1>9, CapAfterStep, CapBeforeStep, CapAllCheckStep
<1>10. CASE Reboot \/ \E c \in Commands : Run(c)
    BY <1>10, RebootStep, RunStep
<1>11. QED
    BY <1>1, <1>2, <1>3, <1>4, <1>5, <1>6, <1>7, <1>8, <1>9, <1>10 DEF Next

\* The invariant says of a client that has returned what ClientsInv does.
LEMMA ClientsIInvEnough ==
    ASSUME ClientsIInv
    PROVE  ClientsInv
<1> USE Parts
<1>1. NothingLeftBehind
  <2>1. SUFFICES ASSUME pc = "idle"
                 PROVE  /\ Cardinality(Used(tpm.session)) + Cardinality(Used(tpm.object)) <= orphans
                        /\ f.vars = StaticVars
      BY DEF NothingLeftBehind, Is
  <2>2. f.session = Nil /\ f.object = Nil /\ f.srk = Nil /\ f.vars = StaticVars
      BY <2>1 DEF Program, Handles, VarsKept
  <2>3. SessionsLeft = Used(tpm.session) /\ ObjectsLeft = Used(tpm.object)
      BY <2>2, NilNotUsed DEF SessionsLeft, ObjectsLeft
  <2>4. QED
      BY <2>2, <2>3 DEF Accounted
<1>2. SealedWhenBuilt
    BY DEF SealedWhenBuilt, Is, Program, BlobKept
<1>3. QED
    BY <1>1, <1>2 DEF ClientsInv, ClientsIInv

\* Whatever calls fail, whatever answers are lost, and in whatever order the
\* boots and the commands of lsvmtool follow each other: a client that has
\* returned (TPM2X_Seal, TPM2X_Unseal, UnsealKey and the commands, on every
\* error path) leaves no session and no object in the chip but those whose
\* handle was lost with an answer or whose flush was not sent, _vars is the
\* static table again, and a sealing command that exits with 0 after
\* TPM2X_BuildPolicy succeeded has written the blob it sealed.
THEOREM ClientsSafe == Spec => []ClientsInv
<1>1. Init => ClientsIInv
    BY ClientsInit
<1>2. ClientsIInv /\ [Next]_vars => ClientsIInv'
    BY ClientsNext
<1>3. ClientsIInv => ClientsInv
    BY ClientsIInvEnough
<1>4. QED
    BY <1>1, <1>2, <1>3, PTL DEF Spec
====
