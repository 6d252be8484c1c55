------------------------------ MODULE TpmClients ------------------------------
(***************************************************************************)
(* The programs that use the TPM, one at a time: lsvmload during a boot,   *)
(* then the lsvmtool commands an administrator runs.  Each call of a TPM   *)
(* command is one step; TPM2X_Seal, TPM2X_Unseal, TPM2X_BuildPolicy and    *)
(* TPM2X_Cap are shared, and what follows them depends on the client.      *)
(*                                                                         *)
(* f is the frame of the running client: its handles and locals.  file is  *)
(* 'sealedkeys', the policy of the blob in it.                             *)
(***************************************************************************)
EXTENDS TpmPolicy

CONSTANTS
    Dbxs,           \* contents of the dbx variable
    Commands,       \* the lsvmtool commands that are run
    MaxFaults,      \* bound on lost requests and lost answers
    MaxRuns         \* bound on commands between two boots

VARIABLES
    tpm, nv, file, phase, pc, f, faults, runs,
    orphans,        \* history: handles lost with an answer or a failed flush
    sealedFor       \* history: what the blob in file was sealed for

vars == <<tpm, nv, file, phase, pc, f, faults, runs, orphans, sealedFor>>

\* The programs, and the bounds.
Clients == {"lsvmload", "seal", "sealpolicy", "seallsvmloadpolicy",
            "seallsvmloadpolicy --secureboot", "unseal", "unseal --cap",
            "srk", "cappcr11", "capall"}
ASSUME ClientsAssumption ==
    /\ Commands \subseteq Clients \ {"lsvmload"}
    /\ MaxFaults \in Nat /\ MaxRuns \in Nat

Mask == {7, 11}
Sealers == {"seal", "sealpolicy", "seallsvmloadpolicy", "seallsvmloadpolicy --secureboot"}
Unsealers == {"unseal", "unseal --cap"}

\* The types of registers and digests: a policy of a session may still lack its
\* registers, a policy something was sealed with never does.
Texts == {"00", "01", "pk", "kek", "trusted", "entry", "00000000", "10000000",
          "0200F000", "01000000", "zeros"} \cup Dbxs
Digests == {"", "SecureBoot", "PK", "KEK", "db", "dbx"} \X Texts
Registers == [PCRs -> Seq(Digests)]
Selections == [Mask -> Seq(Digests)] \cup [{7} -> Seq(Digests)]
              \cup [{11} -> Seq(Digests)] \cup [{} -> Seq(Digests)]
Policies == [password : BOOLEAN, pcrs : Selections \cup {Nil}]
SealPolicies == [password : BOOLEAN, pcrs : Selections]
SessionStates == [type : {"trial", "policy"}, policy : Policies]
ObjectStates == [what : {"srk", "sealed"}, policy : SealPolicies \cup {Nil}]
Chips == [pcr : [Banks -> Registers],
          session : [Sessions -> SessionStates \cup {Nil}],
          object : [Objects -> ObjectStates \cup {Nil}],
          tries : {"default", "relaxed"}, persistent : BOOLEAN]

\* The UEFI variables that are measured.
Variables == [SecureBoot : {"00", "01"}, PK : {"pk"}, KEK : {"kek"},
              db : {"trusted"}, dbx : Dbxs]

\* No value is none of the values, and uninitialized bytes are no policy.
ASSUME NilAssumption ==
    /\ Nil \notin Sessions \cup Objects
    /\ Nil \notin SessionStates /\ Nil \notin ObjectStates
    /\ Nil \notin Selections /\ Nil \notin SealPolicies
    /\ Nil \notin Texts /\ Nil \notin [client : Sealers, nv : Variables]
    /\ Garbage \notin SealPolicies /\ Nil # Garbage /\ Nil # "keys"

Frame(client) ==
    [client |-> client,
     srk |-> Nil,          \* handle of the storage root key to flush
     parent |-> Nil,       \* srkHandle
     session |-> Nil,
     object |-> Nil,
     proc |-> "",          \* who called TPM2X_BuildPolicy
     pcrs |-> Nil,         \* predicted or read registers
     digest |-> Nil,       \* policyDigest of TPM2X_Seal
     vars |-> StaticVars,  \* _vars of lsvmloadpolicy.c
     built |-> FALSE,      \* TPM2X_BuildPolicy succeeded
     rc |-> "success",
     blob |-> Garbage,
     before |-> Nil,       \* pcrBefore of CapPCR, sha1s and sha256s of CapAll
     i |-> 0,
     data |-> Nil,         \* what was unsealed
     status |-> "error"]   \* exit status

Is(l) == pc = l
Goto(l) == pc' = l
Set(g) == f' = g
Keep == UNCHANGED <<nv, file, phase, runs, sealedFor>>

\* One call of a TPM function at this step, with one of its outcomes: a fault
\* costs one of MaxFaults.  A lost answer loses the handle in it, a flush that
\* is not sent leaves one behind.
Creates == {"srk", "seal.session", "unseal.session", "unseal.load"}
Flushes == {"seal.flush", "unseal.flush", "unseal.flushobject", "flushsrk"}
Returns(o) ==
    /\ tpm' = o.tpm
    /\ IF o.fault = "none" THEN UNCHANGED faults
       ELSE faults > 0 /\ faults' = faults - 1
    /\ orphans' = orphans +
        IF \/ pc \in Creates /\ o.fault = "lost"
           \/ pc \in Flushes /\ o.fault = "unsent"
        THEN 1 ELSE 0
Call(outcomes, Ok(_), Failed(_)) ==
    \E o \in outcomes :
        /\ Returns(o) /\ Keep
        /\ IF o.rc = "success" THEN Ok(o.out) ELSE Failed(o.rc)

\* A step of the program itself.
Local == UNCHANGED <<tpm, faults, orphans>>
Fault == faults > 0 /\ faults' = faults - 1 /\ UNCHANGED <<tpm, orphans>>

Init ==
    /\ nv \in Variables
    /\ \E persistent \in BOOLEAN : tpm = Chip(Firmware(nv), persistent)
    /\ file = Nil /\ sealedFor = Nil
    /\ phase = "loader" /\ pc = "lockreset" /\ f = Frame("lsvmload")
    /\ faults = MaxFaults /\ runs = 0 /\ orphans = 0

-----------------------------------------------------------------------------
(* Beginning and end of a client.                                          *)

\* SealLSVMLoadPolicy removes its variable again, if it is the last one.
_ReleaseLSVMLoadPolicy(vs) ==
    IF vs[Len(vs)].path = <<"db", "Entry">> THEN SubSeq(vs, 1, Len(vs) - 1) ELSE vs

\* lsvmload gives up ("goto done"), or goes on to start the system; a command
\* of lsvmtool exits with f.status.
Exit(g) ==
    Goto("idle") /\ Set([g EXCEPT !.vars = _ReleaseLSVMLoadPolicy(@)])

\* _GetTPMProtocol, and Initialize of lsvmload: both commands have to work.
LockReset ==
    /\ Is("lockreset")
    /\ Call(TPM2X_SetDictionaryAttackLockReset(tpm),
            LAMBDA out : Goto("lockout") /\ Set(f),
            LAMBDA rc : Exit(f))

AfterLockout ==
    CASE f.client = "lsvmload" -> "scenario"
      [] f.client \in {"sealpolicy", "seallsvmloadpolicy",
                       "seallsvmloadpolicy --secureboot"} -> "predict"
      [] f.client = "cappcr11" -> "cap.sha1"
      [] f.client = "capall" -> "capall.read"
      [] OTHER -> "srk"

Lockout ==
    /\ Is("lockout")
    /\ Call(TPM2X_SetLockoutParams(tpm),
            LAMBDA out : Goto(AfterLockout) /\ Set(f),
            LAMBDA rc : Exit(f))

\* "Create the storage root key": the client's own step after it.
AfterSRK ==
    CASE f.client = "srk" -> "flushsrk"
      [] f.client \in Unsealers -> "load"
      [] f.client = "lsvmload" -> "unseal.session"
      [] f.client = "seal" -> "input"
      [] OTHER -> "seal.session"

\* Without a key, UnsealKey goes on to CapPCR, a command of lsvmtool exits;
\* unseal caps PCR[11] first.  lsvmload flushes the handle it does not have,
\* for _Get_SRK has set isHandleStatic to FALSE: any object may be hit.
NoSRK(g) ==
    CASE f.client = "lsvmload" ->
            \E h \in Objects : Goto("flushsrk") /\ Set([g EXCEPT !.srk = h])
      [] f.client \in Unsealers -> Goto("cap.sha1") /\ Set(g)
      [] OTHER -> Exit(g)

CreateSRK ==
    /\ Is("srk")
    /\ Call(TPM2X_CreateSRKKey(tpm),
            LAMBDA h : Goto(AfterSRK) /\ Set([f EXCEPT !.srk = h, !.parent = h]),
            LAMBDA rc : NoSRK(f))

\* The last flush of a client; its result is not looked at.
AfterFlush ==
    CASE f.client = "lsvmload" -> "split"
      [] f.client \in Sealers \ {"seal"} /\ f.status = "sealed" -> "put"
      [] OTHER -> "idle"

FlushSRK ==
    /\ Is("flushsrk")
    /\ IF f.srk = Nil
       THEN Goto(AfterFlush) /\ Set(f) /\ Local /\ Keep
       ELSE /\ Goto(AfterFlush)
            /\ Set([f EXCEPT !.srk = Nil, !.vars = _ReleaseLSVMLoadPolicy(@)])
            /\ Call(TPM2_FlushContext(tpm, "object", f.srk),
                    LAMBDA out : TRUE, LAMBDA rc : TRUE)

-----------------------------------------------------------------------------
(* TPM2X_BuildPolicy, called by TPM2X_Seal and TPM2X_Unseal.               *)

\* "goto done" in both; only TPM2X_Unseal keeps the code.
PolicyFailed(rc) ==
    IF f.proc = "seal" THEN Goto("seal.flush") /\ Set(f)
    ELSE Goto("unseal.flush") /\ Set([f EXCEPT !.rc = rc])

PolicyPassword ==
    /\ Is("policy.password")
    /\ Call(TPM2_PolicyPassword(tpm, f.session),
            LAMBDA out : /\ Goto(IF f.pcrs = Nil THEN "policy.read" ELSE "policy.pcr")
                         /\ Set(f),
            PolicyFailed)

\* Not predictive: the registers as they are.
PolicyRead ==
    /\ Is("policy.read")
    /\ Call(TPM2_PCR_Read(tpm, "SHA256", Mask),
            LAMBDA out : Goto("policy.pcr") /\ Set([f EXCEPT !.pcrs = out]),
            PolicyFailed)

\* Mutant of PolicyPCR: PCR[7] is left out of the selection.
PolicyPCRWithout7 ==
    /\ Is("policy.pcr")
    /\ Call(TPM2_PolicyPCR(tpm, f.session, "SHA256", [p \in {11} |-> f.pcrs[p]]),
            LAMBDA out :
                /\ Goto(IF f.proc = "seal" THEN "seal.digest" ELSE "unseal.load")
                /\ Set([f EXCEPT !.built = TRUE]),
            PolicyFailed)

PolicyPCR ==
    /\ Is("policy.pcr")
    /\ Call(TPM2_PolicyPCR(tpm, f.session, "SHA256", f.pcrs),
            LAMBDA out :
                /\ Goto(IF f.proc = "seal" THEN "seal.digest" ELSE "unseal.load")
                /\ Set([f EXCEPT !.built = TRUE]),
            PolicyFailed)

-----------------------------------------------------------------------------
(* The sealing commands, and TPM2X_Seal.                                   *)

\* LoadFile of the keys in _seal_command.
LoadInput ==
    /\ Is("input") /\ Set(f) /\ Keep
    /\ \/ Local /\ Goto("seal.session")
       \/ Fault /\ Goto("flushsrk")

\* The variable db.Entry for the image of lsvmload is appended to _vars.
_InitLSVMLoadPolicy(vs) == Append(vs, Var("db", "Entry", CheckImageDB(nv["db"])))

\* SealLSVMLoadPolicy up to the call of SealPolicy: which policy, which vars.
SealLSVMLoadPolicy ==
    IF f.client = "seallsvmloadpolicy --secureboot"
    THEN [vars |-> _InitLSVMLoadPolicy(f.vars), policy |-> _secureBootPolicy]
    ELSE [vars |-> f.vars, policy |-> _policy]

\* _sealpolicy_command has no vars: the values are in files of those names.
Files == [p \in {StaticVars[i].path : i \in DOMAIN StaticVars} |-> VarsFind(StaticVars, p)]
NoFiles == [p \in {} |-> Nil]

\* SealPolicy up to the creation of the key.  A file or variable that cannot be
\* read ends it, and so do the other checks of the commands.
Predict ==
    /\ Is("predict") /\ Keep
    /\ LET how == IF f.client = "sealpolicy" THEN [vars |-> <<>>, policy |-> FinalPolicy]
                  ELSE SealLSVMLoadPolicy
           m == MeasurePolicy(how.vars, IF f.client = "sealpolicy" THEN Files ELSE NoFiles,
                              nv, how.policy)
       IN \/ /\ Local /\ m.ok /\ Goto("srk")
             /\ Set([f EXCEPT !.vars = IF how.vars = <<>> THEN @ ELSE how.vars,
                              !.pcrs = Predicted(m)])
          \/ Fault /\ Exit(f)

\* The early return leaves no handle to flush.
SealSession ==
    /\ Is("seal.session")
    /\ Call(TPM2X_StartAuthSession(tpm, TRUE),
            LAMBDA s : /\ Goto("policy.password")
                       /\ Set([f EXCEPT !.session = s, !.proc = "seal"]),
            LAMBDA rc : Goto("sealed") /\ Set([f EXCEPT !.rc = rc]))

SealDigest ==
    /\ Is("seal.digest")
    /\ Call(TPM2_PolicyGetDigest(tpm, f.session),
            LAMBDA d : Goto("seal.create") /\ Set([f EXCEPT !.digest = d]),
            LAMBDA rc : Goto("seal.flush") /\ Set([f EXCEPT !.rc = rc]))

SealCreate ==
    /\ Is("seal.create") /\ Goto("seal.flush")
    /\ Call(TPM2_Create(tpm, f.srk, f.digest),
            LAMBDA b : Set([f EXCEPT !.blob = b]),
            LAMBDA rc : Set([f EXCEPT !.rc = rc]))

SealFlush ==
    /\ Is("seal.flush") /\ Goto("sealed")
    /\ Set([f EXCEPT !.session = Nil])
    /\ Call(TPM2_FlushContext(tpm, "session", f.session),
            LAMBDA out : TRUE, LAMBDA rc : TRUE)

\* Back in _seal_command or SealPolicy: TPM2X_SerializeBlob, then the file is
\* written, by _seal_command before the key is flushed.
SealPolicy ==
    /\ Is("sealed") /\ Local /\ Keep
    /\ IF f.rc # "success" THEN Goto("flushsrk") /\ Set(f)
       ELSE \E b \in TPM2X_SerializeBlob(f.blob) :
            IF b = Nil THEN Goto("flushsrk") /\ Set(f)
            ELSE /\ Goto(IF f.client = "seal" THEN "put" ELSE "flushsrk")
                 /\ Set([f EXCEPT !.blob = b, !.status = "sealed"])

\* PutFile; a command whose file cannot be written exits with an error.
PutFile ==
    /\ Is("put") /\ UNCHANGED <<nv, phase, runs>>
    /\ Goto(IF f.client = "seal" THEN "flushsrk" ELSE "idle")
    /\ \/ /\ Local
          /\ file' = f.blob
          /\ sealedFor' = [client |-> f.client, nv |-> nv]
          /\ Set([f EXCEPT !.status = "ok"])
       \/ /\ Fault
          /\ file' \in {file, Nil} /\ sealedFor' = IF file' = Nil THEN Nil ELSE sealedFor
          /\ Set([f EXCEPT !.status = "error"])

-----------------------------------------------------------------------------
(* The unsealing clients, and TPM2X_Unseal.                                *)

\* LoadSealedData of lsvmload, LoadFile and TPM2X_DeserializeBlob of unseal.
LoadSealedData ==
    /\ Is("load") /\ Keep
    /\ \/ \E b \in TPM2X_DeserializeBlob(file) :
            /\ Local
            /\ Set([f EXCEPT !.blob = b])
            /\ CASE f.client = "lsvmload" -> Goto(IF b = Nil THEN "cap.before" ELSE "readpublic")
                 [] OTHER -> Goto(IF b = Nil THEN "cap.sha1" ELSE "unseal.session")
       \/ /\ Fault /\ Set([f EXCEPT !.blob = Nil])
          /\ Goto(IF f.client = "lsvmload" THEN "cap.before" ELSE "cap.sha1")

\* _Get_SRK: the well known key if it exists, one of its own if the handle is
\* unknown; anything else ends UnsealKey.
_Get_SRK ==
    /\ Is("readpublic")
    /\ Call(TPM2_ReadPublic(tpm, SRKHandle),
            LAMBDA out : Goto("unseal.session") /\ Set([f EXCEPT !.parent = SRKHandle]),
            LAMBDA rc : Goto(IF rc = "handle" THEN "srk" ELSE "cap.before") /\ Set(f))

\* blob->public.publicArea.nameAlg of garbage is neither SHA1 nor SHA256.
UnsealSession ==
    /\ Is("unseal.session")
    /\ \/ /\ f.blob = Garbage /\ Local /\ Keep
          /\ Goto("unsealed") /\ Set([f EXCEPT !.rc = "failure"])
       \/ Call(TPM2X_StartAuthSession(tpm, FALSE),
               LAMBDA s : /\ Goto("policy.password")
                          /\ Set([f EXCEPT !.session = s, !.proc = "unseal"]),
               LAMBDA rc : Goto("unsealed") /\ Set([f EXCEPT !.rc = rc]))

UnsealLoad ==
    /\ Is("unseal.load")
    /\ Call(TPM2_Load(tpm, f.parent, f.blob),
            LAMBDA o : Goto("unseal.unseal") /\ Set([f EXCEPT !.object = o]),
            LAMBDA rc : Goto("unseal.flush") /\ Set([f EXCEPT !.rc = rc]))

\* The chip has released the session if it succeeded.
UnsealUnseal ==
    /\ Is("unseal.unseal") /\ Goto("unseal.flush")
    /\ Call(TPM2_Unseal(tpm, f.object, f.session),
            LAMBDA d : Set([f EXCEPT !.data = d, !.session = Nil]),
            LAMBDA rc : Set([f EXCEPT !.rc = rc]))

UnsealFlushSession ==
    /\ Is("unseal.flush") /\ Goto("unseal.flushobject")
    /\ Set([f EXCEPT !.session = Nil])
    /\ IF f.session = Nil THEN Local /\ Keep
       ELSE Call(TPM2_FlushContext(tpm, "session", f.session),
                 LAMBDA out : TRUE, LAMBDA rc : TRUE)

\* Mutant of UnsealFlushObject: the sealed object is flushed only on success.
UnsealFlushObjectOnSuccess ==
    /\ Is("unseal.flushobject") /\ Goto("unsealed")
    /\ Set([f EXCEPT !.object = Nil])
    /\ IF f.object = Nil \/ f.rc # "success" THEN Local /\ Keep
       ELSE Call(TPM2_FlushContext(tpm, "object", f.object),
                 LAMBDA out : TRUE, LAMBDA rc : TRUE)

UnsealFlushObject ==
    /\ Is("unseal.flushobject") /\ Goto("unsealed")
    /\ Set([f EXCEPT !.object = Nil])
    /\ IF f.object = Nil THEN Local /\ Keep
       ELSE Call(TPM2_FlushContext(tpm, "object", f.object),
                 LAMBDA out : TRUE, LAMBDA rc : TRUE)

\* Back in _unseal_command, which writes the keys out and caps PCR[11] if told
\* so or if anything failed, or in UnsealKey, whose status is already success.
Unsealed ==
    /\ Is("unsealed") /\ Keep
    /\ \/ f.client = "lsvmload" /\ Local /\ Goto("flushsrk") /\ Set(f)
       \/ /\ f.client # "lsvmload" /\ f.rc = "success" /\ Local
          /\ Goto(IF f.client = "unseal --cap" THEN "cap.sha1" ELSE "flushsrk")
          /\ Set([f EXCEPT !.status = "ok"])
       \/ /\ f.client # "lsvmload"
          /\ IF f.rc = "success" THEN Fault ELSE Local
          /\ Goto("cap.sha1") /\ Set(f)

\* SplitKeys refuses the null pointer UnsealKey returns when it got no keys.
SplitKeys ==
    /\ Is("split") /\ Local /\ Keep /\ Goto("cap.before")
    /\ Set([f EXCEPT !.status = IF f.data = Nil THEN "error" ELSE "keys"])

-----------------------------------------------------------------------------
(* MeasureLinuxScenario, TPM2X_Cap, CapPCR and TPM2X_CapAll.               *)

\* Three extensions; the first that fails ends the boot.
Scenario ==
    /\ Is("scenario")
    /\ Call(HashLogExtendEvent(tpm, 11, ComputeHash(MeasureLinuxScenario[f.i + 1])),
            LAMBDA out : /\ Goto(IF f.i = 2 THEN "load" ELSE "scenario")
                         /\ Set([f EXCEPT !.i = (@ + 1) % 3]),
            LAMBDA rc : Exit(f))

CapBefore ==
    /\ Is("cap.before")
    /\ Call(TPM2X_ReadPCRSHA256(tpm, 11),
            LAMBDA out : Goto("cap.sha1") /\ Set([f EXCEPT !.before = out]),
            LAMBDA rc : Exit(f))

\* Which register is capped: PCR[11], or each in turn (the order of PCRs).
PCROrder == <<0, 7, 11>>
CapPCRNumber == IF f.client = "capall" THEN PCROrder[f.i + 1] ELSE 11

\* A failure after one bank or none.  _unseal_command does not report it.
CapFailed(rc) ==
    IF f.client \in Unsealers THEN Goto("flushsrk") /\ Set(f) ELSE Exit(f)

CapSHA1 ==
    /\ Is("cap.sha1")
    /\ Call(TPM2_PCR_Extend(tpm, "SHA1", CapPCRNumber, Zeros),
            LAMBDA out : Goto("cap.sha256") /\ Set(f),
            CapFailed)

AfterCap ==
    CASE f.client = "lsvmload" -> "cap.after"
      [] f.client \in Unsealers -> "flushsrk"
      [] f.client = "capall" -> IF f.i + 1 = Len(PCROrder) THEN "capall.check" ELSE "cap.sha1"
      [] OTHER -> "idle"

CapSHA256 ==
    /\ Is("cap.sha256")
    /\ Call(TPM2_PCR_Extend(tpm, "SHA256", CapPCRNumber, Zeros),
            LAMBDA out : /\ Goto(AfterCap)
                         /\ Set([f EXCEPT !.i = @ + 1,
                                 !.status = IF f.client = "cappcr11" THEN "ok" ELSE @]),
            CapFailed)

\* "If capping did not actually change PCR[N], then fail"; otherwise the boot
\* goes on, with the keys or by asking for a passphrase.
CapAfter ==
    /\ Is("cap.after")
    /\ \E o \in TPM2X_ReadPCRSHA256(tpm, 11) :
        /\ Returns(o)
        /\ phase' = IF o.rc = "success" /\ o.out # f.before THEN "os" ELSE phase
        /\ Exit(f)
        /\ UNCHANGED <<nv, file, runs, sealedFor>>

\* "Save the values of all the PCRs": TPM2X_CapAll reads PCR[0] each time, in
\* both banks; one read stands for the loop.
CapAllRead ==
    /\ Is("capall.read")
    /\ Call(TPM2X_ReadPCRSHA256(tpm, 0),
            LAMBDA out : Goto("cap.sha1") /\ Set([f EXCEPT !.before = out]),
            LAMBDA rc : Exit(f))

CapAllCheck ==
    /\ Is("capall.check")
    /\ Call(TPM2X_ReadPCRSHA256(tpm, 0),
            LAMBDA out : Exit([f EXCEPT !.status = IF out = f.before THEN "error" ELSE "ok"]),
            LAMBDA rc : Exit(f))

-----------------------------------------------------------------------------
(* The machine: commands, reboots, and changes of the variables.           *)

Run(c) ==
    /\ Is("idle") /\ phase = "os" /\ runs < MaxRuns
    /\ runs' = runs + 1
    /\ Goto("lockreset") /\ Set(Frame(c))
    /\ Local /\ UNCHANGED <<nv, file, phase, sealedFor>>

\* A reset, with other variables or the same.
Reboot ==
    /\ \E v \in Variables :
        /\ nv' = v
        /\ tpm' = Chip(Firmware(v), tpm.persistent)
    /\ Is("idle")
    /\ phase' = "loader" /\ Goto("lockreset") /\ Set(Frame("lsvmload"))
    /\ runs' = 0 /\ orphans' = 0
    /\ UNCHANGED <<file, faults, sealedFor>>

Next ==
    \/ LockReset \/ Lockout \/ CreateSRK \/ FlushSRK
    \/ PolicyPassword \/ PolicyRead \/ PolicyPCR
    \/ LoadInput \/ Predict \/ SealSession \/ SealDigest \/ SealCreate \/ SealFlush
    \/ SealPolicy \/ PutFile
    \/ LoadSealedData \/ _Get_SRK \/ UnsealSession \/ UnsealLoad \/ UnsealUnseal
    \/ UnsealFlushSession \/ UnsealFlushObject \/ Unsealed \/ SplitKeys
    \/ Scenario \/ CapBefore \/ CapSHA1 \/ CapSHA256 \/ CapAfter
    \/ CapAllRead \/ CapAllCheck
    \/ Reboot
    \/ \E c \in Commands : Run(c)

Spec == Init /\ [][Next]_vars

-----------------------------------------------------------------------------
(* Properties.                                                             *)

Used(slots) == DOMAIN slots \ FreeSlots(slots)

\* The response codes the callers tell apart.
Codes == {"success", "failure", "memory", "handle", "value", "policy", "integrity"}
\* _vars is the static table, or that and the entry SealLSVMLoadPolicy appends.
VarsWithEntry == Append(StaticVars, Var("db", "Entry", "entry"))
Frames ==
    [client : Clients,
     srk : Objects \cup {Nil}, parent : Objects \cup {Nil, SRKHandle},
     session : Sessions \cup {Nil}, object : Objects \cup {Nil},
     proc : {"", "seal", "unseal"},
     pcrs : Selections \cup {Nil}, digest : SealPolicies \cup {Nil},
     vars : {StaticVars, VarsWithEntry},
     built : BOOLEAN, rc : Codes,
     blob : SealPolicies \cup {Nil, Garbage},
     before : [{0} -> Seq(Digests)] \cup [{11} -> Seq(Digests)] \cup {Nil},
     i : Nat, data : {"keys", Nil}, status : {"error", "keys", "sealed", "ok"}]

\* The state has its type: handles are slots, the file is a policy of some
\* registers, and a client is one of the programs.
TypeOK ==
    /\ tpm \in Chips /\ f \in Frames
    /\ nv \in Variables
    /\ phase \in {"loader", "os"}
    /\ file \in SealPolicies \cup {Nil, Garbage}
    /\ faults \in 0 .. MaxFaults /\ runs \in 0 .. MaxRuns
    /\ orphans \in Nat

\* When a client has returned, on whatever path, no session and no object is
\* left in the chip except those whose handle was lost with an answer or whose
\* flush did not reach it; and _vars is as it was.
NothingLeftBehind ==
    Is("idle") =>
        /\ Cardinality(Used(tpm.session)) + Cardinality(Used(tpm.object)) <= orphans
        /\ f.vars = StaticVars

\* The blob was sealed for a boot with the variables as they are now: the flag
\* --secureboot says which value SecureBoot will have.
SealedForThisBoot ==
    /\ sealedFor # Nil
    /\ \A v \in DOMAIN nv \ {"SecureBoot"} : sealedFor.nv[v] = nv[v]
    /\ sealedFor.client = IF nv["SecureBoot"] = "01"
                          THEN "seallsvmloadpolicy --secureboot"
                          ELSE "seallsvmloadpolicy"

\* lsvmload gets the keys only in a boot they were sealed for: not with other
\* variables, and not from a blob sealed to the registers of a running system
\* or to registers already capped.  Once a system runs, PCR[11] is capped: what
\* was sealed for a boot is not unsealed by any command.
KeysOnlyAsSealed ==
    f.data # Nil =>
        IF f.client = "lsvmload" THEN SealedForThisBoot
        ELSE sealedFor.client \in {"seal", "sealpolicy"}

\* The predictions are right: keys sealed for this boot are released in it, if
\* no call has failed.
PredictionsHold ==
    Is("cap.before") /\ faults = MaxFaults /\ SealedForThisBoot => f.status = "keys"

\* A sealing command that exits with 0 has sealed the keys to the registers it
\* was asked for, if TPM2X_BuildPolicy succeeded.
SealedWhenBuilt ==
    Is("idle") /\ f.client \in Sealers /\ f.status = "ok" /\ f.built =>
        file = f.blob /\ file # Garbage

\* A sealing command that exits with 0 has written a blob that was sealed, and
\* unseal --cap one after which PCR[11] is capped in both banks.
StatusTellsTruth ==
    Is("idle") /\ f.status = "ok" =>
        /\ f.client \in Sealers => file # Garbage
        /\ f.client = "unseal --cap" =>
             \A b \in Banks : Len(tpm.pcr[b][11]) >= 5

\* What TPM2X_Seal, TPM2X_Unseal and UnsealKeys leave on every path: a chip
\* without their sessions and objects, and no blob that was not sealed.
ClientsInv == TypeOK /\ NothingLeftBehind /\ SealedWhenBuilt
===============================================================================
