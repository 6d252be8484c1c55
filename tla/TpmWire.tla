-------------------------------- MODULE TpmWire --------------------------------
(***************************************************************************)
(* The wire formats of lsvmutils/tpm2.c over the buffers of tpmbuf.c.      *)
(*                                                                         *)
(* A byte on the wire is the field it belongs to, its index there and, for *)
(* a size that is patched in afterwards, the number written.  A packing or *)
(* unpacking function is the sequence of primitive operations it performs  *)
(* for a value v, whose selectors (type, sym, scheme, kdf, hash) and sizes  *)
(* (n: bytes of a TPM2B, k: elements of a list) decide what is sent; the   *)
(* bytes themselves do not matter.                                         *)
(***************************************************************************)
EXTENDS Naturals, Sequences, SequencesExt

Byte(f, i, val) == [f |-> f, i |-> i, val |-> val]
BytesOf(f, w, val) == [i \in 1 .. w |-> Byte(f, i, val)]

-----------------------------------------------------------------------------
(* tpmbuf.c.  An error sticks: every later operation leaves the buffer     *)
(* alone.  start remembers where the areas with a patched size begin.      *)

TPMBufInit(cap) == [data |-> <<>>, offset |-> 0, cap |-> cap, error |-> FALSE,
                    start |-> <<>>, wrong |-> {}]

TPMBufPack(b, f, w) ==
    IF b.error \/ w > b.cap - Len(b.data)
    THEN [b EXCEPT !.error = TRUE]
    ELSE [b EXCEPT !.data = @ \o BytesOf(f, w, 0)]

\* A read that does not return the bytes of the field it is for is noted.
TPMBufUnpack(b, f, w) ==
    IF b.error \/ w > Len(b.data) - b.offset
    THEN [b EXCEPT !.error = TRUE]
    ELSE LET got == SubSeq(b.data, b.offset + 1, b.offset + w)
         IN  [b EXCEPT !.offset = @ + w,
                       !.wrong = IF \A i \in 1 .. w : got[i].f = f /\ got[i].i = i
                                 THEN @ ELSE @ \cup {f}]

\* UINT32 start = buf->size, after a size of w bytes was packed.
OpenArea(b, f, w) ==
    LET p == TPMBufPack(b, f, w)
    IN  [p EXCEPT !.start = Append(@, Len(p.data))]

\* Memcpy(&buf->data[start - w], &size, w).  After an error start may not
\* follow a size; the buffer is never sent then.
CloseAreaCountsSize(b, f, w) ==
    LET s == Last(b.start)
    IN  [b EXCEPT !.start = Front(@),
                  !.data = IF b.error THEN @
                           ELSE SubSeq(@, 1, s - w) \o BytesOf(f, w, Len(b.data) - s + w)
                                \o SubSeq(@, s + 1, Len(@))]
CloseArea(b, f, w) ==
    LET s == Last(b.start)
    IN  [b EXCEPT !.start = Front(@),
                  !.data = IF b.error THEN @
                           ELSE SubSeq(@, 1, s - w) \o BytesOf(f, w, Len(b.data) - s)
                                \o SubSeq(@, s + 1, Len(@))]

\* What a reader makes of a size: the end of the area it announces.
ReadSize(b, f, w) ==
    LET got == TPMBufUnpack(b, f, w)
    IN  IF got.error THEN got
        ELSE [got EXCEPT !.start = Append(@, got.offset + b.data[got.offset].val)]

\* The area ends where its size says.
CheckSize(b, f) ==
    IF b.error THEN b
    ELSE [b EXCEPT !.start = Front(@),
                   !.wrong = IF Last(b.start) = b.offset THEN @ ELSE @ \cup {f}]

Op(op, f, w) == <<[op |-> op, f |-> f, w |-> w]>>
U8(f) == Op("field", f, 1)
U16(f) == Op("field", f, 2)
U32(f) == Op("field", f, 4)
Bytes(f, n) == Op("field", f, n)
Fail == Op("fail", "", 0)            \* buf->error = 1
Area(f, w, body) == Op("open", f, w) \o body \o Op("close", f, w)

PackOp(b, o) ==
    CASE o.op = "field" -> TPMBufPack(b, o.f, o.w)
      [] o.op = "open" -> OpenArea(b, o.f, o.w)
      [] o.op = "close" -> CloseArea(b, o.f, o.w)
      [] o.op = "fail" -> [b EXCEPT !.error = TRUE]

UnpackOp(b, o) ==
    CASE o.op = "field" -> TPMBufUnpack(b, o.f, o.w)
      [] o.op = "open" -> ReadSize(b, o.f, o.w)
      [] o.op = "close" -> CheckSize(b, o.f)
      [] o.op = "fail" -> [b EXCEPT !.error = TRUE]

Packed(ops, cap) ==
    LET upto[k \in 0 .. Len(ops)] ==
            IF k = 0 THEN TPMBufInit(cap)
            ELSE LET b == upto[k - 1] IN IF b.error THEN b ELSE PackOp(b, ops[k])
    IN  upto[Len(ops)]
Unpacked(buf, ops) ==
    LET upto[k \in 0 .. Len(ops)] ==
            IF k = 0 THEN buf
            ELSE LET b == upto[k - 1] IN IF b.error THEN b ELSE UnpackOp(b, ops[k])
    IN  upto[Len(ops)]

\* For a list of k elements.
Times(k, one(_)) == FlattenSeq([i \in 1 .. k |-> one(i)])

-----------------------------------------------------------------------------
(* Structures, as packed.                                                  *)

_Pack_TPM2B(f, n) == U16(f \o ".size") \o Times(n, LAMBDA i : U8(f \o ".buffer"))
_Pack_TPM2B_PRIVATE(f, n) == _Pack_TPM2B(f, n)
_Pack_TPM2B_DIGEST(f, n) == _Pack_TPM2B(f, n)

_Pack_TPMS_PCR_SELECT(f) == U8(f \o ".sizeofSelect") \o Times(3, LAMBDA i : U8(f \o ".pcrSelect"))
_Pack_TPMS_PCR_SELECTION(f) ==
    U16(f \o ".hash") \o U8(f \o ".sizeofSelect") \o Times(3, LAMBDA i : U8(f \o ".pcrSelect"))
_Pack_TPML_PCR_SELECTION(f, k) ==
    U32(f \o ".count") \o Times(k, LAMBDA i : _Pack_TPMS_PCR_SELECTION(f))

_Pack_TPMS_AUTH_COMMAND(n) ==
    Area("authorizationSize", 4,
         U32("sessionHandle") \o U16("nonce.size") \o Bytes("nonce.buffer", n)
         \o U8("sessionAttributes") \o U16("hmac.size") \o Bytes("hmac.buffer", n))

_Pack_TPMS_SENSITIVE_CREATE(n) == _Pack_TPM2B("userAuth", n) \o _Pack_TPM2B("data", n)
_Pack_TPM2B_SENSITIVE_CREATE(n) ==
    Area("inSensitive.size", 2, _Pack_TPMS_SENSITIVE_CREATE(n))

_Pack_TPMA_OBJECT == U32("objectAttributes")
_Pack_TPMS_SCHEME_XOR == U16("hashAlg") \o U16("xorkdf")
_Pack_TPMS_SCHEME_HMAC == U16("hashAlg")
_Pack_TPMU_SCHEME_KEYEDHASH(scheme) ==
    CASE scheme = "HMAC" -> _Pack_TPMS_SCHEME_HMAC
      [] scheme = "XOR" -> _Pack_TPMS_SCHEME_XOR
      [] scheme = "NULL" -> <<>>
      [] OTHER -> Fail
_Pack_TPMT_KEYEDHASH_SCHEME(v) == U16("scheme") \o _Pack_TPMU_SCHEME_KEYEDHASH(v.scheme)
_Pack_TPMS_KEYEDHASH_PARMS(v) == _Pack_TPMT_KEYEDHASH_SCHEME(v)

\* An unknown algorithm packs nothing and is no error.
_Pack_TPMU_SYM_KEY_BITS(sym) == IF sym \in {"AES", "XOR"} THEN U16("symKeyBits") ELSE <<>>
_Pack_TPMU_SYM_MODE(sym) == IF sym = "AES" THEN U16("mode") ELSE <<>>
_Pack_TPMT_SYM_DEF_OBJECT(v) ==
    U16("algorithm") \o _Pack_TPMU_SYM_KEY_BITS(v.sym) \o _Pack_TPMU_SYM_MODE(v.sym)
_Pack_TPMT_SYM_DEF(v) ==
    U16("algorithm") \o _Pack_TPMU_SYM_KEY_BITS(v.sym) \o _Pack_TPMU_SYM_MODE(v.sym)

_Pack_TPMU_ASYM_SCHEME(scheme) == IF scheme = "NULL" THEN <<>> ELSE Fail
_Pack_TPMT_RSA_SCHEME(v) == U16("scheme") \o _Pack_TPMU_ASYM_SCHEME(v.scheme)
_Pack_TPMS_RSA_PARMS(v) ==
    _Pack_TPMT_SYM_DEF_OBJECT(v) \o _Pack_TPMT_RSA_SCHEME(v) \o U16("keyBits") \o U32("exponent")
_Pack_TPMS_SYMCIPHER_PARMS(v) == _Pack_TPMT_SYM_DEF_OBJECT(v)
_Pack_TPMT_ECC_SCHEME(v) == U16("scheme") \o _Pack_TPMU_ASYM_SCHEME(v.scheme)
_Pack_TPMU_KDF_SCHEME(kdf) ==
    CASE kdf \in {"MGF1", "KDF2"} -> U16("kdfHashAlg") [] kdf = "NULL" -> <<>> [] OTHER -> Fail
_Pack_TPMT_KDF_SCHEME(v) == U16("kdf") \o _Pack_TPMU_KDF_SCHEME(v.kdf)
_Pack_TPMS_ECC_PARMS(v) ==
    _Pack_TPMT_SYM_DEF_OBJECT(v) \o _Pack_TPMT_ECC_SCHEME(v) \o U16("curveID") \o _Pack_TPMT_KDF_SCHEME(v)
_Pack_TPMU_PUBLIC_PARMS(v) ==
    CASE v.type = "KEYEDHASH" -> _Pack_TPMS_KEYEDHASH_PARMS(v)
      [] v.type = "SYMCIPHER" -> _Pack_TPMS_SYMCIPHER_PARMS(v)
      [] v.type = "RSA" -> _Pack_TPMS_RSA_PARMS(v)
      [] v.type = "ECC" -> _Pack_TPMS_ECC_PARMS(v)
      [] OTHER -> Fail
_Pack_TPMS_ECC_POINT(v) == _Pack_TPM2B("unique.x", v.n) \o _Pack_TPM2B("unique.y", v.n)
_Pack_TPMU_PUBLIC_ID(v) ==
    CASE v.type \in {"KEYEDHASH", "SYMCIPHER", "RSA"} -> _Pack_TPM2B("unique", v.n)
      [] v.type = "ECC" -> _Pack_TPMS_ECC_POINT(v)
      [] OTHER -> <<>>
_Pack_TPMT_PUBLIC(v) ==
    U16("type") \o U16("nameAlg") \o _Pack_TPMA_OBJECT \o _Pack_TPM2B("authPolicy", v.n)
    \o _Pack_TPMU_PUBLIC_PARMS(v) \o _Pack_TPMU_PUBLIC_ID(v)
_Pack_TPM2B_PUBLIC(v) == Area("public.size", 2, _Pack_TPMT_PUBLIC(v))

_Pack_TPMU_HA(hash) ==
    CASE hash = "SHA1" -> Bytes("digest", 20)
      [] hash = "SHA256" -> Bytes("digest", 32)
      [] OTHER -> Fail
_Pack_TPMT_HA(v) == U16("hashAlg") \o _Pack_TPMU_HA(v.hash)
_Pack_TPML_DIGEST_VALUES(v) == U32("digests.count") \o Times(v.k, LAMBDA i : _Pack_TPMT_HA(v))

_Pack_TPMU_SENSITIVE_COMPOSITE(v) ==
    IF v.type \in {"RSA", "ECC", "KEYEDHASH", "SYMCIPHER"} THEN _Pack_TPM2B("sensitive", v.n) ELSE <<>>
_Pack_TPMT_SENSITIVE(v) ==
    U16("sensitiveType") \o _Pack_TPM2B("authValue", v.n) \o _Pack_TPM2B("seedValue", v.n)
    \o _Pack_TPMU_SENSITIVE_COMPOSITE(v)
_Pack_TPM2B_SENSITIVE(v) == Area("inPrivate.size", 2, _Pack_TPMT_SENSITIVE(v))

-----------------------------------------------------------------------------
(* Structures, as unpacked.                                                *)

_Unpack_TPM2B(f, n) == U16(f \o ".size") \o Times(n, LAMBDA i : U8(f \o ".buffer"))
_Unpack_TPM2B_PRIVATE(f, n) == _Unpack_TPM2B(f, n)
_Unpack_TPM2B_DIGEST(f, n) == _Unpack_TPM2B(f, n)

_Unpack_TPMS_PCR_SELECT(f) == U8(f \o ".sizeofSelect") \o Times(3, LAMBDA i : U8(f \o ".pcrSelect"))
_Unpack_TPMS_PCR_SELECTION(f) ==
    U16(f \o ".hash") \o U8(f \o ".sizeofSelect") \o Times(3, LAMBDA i : U8(f \o ".pcrSelect"))
_Unpack_TPML_PCR_SELECTION(f, k) ==
    U32(f \o ".count") \o Times(k, LAMBDA i : _Unpack_TPMS_PCR_SELECTION(f))
_Unpack_TPML_DIGEST(f, k, n) == U32(f \o ".count") \o Times(k, LAMBDA i : _Unpack_TPM2B_DIGEST(f, n))
_Unpack_TPMS_TAGGED_PROPERTY == U32("property") \o U32("value")
_Unpack_TPMS_CAPABILITY_DATA_tpmProperties(k) ==
    U32("tpmProperties.count") \o Times(k, LAMBDA i : _Unpack_TPMS_TAGGED_PROPERTY)

_Unpack_TPMS_AUTH_RESPONSE(n) ==
    U16("nonce.size") \o Bytes("nonce.buffer", n) \o U8("sessionAttributes")
    \o U16("hmac.size") \o Bytes("hmac.buffer", n)

_Unpack_TPMA_OBJECT == U32("objectAttributes")
_Unpack_TPMS_SCHEME_HMAC == U16("hashAlg")
_Unpack_TPMS_SCHEME_XOR == U16("hashAlg") \o U16("xorkdf")
_Unpack_TPMU_SCHEME_KEYEDHASH(scheme) ==
    CASE scheme = "HMAC" -> _Unpack_TPMS_SCHEME_HMAC
      [] scheme = "XOR" -> _Unpack_TPMS_SCHEME_XOR
      [] scheme = "NULL" -> <<>>
      [] OTHER -> Fail
_Unpack_TPMT_KEYEDHASH_SCHEME(v) == U16("scheme") \o _Unpack_TPMU_SCHEME_KEYEDHASH(v.scheme)
_Unpack_TPMS_KEYEDHASH_PARMS(v) == _Unpack_TPMT_KEYEDHASH_SCHEME(v)
_Unpack_TPMU_SYM_KEY_BITS(sym) == IF sym \in {"AES", "XOR"} THEN U16("symKeyBits") ELSE <<>>
_Unpack_TPMU_SYM_MODE(sym) == IF sym = "AES" THEN U16("mode") ELSE <<>>
_Unpack_TPMT_SYM_DEF_OBJECT(v) ==
    U16("algorithm") \o _Unpack_TPMU_SYM_KEY_BITS(v.sym) \o _Unpack_TPMU_SYM_MODE(v.sym)
_Unpack_TPMS_SYMCIPHER_PARMS(v) == _Unpack_TPMT_SYM_DEF_OBJECT(v)
_Unpack_TPMU_ASYM_SCHEME(scheme) == IF scheme = "NULL" THEN <<>> ELSE Fail
_Unpack_TPMT_RSA_SCHEME(v) == U16("scheme") \o _Unpack_TPMU_ASYM_SCHEME(v.scheme)
_Unpack_TPMS_RSA_PARMS(v) ==
    _Unpack_TPMT_SYM_DEF_OBJECT(v) \o _Unpack_TPMT_RSA_SCHEME(v) \o U16("keyBits") \o U32("exponent")
_Unpack_TPMT_ECC_SCHEME(v) == U16("scheme") \o _Unpack_TPMU_ASYM_SCHEME(v.scheme)
_Unpack_TPMU_KDF_SCHEME(kdf) ==
    CASE kdf \in {"MGF1", "KDF2"} -> U16("kdfHashAlg") [] kdf = "NULL" -> <<>> [] OTHER -> Fail
_Unpack_TPMT_KDF_SCHEME(v) == U16("kdf") \o _Unpack_TPMU_KDF_SCHEME(v.kdf)
_Unpack_TPMS_ECC_PARMS(v) ==
    _Unpack_TPMT_SYM_DEF_OBJECT(v) \o _Unpack_TPMT_ECC_SCHEME(v) \o U16("curveID") \o _Unpack_TPMT_KDF_SCHEME(v)
_Unpack_TPMU_PUBLIC_PARMS(v) ==
    CASE v.type = "KEYEDHASH" -> _Unpack_TPMS_KEYEDHASH_PARMS(v)
      [] v.type = "SYMCIPHER" -> _Unpack_TPMS_SYMCIPHER_PARMS(v)
      [] v.type = "RSA" -> _Unpack_TPMS_RSA_PARMS(v)
      [] v.type = "ECC" -> _Unpack_TPMS_ECC_PARMS(v)
      [] OTHER -> Fail
_Unpack_TPMS_ECC_POINT(v) == _Unpack_TPM2B("unique.x", v.n) \o _Unpack_TPM2B("unique.y", v.n)
_Unpack_TPMU_PUBLIC_ID(v) ==
    CASE v.type \in {"KEYEDHASH", "SYMCIPHER", "RSA"} -> _Unpack_TPM2B("unique", v.n)
      [] v.type = "ECC" -> _Unpack_TPMS_ECC_POINT(v)
      [] OTHER -> <<>>
_Unpack_TPMT_PUBLIC(v) ==
    U16("type") \o U16("nameAlg") \o _Unpack_TPMA_OBJECT \o _Unpack_TPM2B("authPolicy", v.n)
    \o _Unpack_TPMU_PUBLIC_PARMS(v) \o _Unpack_TPMU_PUBLIC_ID(v)
_Unpack_TPM2B_PUBLIC(v) == Area("public.size", 2, _Unpack_TPMT_PUBLIC(v))
_Unpack_TPMT_TK_CREATION(n) == U16("tag") \o U32("hierarchy") \o _Unpack_TPM2B("ticket", n)
_Unpack_TPMT_TK_HASHCHECK(n) == U16("tag") \o U32("hierarchy") \o _Unpack_TPM2B("ticket", n)

-----------------------------------------------------------------------------
(* Commands: what TPM2_xxx packs after the header, and what it unpacks     *)
(* after the header of the answer.  s says whether authCommand is given,   *)
(* which makes the tag TPM_ST_SESSIONS.                                    *)

Auth(s, v) == IF s THEN _Pack_TPMS_AUTH_COMMAND(v.n) ELSE <<>>
ParameterSize(s) == IF s THEN U32("parameterSize") ELSE <<>>
AuthOut(s, v) == IF s THEN _Unpack_TPMS_AUTH_RESPONSE(v.n) ELSE <<>>
Wire(request, response) == [request |-> request, response |-> response]

Wire_GetCapability(v, s) ==
    Wire(U32("capability") \o U32("property") \o U32("propertyCount"),
         ParameterSize(s) \o U8("moreData") \o U32("cap")
         \o _Unpack_TPMS_CAPABILITY_DATA_tpmProperties(v.k) \o AuthOut(s, v))
Wire_PCR_Read(v, s) ==
    Wire(_Pack_TPML_PCR_SELECTION("pcrSelectionIn", v.k),
         ParameterSize(s) \o U32("pcrUpdateCounter") \o _Unpack_TPML_PCR_SELECTION("pcrSelectionOut", v.k)
         \o _Unpack_TPML_DIGEST("pcrValues", v.k, v.n) \o AuthOut(s, v))
Wire_DictionaryAttackLockReset(v, s) ==
    Wire(U32("lockHandle") \o Auth(s, v), ParameterSize(s) \o AuthOut(s, v))
Wire_DictionaryAttackParameters(v, s) ==
    Wire(U32("lockHandle") \o Auth(s, v)
         \o U32("newMaxTries") \o U32("newRecoveryTime") \o U32("lockoutRecovery"),
         ParameterSize(s) \o AuthOut(s, v))
Wire_CreatePrimary(v, s) ==
    Wire(U32("primaryHandle") \o Auth(s, v) \o _Pack_TPM2B_SENSITIVE_CREATE(v.n) \o _Pack_TPM2B_PUBLIC(v)
         \o _Pack_TPM2B("outsideInfo", v.n) \o _Pack_TPML_PCR_SELECTION("creationPCR", v.k),
         U32("objectHandle") \o ParameterSize(s) \o _Unpack_TPM2B_PUBLIC(v) \o _Unpack_TPM2B("creationData", v.n)
         \o _Unpack_TPM2B("creationHash", v.n) \o _Unpack_TPMT_TK_CREATION(v.n) \o _Unpack_TPM2B("name", v.n)
         \o AuthOut(s, v))
Wire_FlushContext(v, s) == Wire(U32("flushHandle"), <<>>)
Wire_StartAuthSession(v, s) ==
    Wire(U32("tpmKey") \o U32("bind") \o Auth(s, v) \o _Pack_TPM2B("nonceCaller", v.n)
         \o _Pack_TPM2B("encryptedSalt", v.n) \o U8("sessionType") \o _Pack_TPMT_SYM_DEF(v) \o U16("authHash"),
         U32("sessionHandle") \o ParameterSize(s) \o _Unpack_TPM2B("nonceTPM", v.n) \o AuthOut(s, v))
Wire_PolicyPassword(v, s) ==
    Wire(U32("policySession") \o Auth(s, v), ParameterSize(s) \o AuthOut(s, v))
Wire_PolicyPCR(v, s) ==
    Wire(U32("policySession") \o Auth(s, v) \o _Pack_TPM2B("pcrDigest", v.n)
         \o _Pack_TPML_PCR_SELECTION("pcrs", v.k),
         ParameterSize(s) \o AuthOut(s, v))
Wire_Hash(v, s) ==
    Wire(Auth(s, v) \o _Pack_TPM2B("data", v.n) \o U16("hashAlg") \o U32("hierarchy"),
         ParameterSize(s) \o _Unpack_TPM2B("outHash", v.n) \o _Unpack_TPMT_TK_HASHCHECK(v.n) \o AuthOut(s, v))
Wire_PolicyGetDigest(v, s) ==
    Wire(U32("policySession") \o Auth(s, v),
         ParameterSize(s) \o _Unpack_TPM2B("policyDigest", v.n) \o AuthOut(s, v))
Wire_Create(v, s) ==
    Wire(U32("parentHandle") \o Auth(s, v) \o _Pack_TPM2B_SENSITIVE_CREATE(v.n) \o _Pack_TPM2B_PUBLIC(v)
         \o _Pack_TPM2B("outsideInfo", v.n) \o _Pack_TPML_PCR_SELECTION("creationPCR", v.k),
         ParameterSize(s) \o _Unpack_TPM2B("outPrivate", v.n) \o _Unpack_TPM2B_PUBLIC(v)
         \o _Unpack_TPM2B("creationData", v.n) \o _Unpack_TPM2B("creationHash", v.n)
         \o _Unpack_TPMT_TK_CREATION(v.n) \o AuthOut(s, v))
Wire_Load(v, s) ==
    Wire(U32("parentHandle") \o Auth(s, v) \o _Pack_TPM2B_PRIVATE("inPrivate", v.n) \o _Pack_TPM2B_PUBLIC(v),
         U32("objectHandle") \o ParameterSize(s) \o _Unpack_TPM2B("name", v.n) \o AuthOut(s, v))
Wire_Unseal(v, s) ==
    Wire(U32("itemHandle") \o Auth(s, v),
         ParameterSize(s) \o _Unpack_TPM2B("outData", v.n) \o AuthOut(s, v))
Wire_PCR_Extend(v, s) ==
    Wire(U32("pcrHandle") \o Auth(s, v) \o _Pack_TPML_DIGEST_VALUES(v),
         ParameterSize(s) \o AuthOut(s, v))
Wire_EncryptDecrypt(v, s) ==
    Wire(U32("keyHandle") \o Auth(s, v) \o U8("decrypt") \o U16("mode") \o _Pack_TPM2B("ivIn", v.n)
         \o _Pack_TPM2B("inData", v.n),
         ParameterSize(s) \o _Unpack_TPM2B("outData", v.n) \o _Unpack_TPM2B("ivOut", v.n) \o AuthOut(s, v))
Wire_LoadExternal(v, s) ==
    Wire(Auth(s, v) \o _Pack_TPM2B_SENSITIVE(v) \o _Pack_TPM2B_PUBLIC(v) \o U32("hierarchy"),
         U32("objectHandle") \o ParameterSize(s) \o _Unpack_TPM2B("name", v.n) \o AuthOut(s, v))
\* The parameter size is read before the handle.
Wire_HashSequenceStart(v, s) ==
    Wire(Auth(s, v) \o _Pack_TPM2B("auth", v.n) \o U16("hashAlg"),
         ParameterSize(s) \o U32("sequenceHandle") \o AuthOut(s, v))
Wire_SequenceUpdate(v, s) ==
    Wire(U32("sequenceHandle") \o Auth(s, v) \o _Pack_TPM2B("buffer", v.n),
         ParameterSize(s) \o AuthOut(s, v))
Wire_SequenceComplete(v, s) ==
    Wire(U32("sequenceHandle") \o Auth(s, v) \o _Pack_TPM2B("buffer", v.n) \o U32("hierarchy"),
         ParameterSize(s) \o _Unpack_TPM2B_DIGEST("result", v.n) \o _Unpack_TPMT_TK_HASHCHECK(v.n)
         \o AuthOut(s, v))
\* No authorization is packed or unpacked, whatever the tag.
Wire_ReadPublic(v, s) ==
    Wire(U32("objectHandle"), ParameterSize(s) \o _Unpack_TPM2B_PUBLIC(v))

WireOf(c, v, s) ==
    CASE c = "GetCapability" -> Wire_GetCapability(v, s)
      [] c = "PCR_Read" -> Wire_PCR_Read(v, s)
      [] c = "DictionaryAttackLockReset" -> Wire_DictionaryAttackLockReset(v, s)
      [] c = "DictionaryAttackParameters" -> Wire_DictionaryAttackParameters(v, s)
      [] c = "CreatePrimary" -> Wire_CreatePrimary(v, s)
      [] c = "FlushContext" -> Wire_FlushContext(v, s)
      [] c = "StartAuthSession" -> Wire_StartAuthSession(v, s)
      [] c = "PolicyPassword" -> Wire_PolicyPassword(v, s)
      [] c = "PolicyPCR" -> Wire_PolicyPCR(v, s)
      [] c = "Hash" -> Wire_Hash(v, s)
      [] c = "PolicyGetDigest" -> Wire_PolicyGetDigest(v, s)
      [] c = "Create" -> Wire_Create(v, s)
      [] c = "Load" -> Wire_Load(v, s)
      [] c = "Unseal" -> Wire_Unseal(v, s)
      [] c = "PCR_Extend" -> Wire_PCR_Extend(v, s)
      [] c = "EncryptDecrypt" -> Wire_EncryptDecrypt(v, s)
      [] c = "LoadExternal" -> Wire_LoadExternal(v, s)
      [] c = "HashSequenceStart" -> Wire_HashSequenceStart(v, s)
      [] c = "SequenceUpdate" -> Wire_SequenceUpdate(v, s)
      [] c = "SequenceComplete" -> Wire_SequenceComplete(v, s)
      [] c = "ReadPublic" -> Wire_ReadPublic(v, s)

\* The header and the packed parameters in one buffer, its size patched in.
RequestHeader == U16("tag") \o U32("commandSize") \o U32("commandCode")
SubmitRequest(in) ==
    LET append(h) == IF Len(in.data) > h.cap - Len(h.data) THEN [h EXCEPT !.error = TRUE]
                     ELSE [h EXCEPT !.data = @ \o in.data]
        patch(b) == [b EXCEPT !.data = SubSeq(@, 1, 2) \o BytesOf("commandSize", 4, Len(@)) \o SubSeq(@, 7, Len(@))]
    IN  patch(append(Packed(RequestHeader, in.cap)))

\* outputParameterBlockSize: one less than what the firmware offers, and no
\* more than the buffer holds.
OutputBlock(maxResponse, cap) ==
    IF maxResponse = 0 THEN cap - 1
    ELSE IF maxResponse - 1 > cap THEN cap ELSE maxResponse - 1

-----------------------------------------------------------------------------
(* The other side: what the chip reads and writes (TPM library, parts 1    *)
(* and 3; the comments "Wire request" and "Wire response").                *)

Chip(handles, params, outHandles, outParams) ==
    [handles |-> handles, params |-> params, outHandles |-> outHandles, outParams |-> outParams]
ChipSelection(f, k) == _Unpack_TPML_PCR_SELECTION(f, k)
ChipSensitiveCreate(n) ==
    Area("inSensitive.size", 2, _Unpack_TPM2B("userAuth", n) \o _Unpack_TPM2B("data", n))
ChipTicket(n) == U16("tag") \o U32("hierarchy") \o _Pack_TPM2B("ticket", n)
ChipCreation(n) == _Pack_TPM2B("creationData", n) \o _Pack_TPM2B_DIGEST("creationHash", n) \o ChipTicket(n)
ChipSym(v) == U16("algorithm") \o (CASE v.sym = "AES" -> U16("symKeyBits") \o U16("mode")
                                     [] v.sym = "XOR" -> U16("symKeyBits") [] OTHER -> <<>>)

ChipWire(c, v) ==
    CASE c = "GetCapability" ->
            Chip(<<>>, U32("capability") \o U32("property") \o U32("propertyCount"),
                 <<>>, U8("moreData") \o U32("cap") \o U32("tpmProperties.count")
                       \o Times(v.k, LAMBDA i : U32("property") \o U32("value")))
      [] c = "PCR_Read" ->
            Chip(<<>>, ChipSelection("pcrSelectionIn", v.k),
                 <<>>, U32("pcrUpdateCounter") \o _Pack_TPML_PCR_SELECTION("pcrSelectionOut", v.k)
                       \o U32("pcrValues.count") \o Times(v.k, LAMBDA i : _Pack_TPM2B_DIGEST("pcrValues", v.n)))
      [] c = "DictionaryAttackLockReset" -> Chip(U32("lockHandle"), <<>>, <<>>, <<>>)
      [] c = "DictionaryAttackParameters" ->
            Chip(U32("lockHandle"), U32("newMaxTries") \o U32("newRecoveryTime") \o U32("lockoutRecovery"),
                 <<>>, <<>>)
      [] c = "CreatePrimary" ->
            Chip(U32("primaryHandle"),
                 ChipSensitiveCreate(v.n) \o _Unpack_TPM2B_PUBLIC(v)
                 \o _Unpack_TPM2B("outsideInfo", v.n) \o ChipSelection("creationPCR", v.k),
                 U32("objectHandle"), _Pack_TPM2B_PUBLIC(v) \o ChipCreation(v.n) \o _Pack_TPM2B("name", v.n))
      [] c = "FlushContext" -> Chip(<<>>, U32("flushHandle"), <<>>, <<>>)
      [] c = "StartAuthSession" ->
            Chip(U32("tpmKey") \o U32("bind"),
                 _Unpack_TPM2B("nonceCaller", v.n) \o _Unpack_TPM2B("encryptedSalt", v.n)
                 \o U8("sessionType") \o ChipSym(v) \o U16("authHash"),
                 U32("sessionHandle"), _Pack_TPM2B("nonceTPM", v.n))
      [] c = "PolicyPassword" -> Chip(U32("policySession"), <<>>, <<>>, <<>>)
      [] c = "PolicyPCR" ->
            Chip(U32("policySession"), _Unpack_TPM2B_DIGEST("pcrDigest", v.n) \o ChipSelection("pcrs", v.k),
                 <<>>, <<>>)
      [] c = "Hash" ->
            Chip(<<>>, _Unpack_TPM2B("data", v.n) \o U16("hashAlg") \o U32("hierarchy"),
                 <<>>, _Pack_TPM2B_DIGEST("outHash", v.n) \o ChipTicket(v.n))
      [] c = "PolicyGetDigest" ->
            Chip(U32("policySession"), <<>>, <<>>, _Pack_TPM2B_DIGEST("policyDigest", v.n))
      [] c = "Create" ->
            Chip(U32("parentHandle"),
                 ChipSensitiveCreate(v.n) \o _Unpack_TPM2B_PUBLIC(v)
                 \o _Unpack_TPM2B("outsideInfo", v.n) \o ChipSelection("creationPCR", v.k),
                 <<>>, _Pack_TPM2B_PRIVATE("outPrivate", v.n) \o _Pack_TPM2B_PUBLIC(v) \o ChipCreation(v.n))
      [] c = "Load" ->
            Chip(U32("parentHandle"), _Unpack_TPM2B_PRIVATE("inPrivate", v.n) \o _Unpack_TPM2B_PUBLIC(v),
                 U32("objectHandle"), _Pack_TPM2B("name", v.n))
      [] c = "Unseal" -> Chip(U32("itemHandle"), <<>>, <<>>, _Pack_TPM2B("outData", v.n))
      [] c = "PCR_Extend" ->
            Chip(U32("pcrHandle"),
                 U32("digests.count")
                 \o Times(v.k, LAMBDA i : U16("hashAlg") \o Bytes("digest", IF v.hash = "SHA1" THEN 20 ELSE 32)),
                 <<>>, <<>>)
      [] c = "EncryptDecrypt" ->
            Chip(U32("keyHandle"), U8("decrypt") \o U16("mode") \o _Unpack_TPM2B("ivIn", v.n) \o _Unpack_TPM2B("inData", v.n),
                 <<>>, _Pack_TPM2B("outData", v.n) \o _Pack_TPM2B("ivOut", v.n))
      [] c = "LoadExternal" ->
            Chip(<<>>,
                 Area("inPrivate.size", 2,
                      U16("sensitiveType") \o _Unpack_TPM2B("authValue", v.n) \o _Unpack_TPM2B("seedValue", v.n)
                      \o _Unpack_TPM2B("sensitive", v.n))
                 \o _Unpack_TPM2B_PUBLIC(v) \o U32("hierarchy"),
                 U32("objectHandle"), _Pack_TPM2B("name", v.n))
      [] c = "HashSequenceStart" ->
            Chip(<<>>, _Unpack_TPM2B("auth", v.n) \o U16("hashAlg"), U32("sequenceHandle"), <<>>)
      [] c = "SequenceUpdate" -> Chip(U32("sequenceHandle"), _Unpack_TPM2B("buffer", v.n), <<>>, <<>>)
      [] c = "SequenceComplete" ->
            Chip(U32("sequenceHandle"), _Unpack_TPM2B("buffer", v.n) \o U32("hierarchy"),
                 <<>>, _Pack_TPM2B_DIGEST("result", v.n) \o ChipTicket(v.n))
      [] c = "ReadPublic" -> Chip(U32("objectHandle"), <<>>, <<>>, _Pack_TPM2B_PUBLIC(v))

ChipAuth(n) ==
    Area("authorizationSize", 4,
         U32("sessionHandle") \o U16("nonce.size") \o Bytes("nonce.buffer", n)
         \o U8("sessionAttributes") \o U16("hmac.size") \o Bytes("hmac.buffer", n))
ChipAuthOut(n) ==
    U16("nonce.size") \o Bytes("nonce.buffer", n) \o U8("sessionAttributes")
    \o U16("hmac.size") \o Bytes("hmac.buffer", n)

\* A request as the chip reads it and an answer as it writes it.
ChipReads(chip, n, s) ==
    RequestHeader \o chip.handles \o (IF s THEN ChipAuth(n) ELSE <<>>) \o chip.params
ChipWrites(chip, n, s) ==
    U16("tag") \o U32("responseSize") \o U32("responseCode") \o chip.outHandles
    \o (IF s THEN Area("parameterSize", 4, chip.outParams) \o ChipAuthOut(n) ELSE chip.outParams)

\* The exchange: the request packed into a buffer of cap bytes and sent, read
\* by the chip, answered, and the answer unpacked.
ResponseHeader == U16("tag") \o U32("responseSize") \o U32("responseCode")
Talk(wire, chip, n, s, cap) ==
    LET fits(answer) == Len(answer.data) <= OutputBlock(cap, cap)
        unpack(answer) == Unpacked([answer EXCEPT !.error = ~fits(answer)], ResponseHeader \o wire.response)
        told(in, sent) ==
            [in |-> in, sent |-> sent, read |-> Unpacked(sent, ChipReads(chip, n, s)),
             out |-> unpack(Packed(ChipWrites(chip, n, s), 4096))]
        send(in) == told(in, SubmitRequest(in))
    IN  send(Packed(wire.request, cap))
Exchange(c, v, s, cap) == Talk(WireOf(c, v, s), ChipWire(c, v), v.n, s, cap)
================================================================================
