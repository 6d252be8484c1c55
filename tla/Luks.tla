-------------------------------- MODULE Luks ---------------------------------
(***************************************************************************)
(* LUKS volumes (lsvmutils/luks.c, lukscrypto.c, luksblkdev.c), the sealed *)
(* key file (lsvmutils/keys.c) and the search for the boot partition.      *)
(*                                                                         *)
(* A key is a sequence of bits; Unknown is a bit nobody can tell (what a   *)
(* wrong key decrypts to, or memory that was never written).  The          *)
(* anti-forensic merge is computed on the bits; ciphers and key derivation *)
(* are symbolic.                                                           *)
(***************************************************************************)
EXTENDS Naturals, Sequences, SequencesExt, FiniteSets, TLC

key_bytes == 3                  \* header->key_bytes
HashSize == 2                   \* SHAHashSize: a key is one block and a half
LUKS_SECTOR_SIZE == 2
NoKey == <<>>
Unknown == 2

Xor(a, b) == IF a = Unknown \/ b = Unknown THEN Unknown ELSE IF a = b THEN 0 ELSE 1
_ComputeXOR(x, y) == [i \in 1..Len(x) |-> Xor(x[i], y[i])]

(* A hash of a block and its number; any function of the two would do.     *)
Hash(i, block) ==
    IF \E j \in 1..Len(block) : block[j] = Unknown THEN [j \in 1..HashSize |-> Unknown]
    ELSE LET v == 3 * i + FoldLeft(LAMBDA a, b : 2 * a + b, 1, block)
         IN <<((v * v) \div 2) % 2, (v \div 2 + i) % 2>>

Blocks(n) == n \div HashSize + (IF n % HashSize # 0 THEN 1 ELSE 0)
BlockOf(data, i) ==             \* the last block may be short
    LET past == IF (i + 1) * HashSize > Len(data) THEN Len(data) ELSE (i + 1) * HashSize
    IN SubSeq(data, i * HashSize + 1, past)

_DiffuseSHA(data) ==
    FlattenSeq([k \in 1..Blocks(Len(data)) |->
        LET block == BlockOf(data, k - 1)
        IN SubSeq(Hash(k - 1, block), 1, Len(block))])

HashSpecs == {"sha1", "sha256", "sha384", "sha512"}
_Diffuse(header, data) ==
    IF header.hash_spec \in HashSpecs THEN _DiffuseSHA(data) ELSE NoKey

Stripe(stripes, i) == SubSeq(stripes, (i - 1) * key_bytes + 1, i * key_bytes)
Zeros == [i \in 1..key_bytes |-> 0]

(* Every stripe is mixed in; all but the last are diffused.                *)
_AFMergeDiffusesAll(header, slot, stripes) ==
    FoldLeft(LAMBDA mk, i : IF mk = NoKey THEN mk
                            ELSE _Diffuse(header, _ComputeXOR(mk, Stripe(stripes, i))),
             Zeros, [i \in 1..slot.af_stripes |-> i])
_AFMerge(header, slot, stripes) ==
    LET step(mk, i) ==
            LET mixed == _ComputeXOR(mk, Stripe(stripes, i))
            IN IF mk = NoKey THEN mk
               ELSE IF i = slot.af_stripes THEN mixed ELSE _Diffuse(header, mixed)
    IN FoldLeft(step, Zeros, [i \in 1..slot.af_stripes |-> i])

------------------------------------------------------------------------------
(* Ciphers *)

Modes == {"cbc-plain", "xts-plain64"}

(* The cipher is known by name and mode only; ecb is not among them, and   *)
(* neither is an essiv mode that names its hash.                           *)
LUKSGetCipher(header) == header.cipher_name = "aes" /\ header.cipher_mode \in Modes \cup {"cbc-essiv:"}

(* essiv asks the cipher for a block without a vector, which LUKSCryptData *)
(* refuses; cbc-plain keeps the low half of the sector number.             *)
Half == 4
_GenIV(header, sec) ==
    CASE header.cipher_mode = "xts-plain64" -> [ok |-> TRUE, iv |-> sec]
      [] header.cipher_mode = "cbc-plain"   -> [ok |-> TRUE, iv |-> sec % Half]
      [] header.cipher_mode = "ecb"         -> [ok |-> TRUE, iv |-> 0]
      [] OTHER                              -> [ok |-> FALSE, iv |-> 0]

Encrypted(key, mode, iv, plain) == [key |-> key, mode |-> mode, iv |-> iv, plain |-> plain]
LUKSCryptData(header, key, iv, cell) ==
    IF cell.key = key /\ cell.mode = header.cipher_mode /\ cell.iv = iv THEN cell.plain
    ELSE [j \in 1..LUKS_SECTOR_SIZE |-> Unknown]

(* One vector per sector from the given one on; what does not fill a       *)
(* sector is never written.                                                *)
LUKSCrypt(header, key, cells, sector) ==
    IF ~LUKSGetCipher(header) \/ (\E i \in 1..Len(cells) : ~_GenIV(header, sector + i - 1).ok) THEN NoKey
    ELSE FlattenSeq([i \in 1..Len(cells) |->
             LUKSCryptData(header, key, _GenIV(header, sector + i - 1).iv, cells[i])])

(* PBKDF2: only the two hashes the crypto library has a MAC for.           *)
LUKSDeriveKey(header, pass, salt) ==
    IF header.hash_spec \in {"sha1", "sha256"} THEN <<"pbkdf2", header.hash_spec, pass, salt>> ELSE NoKey

LUKSComputeMKDigest(header, mk) == LUKSDeriveKey(header, mk, "mk-salt")

------------------------------------------------------------------------------
(* Key slots *)

_UnsealMasterKey(dev, slot) ==
    LET header  == dev.header
        derived == LUKSDeriveKey(header, slot.try, slot.salt)
        bits    == LUKSCrypt(header, derived, dev.material[slot.key_material_offset], 0)
        need    == key_bytes * slot.af_stripes
        stripes == bits \o [i \in 1..need |-> Unknown]
        mk      == _AFMerge(header, slot, stripes)
    IN IF derived = NoKey \/ bits = NoKey \/ mk = NoKey THEN NoKey
       ELSE IF LUKSComputeMKDigest(header, mk) = header.mk_digest THEN mk ELSE NoKey

LUKSReadHeader(dev) == dev.magic

(* The enabled slots in order; a slot that is neither enabled nor disabled *)
(* is passed over.                                                         *)
LUKSGetMasterKey(dev, passphrase) ==
    LET on   == SelectSeq(dev.header.slots, LAMBDA s : s.enabled = "enabled")
        keys == [k \in 1..Len(on) |-> _UnsealMasterKey(dev, [try |-> passphrase] @@ on[k])]
        hits == SelectSeq(keys, LAMBDA k : k # NoKey)
    IN IF hits = <<>> THEN NoKey ELSE hits[1]

(* The devices: from a passphrase the key must match the digest; from a    *)
(* master key only its size is compared.                                   *)
LUKSBlkdevFromRawBytes(dev, passphrase) ==
    IF LUKSReadHeader(dev) THEN LUKSGetMasterKey(dev, passphrase) ELSE NoKey
LUKSBlkdevFromMasterkey(dev, mk) ==
    IF LUKSReadHeader(dev) /\ Len(mk) = key_bytes THEN mk ELSE NoKey
LUKSMatchHeader(dev, mk) ==
    /\ dev.magic
    /\ Len(mk) = key_bytes
    /\ LUKSComputeMKDigest(dev.header, mk) = dev.header.mk_digest

LUKSGetPayloadSector(dev, mk, n) == LUKSCrypt(dev.header, mk, <<dev.payload[n + 1]>>, n)

(* A file system is found when the sector of its super block reads back.   *)
SuperBlock == <<1, 0>>
EXT2New(dev, mk) == LUKSGetPayloadSector(dev, mk, 1) = SuperBlock

CountGPTEntries(gpt) ==
    LET none == {i \in 1..Len(gpt) : ~gpt[i].used}
    IN IF none = {} THEN Len(gpt) ELSE (CHOOSE i \in none : \A j \in none : i <= j) - 1

(* The partitions in table order, up to the first unused entry; one that   *)
(* BlkdevOpen refuses ends the search.                                     *)
LUKSFindBootDevice(gpt, mk) ==
    LET tried == {i \in 1..CountGPTEntries(gpt) : \A j \in 1..i : gpt[j].opens}
        opens == {i \in tried : LUKSBlkdevFromMasterkey(gpt[i].dev, mk) # NoKey /\ EXT2New(gpt[i].dev, mk)}
    IN IF opens = {} THEN [ok |-> FALSE, partitionNumber |-> 0, available |-> 0]
       ELSE [ok |-> TRUE, partitionNumber |-> CHOOSE i \in opens : \A j \in opens : i <= j,
             available |-> CountGPTEntries(gpt) + 1]

------------------------------------------------------------------------------
(* The key file: UINT16 fields of two bytes in base Byte, then the bytes.  *)

Byte == 3
U16(n) == n % (Byte * Byte)
Pack16(n) == <<U16(n) % Byte, U16(n) \div Byte>>
Unpack16(in, p) == in[p] + Byte * in[p + 1]

_SerializeKey(type, key) == Pack16(type) \o Pack16(Len(key)) \o SubSeq(key, 1, U16(Len(key)))
CombineKeys(bootkey, rootkey) ==
    Pack16(2) \o _SerializeKey(1, bootkey) \o _SerializeKey(2, rootkey)

(* p = 0 is the NULL that a bad type returns; a key that runs past the end *)
(* of the data reads memory behind it.                                     *)
_DeserializeKey(in, k) ==
    IF k.p = 0 THEN k
    ELSE IF k.p + 3 > Len(in) THEN [k EXCEPT !.p = 0, !.overread = TRUE]
    ELSE LET type == Unpack16(in, k.p)
             size == Unpack16(in, k.p + 2)
             past == k.p + 4 + size
             key  == SubSeq(in, k.p + 4, IF past - 1 > Len(in) THEN Len(in) ELSE past - 1)
             over == k.overread \/ past - 1 > Len(in)
         IN CASE type = 1 -> [k EXCEPT !.boot = <<key>>, !.p = past, !.overread = over]
              [] type = 2 -> [k EXCEPT !.root = <<key>>, !.p = past, !.overread = over]
              [] OTHER    -> [k EXCEPT !.p = 0]

SplitKeys(in) ==
    LET none == [ok |-> FALSE, overread |-> FALSE, boot |-> <<>>, root |-> <<>>]
        k    == _DeserializeKey(in, _DeserializeKey(in,
                    [p |-> 3, boot |-> <<>>, root |-> <<>>, overread |-> FALSE]))
    IN IF Len(in) < 2 \/ (Len(in) >= 2 /\ Unpack16(in, 1) # 2) \/ Len(in) < 2 + 2 * 4 THEN none
       ELSE IF k.p = 0 \/ k.boot = <<>> \/ k.root = <<>> THEN [none EXCEPT !.overread = k.overread]
       ELSE [ok |-> TRUE, overread |-> k.overread, boot |-> k.boot[1], root |-> k.root[1]]

------------------------------------------------------------------------------
(* External: what cryptsetup wrote. *)

(* The anti-forensic split of a key with the given random stripes.         *)
AFSplit(header, mk, random) ==
    LET d == FoldLeft(LAMBDA x, s : _DiffuseSHA(_ComputeXOR(x, s)), Zeros, random)
    IN FlattenSeq(random) \o _ComputeXOR(d, mk)

Sectors(header, key, bits) ==
    [i \in 1..(Len(bits) \div LUKS_SECTOR_SIZE) |->
        Encrypted(key, header.cipher_mode, IF header.cipher_mode = "cbc-plain" THEN (i - 1) % Half ELSE i - 1,
                  SubSeq(bits, (i - 1) * LUKS_SECTOR_SIZE + 1, i * LUKS_SECTOR_SIZE))]

(* slots: for each slot its state and passphrase; every slot in use holds  *)
(* the same master key under its own random stripe and salt.               *)
Volume(magic, mode, hash, mk, slots, random, fs) ==
    LET h0     == [cipher_name |-> "aes", cipher_mode |-> mode, hash_spec |-> hash]
        header == [mk_digest |-> <<"pbkdf2", hash, mk, "mk-salt">>,
                   slots |-> [k \in 1..Len(slots) |->
                       [enabled |-> slots[k].enabled, salt |-> k, af_stripes |-> 2, key_material_offset |-> k]]] @@ h0
        plain  == IF fs THEN SuperBlock ELSE <<0, 0>>
    IN [magic    |-> magic, header |-> header,
        material |-> [k \in 1..Len(slots) |->
                        Sectors(h0, <<"pbkdf2", hash, slots[k].pass, k>>, AFSplit(h0, mk, <<random>>))],
        payload  |-> Sectors(h0, mk, <<0, 0>> \o plain)]
==============================================================================
