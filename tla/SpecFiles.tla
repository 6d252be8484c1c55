----------------------------- MODULE SpecFiles ------------------------------
(***************************************************************************)
(* The specialization payload (lsvmutils/specialize.c), its encryption     *)
(* (lsvmutils/tpm2crypt.c) and the file lsvmload finds on the ESP          *)
(* (lsvmload/specialize.c).                                                *)
(*                                                                         *)
(* Data is a sequence of bytes; a UINT32 takes two of them, low byte       *)
(* first, as a CHAR16 does.                                                *)
(***************************************************************************)
EXTENDS Naturals, Sequences, SequencesExt, FiniteSets, TLC

SPECIALIZATION_CLEAR_DATA_HEADER_SIZE == 4      \* Length, FileCount
SPECIALIZATION_CLEAR_DATA_FILE_ENTRY_SIZE == 10
SPEC_UNATTEND_FILENAME == <<117, 110>>          \* unattend.xml
SPEC_SPECIALIZE_FILENAME == <<115, 112, 101>>   \* specialize
Byte == 256
U32 == Byte * Byte                              \* 2^32 in the code

Words(s) == FlattenSeq([i \in DOMAIN s |-> <<s[i] % Byte, s[i] \div Byte>>])
Word(data, o, i) == data[o + 2 * i - 1] + Byte * data[o + 2 * i]    \* the i-th word from offset o on

-----------------------------------------------------------------------------
(* The payload.  A file is [name, payload], both sequences.                *)

CHAR16(name) == Words(name)

\* Each entry is followed by its name and its data.
CombineSpecFiles(files) ==
    LET body == FlattenSeq([i \in DOMAIN files |->
            LET name == CHAR16(files[i].name)
                entry == SPECIALIZATION_CLEAR_DATA_FILE_ENTRY_SIZE
            IN  Words(<<0, Len(name), entry, Len(files[i].payload), entry + Len(name)>>) \o name \o files[i].payload])
    IN  Words(<<SPECIALIZATION_CLEAR_DATA_HEADER_SIZE + Len(body), Len(files)>>) \o body

\* The n bytes from offset o on; past the end, whatever memory holds.
Unknown == Byte
Cells(data, o, n) == [i \in 1 .. n |-> IF o + i <= Len(data) THEN data[o + i] ELSE Unknown]

Entry(body, cur) ==
    [nameSize |-> Word(body, cur, 2), nameOffset |-> Word(body, cur, 3),
     payloadSize |-> Word(body, cur, 4), payloadOffset |-> Word(body, cur, 5)]

\* The name loses the high half of its characters; unattend.xml is renamed.
_WriteSingleSpecFile(body, cur, entry) ==
    LET wide == Cells(body, cur + entry.nameOffset, entry.nameSize)
        name == [i \in 1 .. Len(wide) \div 2 |-> wide[2 * i - 1]]
    IN  [name |-> IF wide = CHAR16(SPEC_UNATTEND_FILENAME) THEN SPEC_SPECIALIZE_FILENAME ELSE name,
         payload |-> Cells(body, cur + entry.payloadOffset, entry.payloadSize)]

EntryOK(body, cur) ==
    /\ cur + SPECIALIZATION_CLEAR_DATA_FILE_ENTRY_SIZE <= Len(body)
    /\ LET e == Entry(body, cur)
       IN  /\ cur + e.nameOffset + e.nameSize <= Len(body)
           /\ cur + e.payloadOffset + e.payloadSize <= Len(body)
           /\ e.nameSize % 2 = 0

\* The next entry follows the name or the data, whichever ends last.
NextEntry(e) ==
    LET name == (e.nameOffset + e.nameSize) % U32
        payload == (e.payloadOffset + e.payloadSize) % U32
    IN  IF payload < name THEN name ELSE payload

_WriteSpecResults(body, count) ==
    LET step(a, i) ==
            IF ~a.ok THEN a ELSE IF ~EntryOK(body, a.cur) THEN [a EXCEPT !.ok = FALSE, !.files = <<>>]
            ELSE LET e == Entry(body, a.cur)
                 IN  [ok |-> TRUE, cur |-> a.cur + NextEntry(e),
                      files |-> Append(a.files, _WriteSingleSpecFile(body, a.cur, e))]
    IN  FoldLeft(step, [ok |-> TRUE, cur |-> 0, files |-> <<>>], [i \in 1 .. count |-> i])

\* The Length of the header is not looked at.
ExtractSpecFiles(data) ==
    LET size == Len(data) - SPECIALIZATION_CLEAR_DATA_HEADER_SIZE
        got == _WriteSpecResults(Cells(data, SPECIALIZATION_CLEAR_DATA_HEADER_SIZE, size), Word(data, 0, 2))
    IN  IF Len(data) < SPECIALIZATION_CLEAR_DATA_HEADER_SIZE THEN [ok |-> FALSE, files |-> <<>>]
        ELSE [ok |-> got.ok, files |-> got.files]

\* lsvmtool: the regular files of a directory, in the order of readdir, to one
\* file; and back.  A file that is there is overwritten.
_serialize_specfile_command(dirents) ==
    CombineSpecFiles(SelectSeq(dirents, LAMBDA f : f.mode = "reg"))
_deserialize_specfile_command(data) ==
    LET got == ExtractSpecFiles(data)
    IN  [ok |-> got.ok, dir |-> FoldLeft(LAMBDA dir, f : (f.name :> f.payload) @@ dir, <<>>, got.files)]

-----------------------------------------------------------------------------
(* Encryption.  A cell of a ciphertext is one byte under a key; the vector *)
(* it was made with and its place stand for the chaining.                  *)

AES_BLOCK_SIZE == 2             \* 16 in the code
ULONG == 1                      \* sizeof(ULONG), 8 in the code
Refused == [ok |-> FALSE, data |-> <<>>]

\* EVP_Encrypt*: n bytes of padding, each of them n.  (External)
EVP_Encrypt(key, iv, plain) ==
    LET n == AES_BLOCK_SIZE - (Len(plain) % AES_BLOCK_SIZE)
        padded == plain \o [i \in 1 .. n |-> n]
    IN  [i \in DOMAIN padded |-> [key |-> key, iv |-> iv, place |-> i, plain |-> padded[i]]]
\* EVP_Decrypt*: whole blocks, the last byte of which says how many bytes of
\* the same value to drop.  Nothing else tells padding from data.  (External)
EVP_Decrypt(key, iv, cells) ==
    LET size == Len(cells)
        clear(i) == cells[i].key = key /\ cells[i].iv = iv /\ cells[i].place = i
        plain == [i \in DOMAIN cells |-> IF clear(i) THEN cells[i].plain ELSE Unknown]
        n == plain[size]
        padded == n \in 1 .. AES_BLOCK_SIZE /\ \A i \in (size - n + 1) .. size : plain[i] = n
    IN  IF size > 0 /\ size % AES_BLOCK_SIZE = 0 /\ padded
        THEN [ok |-> TRUE, data |-> SubSeq(plain, 1, size - n)] ELSE Refused

\* A buffer for vector, size, data and padding; fits says the writes stay in it.
\* The size is written and never read.
TPM2X_AES_CBC_Encrypt(key, iv, plain) ==
    LET cap == AES_BLOCK_SIZE + ULONG + Len(plain) + AES_BLOCK_SIZE
        out == iv \o <<Len(plain)>> \o EVP_Encrypt(key, iv, plain)
    IN  IF plain = <<>> THEN [ok |-> FALSE, data |-> <<>>, fits |-> TRUE]
        ELSE [ok |-> TRUE, data |-> out, fits |-> Len(out) <= cap]

_GetCipher(keyBits) == keyBits \in {128, 192, 256}
TPM2X_AES_CBC_Decrypt(key, keyBits, iv, cells) ==
    IF _GetCipher(keyBits) THEN EVP_Decrypt(key, iv, cells) ELSE Refused

\* lsvmtool encrypt, and decrypt, with a key file of keyBytes bytes.
_encrypt_command(key, keyBytes, iv, in) ==
    IF keyBytes = 32 THEN TPM2X_AES_CBC_Encrypt(key, iv, in) ELSE [ok |-> FALSE, data |-> <<>>, fits |-> TRUE]
_decrypt_command(key, keyBytes, in) ==
    IF keyBytes # 32 \/ Len(in) < AES_BLOCK_SIZE + ULONG THEN Refused
    ELSE TPM2X_AES_CBC_Decrypt(key, keyBytes * 8, Cells(in, 0, AES_BLOCK_SIZE),
                               SubSeq(in, AES_BLOCK_SIZE + ULONG + 1, Len(in)))

-----------------------------------------------------------------------------
(* The file on the ESP: a header of nine words, then the vector, the HMAC  *)
(* and the ciphertext where the header says.                               *)

SECURE_SPECIALIZATION_SIZE == 18
SECURE_SPECIALIZATION_MODE_AES_CBC_SHA256 == 2
IS_SPECIALIZATION_MODE_SUPPORTED(mode) == mode > 0 /\ mode < 3

\* Length, Version, Mode, and length and offset of vector, HMAC and ciphertext.
Header(data) ==
    LET word(i) == Word(data, 0, i)
    IN  [Mode |-> word(3), IVLength |-> word(4), IVOffset |-> word(5), HMACLength |-> word(6),
         HMACOffset |-> word(7), CipherLength |-> word(8), CipherOffset |-> word(9)]

_InBounds(off, len, min, max) == off >= min /\ (off + len) % U32 <= max

_IsValidHeader(data) ==
    /\ Len(data) >= SECURE_SPECIALIZATION_SIZE
    /\ LET spec == Header(data)
           in(off, len) == _InBounds(off, len, SECURE_SPECIALIZATION_SIZE, Len(data))
       IN  /\ IS_SPECIALIZATION_MODE_SUPPORTED(spec.Mode)
           /\ in(spec.IVOffset, spec.IVLength)
           /\ in(spec.CipherOffset, spec.CipherLength)
           /\ spec.Mode = SECURE_SPECIALIZATION_MODE_AES_CBC_SHA256 => in(spec.HMACOffset, spec.HMACLength)

\* Both modes: the HMAC is not compared.  The cipher takes a block's worth of
\* vector, whatever IVLength says.
_AES_CBC_Decrypt(data, key, keyBits) ==
    LET spec == Header(data)
    IN  TPM2X_AES_CBC_Decrypt(key, keyBits, Cells(data, spec.IVOffset, AES_BLOCK_SIZE),
                              Cells(data, spec.CipherOffset, spec.CipherLength))

\* Up to the files' data: those EXT2Put leaves in /lsvmload/specialize, where
\* a file that is there keeps its content.
LoadDecryptCopySpecializeFile(data, key, keyBits) ==
    LET clear == _AES_CBC_Decrypt(data, key, keyBits)
        got == ExtractSpecFiles(clear.data)
        refused == [ok |-> FALSE, dir |-> <<>>]
    IN  IF ~_IsValidHeader(data) \/ ~clear.ok \/ ~got.ok THEN refused
        ELSE [ok |-> TRUE, dir |-> FoldLeft(LAMBDA dir, f : dir @@ (f.name :> f.payload), <<>>, got.files)]
=============================================================================
