------------------------------- MODULE PeImage -------------------------------
(***************************************************************************)
(* PE images: the regions that are hashed (lsvmutils/peimage.c), the check *)
(* of an image's signature against a certificate, and the loader that      *)
(* relocates shim into memory (lsvmload/image.c).                          *)
(*                                                                         *)
(* A file is laid out in cells: the DOS header, the start of the optional  *)
(* header, its CheckSum, the security entry of its data directory, one     *)
(* cell for each section header, then the body.  file.bytes holds a cell's *)
(* content; what the headers say is given by the file's other fields.      *)
(***************************************************************************)
EXTENDS Integers, Sequences, SequencesExt, FiniteSets, TLC

CheckSumAt == 2
SecDirAt == 3
FirstSectionAt == 4
FileAlignment == 2

Region(at, n) == [at |-> at, n |-> n]
Parsed(ok, regions) == [ok |-> ok, regions |-> regions]

(* The bubble sort by PointerToRawData: stable, ascending.                 *)
SortedSections(sections) ==
    SortSeq([k \in 1..Len(sections) |-> [s |-> sections[k], k |-> k]],
            LAMBDA x, y : \/ x.s.PointerToRawData < y.s.PointerToRawData
                          \/ x.s.PointerToRawData = y.s.PointerToRawData /\ x.k < y.k)

_ParseSignature(file) == file.secDir.Size = 0 \/ file.signature.type = 2

(* What follows the last section, the certificates at the end left out.    *)
Trailing(file, last) ==
    LET offset == last.PointerToRawData + last.SizeOfRawData
    IN IF offset < file.size THEN <<Region(offset, file.size - file.secDir.Size - offset)>> ELSE <<>>

ParseImage(file) ==
    LET sorted  == SortedSections(file.sections)
        used    == SelectSeq(sorted, LAMBDA x : x.s.SizeOfRawData # 0)
        headers == <<Region(0, CheckSumAt), Region(CheckSumAt + 1, SecDirAt - CheckSumAt - 1),
                     Region(SecDirAt + 1, file.SizeOfHeaders - SecDirAt - 1)>>
    IN IF file.size < 1 \/ ~file.e_magic \/ ~_ParseSignature(file) THEN Parsed(FALSE, <<>>)
       ELSE Parsed(TRUE, headers
                \o [k \in 1..Len(used) |-> Region(used[k].s.PointerToRawData, used[k].s.SizeOfRawData)]
                \o Trailing(file, sorted[Len(sorted)].s))

(* The cells a hash has seen, in order.                                    *)
Cells(r) == [i \in 1..r.n |-> r.at + i - 1]
HashImage(file, regions) ==
    LET cells == FlattenSeq([k \in 1..Len(regions) |-> Cells(regions[k])])
    IN [i \in 1..Len(cells) |-> file.bytes[cells[i]]]

ParseAndHashImage(file) ==
    LET r == ParseImage(file) IN IF r.ok THEN HashImage(file, r.regions) ELSE <<>>

------------------------------------------------------------------------------
(* Signatures.  A signature names the certificate it was made with, that    *)
(* certificate's issuer, and the hash it signs; a certificate is a string.  *)

_IsPKCS7Wrapped(sig) == sig.wrapped

(* External: OpenSSL's chain errors for the signer when only t is trusted.  *)
ChainErrors(sig, t) ==
    (IF sig.expired THEN {[error |-> "HAS_EXPIRED", cert |-> sig.signer]} ELSE {})
    \cup (IF t = sig.issuer THEN {} ELSE {[error |-> "UNABLE_TO_GET_ISSUER_CERT_LOCALLY", cert |-> sig.signer]})

(* Dates never matter; a missing issuer does not when the certificate is    *)
(* itself the trusted one.                                                  *)
_VerifyCallbackAll(e, t) == TRUE
_VerifyCallback(e, t) ==
    \/ e.error = "HAS_EXPIRED"
    \/ e.error = "UNABLE_TO_GET_ISSUER_CERT_LOCALLY" /\ e.cert = t

Certificates == {"signer", "issuer", "other"}
_VerifyPKCS7Certificate(sig, t) ==
    /\ t \in Certificates                      \* d2i_X509
    /\ \A e \in ChainErrors(sig, t) : _VerifyCallback(e, t)

(* The signature must parse as it stands, carry Authenticode content, and   *)
(* sign the hash of this very image.                                        *)
_CheckCertAux(sig, hash, t) ==
    /\ _IsPKCS7Wrapped(sig)                    \* d2i_PKCS7
    /\ sig.spc
    /\ sig.hash = hash
    /\ _VerifyPKCS7Certificate(sig, t)

CheckCert(file, t) ==
    /\ ParseImage(file).ok
    /\ file.secDir.Size # 0
    /\ _CheckCertAux(file.signature, ParseAndHashImage(file), t)

------------------------------------------------------------------------------
(* The loader *)

__ChkBounds(regionSize, at, n) == at >= 0 /\ at + n <= regionSize
RoundUp(n, m) == ((n + m - 1) \div m) * m
Least(a, b) == IF a < b THEN a ELSE b
Copied(s) == Least(s.VirtualSize, s.SizeOfRawData)

_GetHeaders(file) ==
    LET size == FirstSectionAt + Len(file.sections)
    IN /\ file.e_magic
       /\ ~file.relocsStripped
       /\ file.size >= file.SizeOfImage
       /\ size <= file.size
       /\ RoundUp(size, FileAlignment) = file.SizeOfHeaders
       /\ __ChkBounds(file.size, file.relocDir.VirtualAddress, file.relocDir.Size)
       /\ \A k \in 1..Len(file.sections) :
              __ChkBounds(file.size, file.sections[k].PointerToRawData, Copied(file.sections[k]))

(* The tags of a relocation the loader knows; ABSOLUTE is filling.          *)
RelocTags == {"ABSOLUTE", "HIGH", "LOW", "HIGHLOW", "DIR64"}

(* The block list of the relocation section is read up to its VirtualSize;  *)
(* each site moves by the distance of the new base, or the half of it that  *)
(* its tag names, counted here.  A block without a size or larger than the  *)
(* directory, another tag and a site outside the image end the loading.     *)
_ApplyRelocations(file, mem) ==
    LET sites == FlattenSeq([b \in 1..Len(file.relocs) |->
                     [e \in 1..Len(file.relocs[b].entries) |->
                         [tag |-> file.relocs[b].entries[e].tag,
                          at  |-> file.relocs[b].VirtualAddress + file.relocs[b].entries[e].addr]]])
        moved == SelectSeq(sites, LAMBDA s : s.tag # "ABSOLUTE")
    IN IF \/ \E b \in 1..Len(file.relocs) : file.relocs[b].SizeOfBlock \notin 1..file.relocDir.Size
          \/ \E k \in 1..Len(sites) : sites[k].tag \notin RelocTags
          \/ \E k \in 1..Len(moved) : ~__ChkBounds(file.SizeOfImage, moved[k].at, 1)
       THEN [ok |-> FALSE]
       ELSE [ok  |-> TRUE,
             mem |-> FoldLeft(LAMBDA m, s : [m EXCEPT ![s.at].moved = @ + 1], mem, moved)]

(* Section s copied into memory and its tail cleared; out of bounds fails.  *)
CopySection(file, m, s) ==
    LET n == Copied(s)
    IN IF s.SizeOfRawData > 0 => __ChkBounds(file.SizeOfImage, s.PointerToRawData, n)
       THEN [m EXCEPT !.mem = [a \in DOMAIN @ |->
                CASE a - s.VirtualAddress \in 0..(n - 1) ->
                         [cell |-> file.bytes[s.PointerToRawData + a - s.VirtualAddress], moved |-> 0]
                  [] a - s.VirtualAddress \in n..(s.VirtualSize - 1) -> [cell |-> 0, moved |-> 0]
                  [] OTHER -> @[a]]]
       ELSE [m EXCEPT !.end = "refused"]

IsReloc(file, s) ==
    /\ s.name = ".reloc" /\ s.SizeOfRawData > 0 /\ s.VirtualSize > 0
    /\ file.relocDir.VirtualAddress = s.VirtualAddress
    /\ file.relocDir.Size = Copied(s)

(* One section of the loop.  A second relocation section leaves it with the *)
(* success that _GetHeaders returned and no entry point.                    *)
LoadSection(file, m, s) ==
    LET seen == [m EXCEPT !.reloc = @ \/ IsReloc(file, s)]
    IN CASE m.end # "" -> m
         [] m.end = "" /\ ~__ChkBounds(file.SizeOfImage, s.VirtualAddress, s.VirtualSize) ->
              [m EXCEPT !.end = "refused"]
         [] OTHER ->
              IF s.name = ".reloc" /\ m.reloc THEN [m EXCEPT !.end = "no entry point"]
              ELSE IF s.discardable THEN seen
              ELSE CopySection(file, seen, s)

(* reserve: whether memory could be allocated.  end says how the call went: *)
(* "no entry point" is success with the entry point never set.              *)
_FixupImage(file, reserve) ==
    LET headers == [a \in 0..(file.SizeOfImage - 1) |->
                       [cell |-> IF a < file.SizeOfHeaders THEN file.bytes[a] ELSE 0, moved |-> 0]]
        start   == [end |-> "", reloc |-> FALSE, mem |-> headers]
        loop    == FoldLeft(LAMBDA m, s : LoadSection(file, m, s), start, file.sections)
        moved   == IF loop.reloc /\ file.relocDir.Size > 0 THEN _ApplyRelocations(file, loop.mem)
                   ELSE [ok |-> TRUE, mem |-> loop.mem]
        result(end, mem) == [end |-> end, mem |-> mem]
    IN CASE ~_GetHeaders(file) -> result("refused", headers)
         [] _GetHeaders(file) /\ ~reserve -> result("no entry point", headers)
         [] OTHER ->
              IF ~__ChkBounds(file.SizeOfImage, 0, file.SizeOfHeaders)
                 \/ ~__ChkBounds(file.SizeOfImage, file.relocDir.VirtualAddress, file.relocDir.Size)
              THEN result("refused", headers)
              ELSE IF loop.end # "" THEN result(loop.end, headers)
              ELSE IF file.NumberOfRvaAndSizes <= 5 THEN result("no entry point", headers)
              ELSE IF ~moved.ok \/ ~__ChkBounds(file.SizeOfImage, file.entry, 1) THEN result("refused", headers)
              ELSE result("loaded", moved.mem)
==============================================================================
