------------------------------- MODULE SigLists ------------------------------
(***************************************************************************)
(* UEFI signature databases: the search of db for the certificate that     *)
(* verifies an image (lsvmutils/uefidb.c) and the revoked hashes of dbx    *)
(* (lsvmutils/uefidbx.c) with the commands of lsvmtool that use them.      *)
(*                                                                         *)
(* A database is a size and the headers and signatures at their offsets:   *)
(* the walks compute offsets and look up what is there.                    *)
(***************************************************************************)
EXTENDS PeImage

ListHeader == 28                \* sizeof(EFI_SIGNATURE_LIST)
GuidSize == 16
SHA256Size == 32
CertSize == 20
AuthSize == 40                  \* EFI_TIME and dwLength of the update's signature

(* Reading where nothing was laid out finds nothing it could use.          *)
Absent == [t |-> "absent"]
At(db, o) == IF o \in DOMAIN db.at THEN db.at[o] ELSE Absent

(* The authentication header in front of an update is recognised by its    *)
(* certificate type; what follows it is the data.                          *)
SkipOptionalDBXHeader(db) ==
    IF At(db, 0).t = "auth" /\ AuthSize <= db.size
    THEN [size |-> db.size - AuthSize,
          at   |-> [o \in {p - AuthSize : p \in {q \in DOMAIN db.at : q >= AuthSize}} |-> db.at[o + AuthSize]]]
    ELSE db

------------------------------------------------------------------------------
(* dbx *)

NoHashes == [ok |-> FALSE, hashes |-> <<>>]

(* Only lists of SHA-256 hashes count, and in them only the signatures of  *)
(* one owner.                                                              *)
LoadDBXHashes(db) ==
    LET d == SkipOptionalDBXHeader(db)
        sigs(p, n, size) == [i \in 1..n |-> At(d, p + (i - 1) * size)]
        f[p \in Nat] ==
            LET h     == At(d, p)
                first == p + ListHeader + h.headerSize
                n     == (h.listSize - ListHeader - h.headerSize) \div h.sigSize
                ours  == SelectSeq(sigs(first, n, h.sigSize), LAMBDA s : s.t = "sig" /\ s.owner = "microsoft")
                rest  == f[first + n * h.sigSize]
            IN CASE p >= d.size -> [ok |-> TRUE, hashes |-> <<>>]
                 [] p < d.size /\ (p + ListHeader > d.size \/ h.t # "list") -> NoHashes
                 [] OTHER ->
                      IF p + h.listSize > d.size THEN NoHashes
                      ELSE IF h.type # "sha256" THEN f[p + h.listSize]
                      ELSE IF first > d.size \/ (ours # <<>> /\ h.sigSize - GuidSize # SHA256Size) THEN NoHashes
                      ELSE IF ~rest.ok THEN NoHashes
                      ELSE [ok |-> TRUE, hashes |-> [i \in 1..Len(ours) |-> ours[i].data] \o rest.hashes]
    IN IF db.size = 0 THEN NoHashes ELSE f[0]

(* The second list of hashes comes from the file as well as the first: the  *)
(* variable is loaded and then not looked at.                               *)
NeedDBXUpdate(file, var) ==
    LET one == LoadDBXHashes(file)
        two == LoadDBXHashes(file)
    IN [ok |-> one.ok /\ two.ok, need |-> ToSet(one.hashes) # ToSet(two.hashes)]

_stripdbx_command(db) == IF LoadDBXHashes(db).ok THEN SkipOptionalDBXHeader(db) ELSE db

_revoked_command(hash, db) ==
    LET r == LoadDBXHashes(db)
    IN IF ~r.ok THEN "failed" ELSE IF hash \in ToSet(r.hashes) THEN "yes" ELSE "no"

------------------------------------------------------------------------------
(* db *)

(* The first signature of the list that verifies the image, or none.        *)
_SearchSignatures(db, h, first, file) ==
    LET n    == (h.listSize - ListHeader - h.headerSize) \div h.sigSize
        hits == SelectSeq([i \in 1..n |-> At(db, first + (i - 1) * h.sigSize)],
                          LAMBDA s : s.t = "sig" /\ CheckCert(file, s.data))
    IN CASE (h.listSize - ListHeader - h.headerSize) % h.sigSize # 0 -> <<"error">>
         [] (h.listSize - ListHeader - h.headerSize) % h.sigSize = 0 /\ hits # <<>> -> <<"found", hits[1]>>
         [] OTHER -> <<"none">>

(* A list without a signature is an error, not an empty list.               *)
CheckImageDB(db, file) ==
    LET f[p \in Nat] ==
            LET h == At(db, p)
                r == _SearchSignatures(db, h, p + ListHeader + h.headerSize, file)
            IN CASE p >= db.size -> <<"none">>
                 [] p < db.size /\ (p + ListHeader > db.size \/ h.t # "list") -> <<"error">>
                 [] OTHER ->
                      IF \/ p + h.listSize > db.size
                         \/ h.headerSize + h.sigSize + ListHeader > h.listSize THEN <<"error">>
                      ELSE IF r[1] # "none" THEN r ELSE f[p + h.listSize]
    IN f[0]

------------------------------------------------------------------------------
(* External: databases as firmware and the signed updates lay them out.     *)

SigSize(type) == GuidSize + IF type = "sha256" THEN SHA256Size ELSE CertSize
ListSize(l) == ListHeader + l.headerSize + Len(l.sigs) * SigSize(l.type)

AddList(db, l) ==
    LET first == db.size + ListHeader + l.headerSize
        at(i) == first + (i - 1) * SigSize(l.type)
    IN [size |-> db.size + ListSize(l),
        at   |-> (db.size :> [t |-> "list", type |-> l.type, listSize |-> ListSize(l),
                              headerSize |-> l.headerSize, sigSize |-> SigSize(l.type)])
                 @@ [o \in {at(i) : i \in 1..Len(l.sigs)} |->
                        LET s == l.sigs[(o - first) \div SigSize(l.type) + 1]
                        IN [t |-> "sig", owner |-> s.owner, data |-> s.data]]
                 @@ db.at]

Database(auth, lists) ==
    FoldLeft(AddList, IF auth THEN [size |-> AuthSize, at |-> (0 :> [t |-> "auth"])]
                      ELSE [size |-> 0, at |-> [o \in {} |-> Absent]], lists)
==============================================================================
