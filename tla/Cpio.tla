--------------------------------- MODULE Cpio ---------------------------------
(***************************************************************************)
(* CPIO archives in memory: lsvmutils/cpio.c.                              *)
(*                                                                         *)
(* An image is its size and what lies at which offset: a header, a name, a *)
(* file's data or a compressed archive.  Where nothing lies there are      *)
(* zeros.  Sizes are the real ones (a header has 110 bytes); names are     *)
(* known by their length and base name, data by its length.                *)
(***************************************************************************)
EXTENDS Naturals, Sequences, SequencesExt, FiniteSets, TLC

HeaderSize == 110                \* sizeof(CPIOHeader)
BlockSize == 512                 \* CPIO_BLOCK_SIZE
CPIO_MAX_SUBFILES == 8
Trailer == "TRAILER!!!"
None == 0                        \* a NULL header (offset 0 is written 1)

\* strlen(name) + 1
NameSize(name) ==
    CASE name = Trailer -> 11
      [] name = "." -> 2
      [] name = "etc" -> 4
      [] name = "init" -> 5
      [] name = "etc/lsvmload" -> 13
      [] name = "etc/lsvmload/bootkey" -> 21
      [] name = "etc/lsvmload/rootkey" -> 21
      [] name = "etc/lsvmload/specialize" -> 24
      [] name = "lib/hyperv-keyboard.ko" -> 23

BaseName(name) ==
    CASE name = "etc/lsvmload" -> "lsvmload"
      [] name = "etc/lsvmload/bootkey" -> "bootkey"
      [] name = "etc/lsvmload/rootkey" -> "rootkey"
      [] name = "etc/lsvmload/specialize" -> "specialize"
      [] name = "lib/hyperv-keyboard.ko" -> "hyperv-keyboard.ko"
      [] OTHER -> name

\* A file's data is a sequence of letters, of which only the length and
\* equality matter.
Header(mode, filesize, namesize) ==
    [t |-> "header", mode |-> mode, filesize |-> filesize, namesize |-> namesize]
Name(name) == [t |-> "name", name |-> name]
Data(data) == [t |-> "data", data |-> data]
Compressed(image) == [t |-> "compressed", image |-> image]

_RoundUpToMultiple(x, m) == ((x + m - 1) \div m) * m

-----------------------------------------------------------------------------
(* Walking an archive.  Offsets are passed plus one, so that None is no    *)
(* header.                                                                 *)

CPIOMatchMagicNumber(img, o) == o \in DOMAIN img.at /\ img.at[o].t = "header"

CPIOTest(img) == img.size >= HeaderSize /\ CPIOMatchMagicNumber(img, 0)

_GetFileSize(img, o) == img.at[o].filesize
_GetNameSize(img, o) == img.at[o].namesize
_GetFileMode(img, o) == img.at[o].mode
_GetName(img, o) == img.at[o + HeaderSize].name

CPIOGetEntrySize(img, o) ==
    _RoundUpToMultiple(HeaderSize + _GetNameSize(img, o), 4) + _RoundUpToMultiple(_GetFileSize(img, o), 4)

_ComputeHeaderSize(name, fileSize) ==
    _RoundUpToMultiple(_RoundUpToMultiple(HeaderSize + NameSize(name), 4) + fileSize, 4)

_ComputeTrailerSize == _RoundUpToMultiple(HeaderSize + NameSize(Trailer), 4)

CPIOCheckEntry(img, o) ==
    /\ HeaderSize + o <= img.size
    /\ CPIOMatchMagicNumber(img, o)
    /\ CPIOGetEntrySize(img, o) + o <= img.size

\* The next header after the one at o: None after the trailer; ok is FALSE
\* where the entry there or the one after it does not check.
CPIONextHeader(img, o) ==
    LET next == o + CPIOGetEntrySize(img, o)
    IN  IF ~CPIOCheckEntry(img, o) THEN [ok |-> FALSE, next |-> None]
        ELSE IF _GetName(img, o) = Trailer THEN [ok |-> TRUE, next |-> None]
        ELSE [ok |-> CPIOCheckEntry(img, next), next |-> next + 1]

\* The loop all operations share: the offsets of the headers from offset 0,
\* up to the trailer if ok.
Walk(img) ==
    LET join(o, rest) == [ok |-> rest.ok, headers |-> <<o>> \o rest.headers]
        stop(o, ok) == [ok |-> ok, headers |-> <<o>>]
        from[o \in Nat] ==
            LET step(n) == IF ~n.ok \/ n.next = None THEN stop(o, n.ok) ELSE join(o, from[n.next - 1])
            IN  IF ~CPIOCheckEntry(img, o) THEN [ok |-> FALSE, headers |-> <<>>]
                ELSE step(CPIONextHeader(img, o))
    IN  from[0]

\* The first header with this name; the search stops there, so what follows
\* need not check.
_FindHeader(img, name) ==
    LET first(hits) == IF hits = <<>> THEN None ELSE Head(hits) + 1
    IN  first(SelectSeq(Walk(img).headers, LAMBDA o : _GetName(img, o) = name))

-----------------------------------------------------------------------------
(* Building an archive.                                                    *)

Failed == [ok |-> FALSE]
Done(img) == [ok |-> TRUE, img |-> img]

NoChunks == [o \in {} |-> 0]
Before(img, o) == [x \in {y \in DOMAIN img.at : y < o} |-> img.at[x]]
Put(at, o, chunk) == (o :> chunk) @@ at

\* _empty_archive: the entry "." and the trailer, in one block.
CPIONew ==
    [size |-> BlockSize,
     at |-> Put(Put(Put(Put(NoChunks, 0, Header("dir", 0, 2)), HeaderSize, Name(".")),
                112, Header("none", 0, 11)), 112 + HeaderSize, Name(Trailer))]

\* A new entry over the trailer, and the trailer after it.
AddBefore(img, trailer, name, data, mode) ==
    LET size == _RoundUpToMultiple(trailer + _ComputeHeaderSize(name, Len(data)) + _ComputeTrailerSize, BlockSize)
        dataAt == _RoundUpToMultiple(trailer + HeaderSize + NameSize(name), 4)
        next == _RoundUpToMultiple(dataAt + Len(data), 4)
        end == _RoundUpToMultiple(_RoundUpToMultiple(next + HeaderSize + NameSize(Trailer), 4), BlockSize)
        head == Put(Put(Before(img, trailer), trailer, Header(mode, Len(data), NameSize(name))),
                    trailer + HeaderSize, Name(name))
        body == IF data = <<>> THEN head ELSE Put(head, dataAt, Data(data))
    IN  IF end # size THEN Failed
        ELSE Done([size |-> size,
                   at |-> Put(Put(body, next, img.at[trailer]), next + HeaderSize, Name(Trailer))])
CPIOAddFile(img, name, data, mode) ==
    LET add(h) == IF h = None THEN Failed ELSE AddBefore(img, h - 1, name, data, mode)
    IN  add(_FindHeader(img, Trailer))

\* The entry at o of img, copied to offset p.
CopyEntry(at, img, o, p) ==
    LET n == CPIOGetEntrySize(img, o)
        part == {x \in DOMAIN img.at : x >= o /\ x < o + n}
    IN  [x \in {y - o + p : y \in part} |-> img.at[x + o - p]] @@ at

\* The entries at the offsets keep, one after the other, in size bytes.
CopyEntries(img, keep) ==
    LET copy[i \in 0 .. Len(keep)] ==
            IF i = 0 THEN [at |-> NoChunks, size |-> 0]
            ELSE LET to == copy[i - 1]
                 IN  [at |-> CopyEntry(to.at, img, keep[i], to.size),
                      size |-> to.size + CPIOGetEntrySize(img, keep[i])]
    IN  copy[Len(keep)]

\* A bug to catch: the last block is not filled up.
CPIORemoveFileUnpadded(img, name) ==
    LET remove(w) ==
            IF ~w.ok \/ ~\E i \in DOMAIN w.headers : _GetName(img, w.headers[i]) = name THEN Failed
            ELSE Done(CopyEntries(img, SelectSeq(w.headers, LAMBDA o : _GetName(img, o) # name)))
    IN  remove(Walk(img))
\* Every entry of this name goes.
CPIORemoveFile(img, name) ==
    LET fill(new) == [new EXCEPT !.size = _RoundUpToMultiple(@, BlockSize)]
        remove(w) ==
            IF ~w.ok \/ ~\E i \in DOMAIN w.headers : _GetName(img, w.headers[i]) = name THEN Failed
            ELSE Done(fill(CopyEntries(img, SelectSeq(w.headers, LAMBDA o : _GetName(img, o) # name))))
    IN  remove(Walk(img))

FileData(img, o) ==
    LET dataAt == o + _RoundUpToMultiple(HeaderSize + _GetNameSize(img, o), 4)
    IN  IF _GetFileSize(img, o) = 0 THEN <<>>
        ELSE IF dataAt \in DOMAIN img.at THEN img.at[dataAt].data ELSE <<"?">>

CPIOGetFile(img, name) ==
    LET get(h) == IF h = None THEN Failed ELSE Done(FileData(img, h - 1))
    IN  get(_FindHeader(img, name))

\* Succeeds if the archive is sound and has no file of this name.
CPIOCheckFile(img, name) ==
    img.size >= HeaderSize /\ Walk(img).ok /\ _FindHeader(img, name) = None

CPIOIsFile(img, name) ==
    LET is(h) == h # None /\ _GetFileMode(img, h - 1) = "reg" IN is(_FindHeader(img, name))

CPIOIsDir(img, name) ==
    LET is(h) == h # None /\ _GetFileMode(img, h - 1) = "dir" IN is(_FindHeader(img, name))

\* The paths, one per entry, in the archive's order.
CPIOFindFilesByBaseName(img, base) ==
    LET names(headers) == [i \in 1 .. Len(headers) |-> _GetName(img, headers[i])]
        find(w) == IF ~w.ok THEN Failed
                   ELSE Done(SelectSeq(names(w.headers), LAMBDA n : BaseName(n) = base))
    IN  IF img.size < HeaderSize THEN Failed ELSE find(Walk(img))

-----------------------------------------------------------------------------
(* Concatenated archives.                                                  *)

\* The n bytes of img from offset o on, and img2 after img.
Slice(img, o, n) ==
    [size |-> n,
     at |-> LET part == {x \in DOMAIN img.at : x >= o /\ x < o + n}
            IN  [x \in {y - o : y \in part} |-> img.at[x + o]] @@ NoChunks]
Concat(img, img2) ==
    [size |-> img.size + img2.size,
     at |-> img.at @@ [x \in {y + img.size : y \in DOMAIN img2.at} |-> img2.at[x - img.size]]]

\* The subfile at the front of rest: its size, or no size where an entry does
\* not check.  A header that is none ends the loop: all the rest is one subfile.
SubfileSize(rest) ==
    LET end(trailer) == trailer + CPIOGetEntrySize(rest, trailer)     \* the sum of all entries
        size(w) == IF ~w.ok THEN Failed
                   ELSE Done(_RoundUpToMultiple(_RoundUpToMultiple(end(Last(w.headers)), 4), BlockSize))
    IN  IF rest.size < HeaderSize \/ ~CPIOMatchMagicNumber(rest, 0) THEN Done(rest.size)
        ELSE size(Walk(rest))

\* wild: cpioSize -= subfileSize went below zero and wrapped around; the next
\* subfile is sought outside of the image.
CPIOSplitFile(img) ==
    LET more(rest, subfiles) == [st |-> "more", rest |-> rest, subfiles |-> subfiles]
        cut(prev, rest, s) ==
            CASE ~s.ok -> [prev EXCEPT !.st = "failed"]
              [] s.ok /\ s.img > rest.size -> [prev EXCEPT !.st = "wild"]
              [] OTHER -> more(Slice(rest, s.img, rest.size - s.img), Append(prev.subfiles, Slice(rest, 0, s.img)))
        next(prev) ==
            IF prev.st # "more" \/ prev.rest.size = 0 THEN prev
            ELSE cut(prev, prev.rest, SubfileSize(prev.rest))
        split[n \in 0 .. CPIO_MAX_SUBFILES] == IF n = 0 THEN more(img, <<>>) ELSE next(split[n - 1])
        end(last) == IF last.st = "more" /\ last.rest.size > 0 THEN [last EXCEPT !.st = "failed"] ELSE last
    IN  end(split[CPIO_MAX_SUBFILES])
================================================================================
