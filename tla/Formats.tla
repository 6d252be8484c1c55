------------------------------- MODULE Formats -------------------------------
(***************************************************************************)
(* The parsers and codecs of lsvmutils, run on inputs that are written the *)
(* way their writers write them: each action is one use of a format by     *)
(* lsvmload or by a command of lsvmtool, from an input to its answer, and  *)
(* each property compares the answer with what the input says, computed    *)
(* from the structure the input was rendered from.                         *)
(***************************************************************************)
EXTENDS Integers, Sequences, SequencesExt, FiniteSets, TLC

F == INSTANCE ConfFiles
L == INSTANCE Luks
S == INSTANCE SigLists
W == INSTANCE TpmWire
P == INSTANCE SpecFiles

VARIABLES op,                   \* the use of a format that is asked for
          done,                 \* whether it was answered
          input,                \* the structure the input was rendered from
          answer
vars == <<op, done, input, answer>>

UpTo(n, set) == UNION {[1..k -> set] : k \in 0..n}
Use(name, inputs, f(_)) ==
    /\ op = name
    /\ ~done
    /\ done' = TRUE
    /\ UNCHANGED op
    /\ \E i \in inputs : input' = i /\ answer' = f(i)

Did(name) == done /\ op = name

Uses == {"grubcfginitrd", "grubcfg", "patch", "conf", "policy", "deserializekeys", "luksmk",
         "bootdev", "peimage", "parsedb", "image", "dumpdbx", "tpm",
         "specfile", "crypt", "specialize"}
Init == op \in Uses /\ done = FALSE /\ input = <<>> /\ answer = <<>>

------------------------------------------------------------------------------
(* grub.cfg: the initrd of the default entry.  A menu is a sequence of      *)
(* entries and submenus of entries.                                         *)

Leaf(title, id, initrd) == [sub |-> FALSE, title |-> title, id |-> id, initrd |-> initrd]
Sub(items) == [sub |-> TRUE, title |-> "S", id |-> "s", items |-> items]
MenuItems == {Leaf("A", "x", TRUE), Leaf("B", "", TRUE), Leaf("A", "", FALSE), Leaf("C", "x", TRUE)}
             \cup {Sub(i) : i \in UpTo(2, {Leaf("A", "x", TRUE), Leaf("B", "", FALSE)})}
Menus == UpTo(2, MenuItems)
DefaultValues == {<<>>, <<"0">>, <<"1">>, <<"A">>, <<"x">>, <<"0", ">", "1">>, <<"1", ">", "0">>,
                  <<"S", ">", "B">>, <<"s", ">", "1">>, <<"S", ">", "x">>, <<"1", ">", "1">>}

(* The initrd of the item at menu position i, and j in a submenu.           *)
File(i, j) == <<"/initrd", <<"a", "b", "c">>[i], <<"0", "a", "b">>[j + 1]>>
Quote(word) == <<"'">> \o word \o <<"'">>
Open(kind, item) ==
    <<kind, " ">> \o Quote(<<item.title>>)
    \o (IF item.id = "" THEN <<>> ELSE <<" ", "--id", " ">> \o Quote(<<item.id>>)) \o <<" ", "{", "\n">>
LeafText(leaf, i, j) ==
    Open("menuentry", leaf) \o (IF leaf.initrd THEN <<" ", "initrd", " ">> \o File(i, j) \o <<"\n">> ELSE <<>>)
    \o <<"}", "\n">>
ItemText(item, i) ==
    IF item.sub
    THEN Open("submenu", item) \o FlattenSeq([j \in 1..Len(item.items) |-> LeafText(item.items[j], i, j)])
         \o <<"}", "\n">>
    ELSE LeafText(item, i, 0)
MenuText(in) ==
    <<"set", " ", "default=", "\"", "$", "next", "\"", "\n">>
    \o (IF in.default = <<>> THEN <<>> ELSE <<"set", " ", "default=", "\"">> \o in.default \o <<"\"", "\n">>)
    \o FlattenSeq([i \in 1..Len(in.menu) |-> ItemText(in.menu[i], i)])

GrubcfgInitrd ==
    Use("grubcfginitrd", [menu : Menus, default : DefaultValues], LAMBDA i : F!GRUBCfgFindInitrd(MenuText(i)))

Names(item, k) == {F!U64tostr(k - 1), <<item.title>>, <<item.id>>}
(* The leaves in the order of the document, with the names on their path.   *)
Addresses(menu) ==
    FlattenSeq([i \in 1..Len(menu) |->
        IF menu[i].sub
        THEN [j \in 1..Len(menu[i].items) |->
                 [leaf |-> menu[i].items[j], file |-> File(i, j),
                  path |-> <<Names(menu[i], i), Names(menu[i].items[j], j)>>]]
        ELSE <<[leaf |-> menu[i], file |-> File(i, 0), path |-> <<Names(menu[i], i)>>]>>])

(* grubcfg.c resolves the default of a menu to the first entry, in the      *)
(* order of the file, that every component of the default names by number,  *)
(* title or identifier at its own level; numbers restart in each submenu    *)
(* and count submenus; a variable as default is passed over; without a      *)
(* default it is the first entry at the top.  The initrd of no other entry  *)
(* is ever returned, not even when the entry has none.                      *)
DefaultInitrdFound ==
    Did("grubcfginitrd") =>
        LET want == F!StrSplit(input.default)
            hits == SelectSeq(Addresses(input.menu), LAMBDA a :
                        IF input.default = <<>> THEN Len(a.path) = 1
                        ELSE /\ Len(a.path) = Len(want)
                             /\ \A k \in 1..Len(want) : want[k] \in a.path[k])
        IN /\ answer.ok
           /\ answer.path = IF hits = <<>> \/ (hits # <<>> /\ ~hits[1].leaf.initrd) THEN <<>> ELSE hits[1].file

------------------------------------------------------------------------------
(* grub.cfg: quoting, and the removal of the cryptodisk commands.           *)

Characters == {"a", " ", "\"", "'", "\\", ";", "\n", "#"}
Escaped(word, q) == FlattenSeq([k \in 1..Len(word) |->
                        IF word[k] \in {q, "\\"} THEN <<"\\", word[k]>> ELSE <<word[k]>>])
QuotedText(in) ==
    FlattenSeq([k \in 1..Len(in.words) |-> <<in.q>> \o Escaped(in.words[k], in.q) \o <<in.q, " ">>])
    \o <<in.end>>

GrubcfgWords ==
    Use("grubcfg", {[words |-> <<v, w>>, q |-> q, end |-> e] :
                        v \in UpTo(2, Characters), w \in UpTo(1, Characters), q \in {"\"", "'"}, e \in {"\n", ";"}},
        LAMBDA i : F!_Parse(QuotedText(i)))

(* A word between quotes reaches the commands of the parser as it was, any  *)
(* separator, comment sign or quote inside it included.                     *)
WordsKept == Did("grubcfg") => answer = <<input.words>>

GrubLines == {<<"insmod", " ", "luks">>, <<" ", " ", "insmod", " ", "cryptodisk", " ">>,
              <<"insmod", " ", "ext2">>, <<"#", "insmod", " ", "luks">>, <<"echo", " ", "insmod", " ", "luks">>,
              <<"insmod", " ", "gcry_sha1", ";", " ", "linux">>,
              <<"insmod", " ", "luks", "2">>, <<>>}
\* insmod of a module whose name begins with one of these.
Crypto(command) ==
    /\ command[1] = <<"insmod">>
    /\ \E m \in {<<"luks">>, <<"cryptodisk">>, <<"gcry_sha1">>} : IsPrefix(m, command[2])
GrubText(lines) == FlattenSeq([k \in 1..Len(lines) |-> lines[k] \o <<"\n">>])

PatchGrubCfg ==
    Use("patch", UpTo(3, GrubLines) \ {<<>>}, LAMBDA i : F!GrubcfgPatch(GrubText(i)))

(* GrubcfgPatch works in place: the text keeps its length, and GRUB then    *)
(* runs exactly the lines whose text did not begin with one of the          *)
(* commands; a longer module name begins with one too.                      *)
OnlyCryptoPatched ==
    Did("patch") =>
        LET first(l) == F!_Parse(l \o <<"\n">>)
            kept == SelectSeq(input, LAMBDA l : first(l) # <<>> /\ ~Crypto(first(l)[1]))
        IN /\ Len(answer) = Len(GrubText(input))
           /\ F!_Parse(answer) = FlattenSeq([k \in 1..Len(kept) |-> first(kept[k])])

------------------------------------------------------------------------------
(* lsvmload.conf.  A line is its text and what it is meant to say.          *)

Line(text, kind, value) == [text |-> text, kind |-> kind, value |-> value]
ConfLines == {Line(<<" ", "#", "LogLevel", "=", "x">>, "skip", <<>>),
              Line(<<"LogLevel", "=", "DEBUG", " ">>, "logLevel", <<"DEBUG">>),
              Line(<<"LogLevel", " ", "=", "LOUD">>, "bad", <<>>),
              Line(<<" ", "EFIVendorDir", " ", "=", " ", "EFI", "/", "b">>, "efiVendorDir", <<"EFI", "/", "b">>),
              Line(<<"EFIVendorDir", "=">>, "efiVendorDir", <<>>),
              Line(<<"BootDeviceLUKS", "=", " ", "guid", "1", " ", " ">>, "bootDevice", <<"guid", "1">>),
              Line(<<"RootDeviceLUKS", "=", "guid">>, "rootDevice", <<"guid">>),
              Line(<<"BootDevice", "=", "sda">>, "skip", <<>>),
              Line(<<"LogLevel", " ", "DEBUG">>, "bad", <<>>)}
ConfText(in) ==
    FlattenSeq([k \in 1..Len(in.lines) |->
        in.lines[k].text \o (IF k = Len(in.lines) /\ in.open THEN <<>> ELSE <<"\n">>)])

ReadConf ==
    Use("conf", [lines : UpTo(4, ConfLines), open : BOOLEAN], LAMBDA i : F!LoadConf(ConfText(i)))

(* LoadConf takes a file exactly when no line of it is wrong and the vendor *)
(* directory and both devices are given; every option then has the value    *)
(* its last line gave it, whatever space surrounds it.  Otherwise the first *)
(* wrong line is the one reported, and what came before it has been set.    *)
ConfAsWritten ==
    Did("conf") =>
        LET bad    == {k \in 1..Len(input.lines) : input.lines[k].kind = "bad"}
            stop   == IF bad = {} THEN Len(input.lines) + 1 ELSE CHOOSE k \in bad : \A j \in bad : k <= j
            set(o) == {k \in 1..(stop - 1) : input.lines[k].kind = o}
            last(o) == IF set(o) = {} THEN <<>>
                       ELSE input.lines[CHOOSE k \in set(o) : \A j \in set(o) : j <= k].value
        IN IF input.lines = <<>> THEN ~answer.ok
           ELSE /\ answer.ok <=> /\ bad = {}
                                 /\ \A o \in {"efiVendorDir", "bootDevice", "rootDevice"} : set(o) # {}
                /\ \A o \in DOMAIN answer.g : answer.g[o] = last(o)
                /\ answer.errorLine = IF bad = {} THEN 0 ELSE stop

------------------------------------------------------------------------------
(* Policy files: a main file and one it may include.                        *)

Text(fields) == [k |-> "text", fields |-> fields]
Comment == [k |-> "comment"]
GoodLines == {Text(<<"file", "PEIMAGE", "11">>), Text(<<"var", "EFIVAR">>)}
BadLines == {Text(<<"file", "NONE", "7">>), Text(<<"file", "PCR", "24">>), Text(<<"file", "PCR", "7", "x">>)}
MainLines == GoodLines \cup BadLines
             \cup {Comment, [k |-> "include", name |-> "inc"], [k |-> "include", name |-> "gone"],
                   [k |-> "bad include"]}
IncLines == {Comment, Text(<<"file", "PEIMAGE", "7">>), Text(<<"">>)}

PolicyFile ==
    Use("policy", [main : UpTo(3, MainLines), inc : UpTo(2, IncLines)],
        LAMBDA i : F!LoadPolicy("main" :> i.main @@ "inc" :> i.inc, "main"))

(* The lines as a reader of the two files meets them, each with its place.  *)
Placed(file, lines) == [k \in 1..Len(lines) |-> [file |-> file, line |-> k, l |-> lines[k]]]
Reading(in) ==
    FlattenSeq([k \in 1..Len(in.main) |->
        IF in.main[k].k = "include" /\ in.main[k].name = "inc" THEN Placed("inc", in.inc)
        ELSE <<Placed("main", in.main)[k]>>])

(* LoadPolicy reports a wrong line by the name of its own file and its own  *)
(* number there, however many files were included before it, and returns    *)
(* the entries in front of it; a file that cannot be included, or a bad     *)
(* #include, is found before any entry is taken.                            *)
PolicyAsWritten ==
    Did("policy") =>
        LET all      == Reading(input)
            unread   == SelectSeq(all, LAMBDA p : p.l.k \in {"include", "bad include"})
            isText(p) == p.l.k = "text"
            before(k) == SelectSeq(SubSeq(all, 1, k - 1), isText)
            wrong    == {k \in 1..Len(all) :
                            /\ isText(all[k])
                            /\ \/ all[k].l.fields \in {b.fields : b \in BadLines} \cup {<<"">>}
                               \/ Len(before(k)) = F!POLICY_MAX_ENTRIES}
            stop     == CHOOSE k \in wrong : \A j \in wrong : k <= j
            taken    == before(IF wrong = {} THEN Len(all) + 1 ELSE stop)
        IN IF unread # <<>>
           THEN /\ ~answer.ok /\ answer.entries = <<>>
                /\ IF unread[1].l.k = "include" THEN answer.file = "gone"
                   ELSE answer.file = "main" /\ answer.line = unread[1].line
           ELSE /\ answer.ok <=> wrong = {}
                /\ [k \in 1..Len(answer.entries) |-> answer.entries[k].path]
                     = [k \in 1..Len(taken) |-> taken[k].l.fields[1]]
                /\ \A k \in 1..Len(taken) :
                       answer.entries[k].pcr = IF Len(taken[k].l.fields) = 2 THEN 0
                                               ELSE IF taken[k].l.fields[3] = "11" THEN 11 ELSE 7
                /\ wrong # {} => answer.file = all[stop].file /\ answer.line = all[stop].line

------------------------------------------------------------------------------
(* The sealed key file.                                                     *)

Key(n, x) == [i \in 1..n |-> (i + x) % L!Byte]
KeyFile(in) ==
    LET blob == IF in.swapped THEN L!Pack16(2) \o L!_SerializeKey(2, Key(in.root, 1)) \o L!_SerializeKey(1, Key(in.boot, 0))
                ELSE L!CombineKeys(Key(in.boot, 0), Key(in.root, 1))
    IN SubSeq(blob, 1, Len(blob) - in.cut)
KeySizes == 0..(L!Byte * L!Byte + 1)

DeserializeKeys ==
    Use("deserializekeys", [boot : KeySizes, root : KeySizes, swapped : BOOLEAN, cut : 0..6],
        LAMBDA i : L!SplitKeys(KeyFile(i)))

(* Two keys whose sizes fit in 16 bits are read back as they were written,  *)
(* each under its own name and in either order.  Of a file that lost its    *)
(* end only bytes of the key that comes last may be missing: otherwise it   *)
(* is refused, and the other key is returned whole.                         *)
KeysKept ==
    Did("deserializekeys") /\ input.boot < L!Byte * L!Byte /\ input.root < L!Byte * L!Byte =>
        LET boot == Key(input.boot, 0)
            root == Key(input.root, 1)
            lost(key) == SubSeq(key, 1, Len(key) - input.cut)
        IN IF input.cut = 0
           THEN answer = [ok |-> TRUE, overread |-> FALSE, boot |-> boot, root |-> root]
           ELSE answer.ok => /\ answer.overread
                             /\ input.cut <= Len(IF input.swapped THEN boot ELSE root)
                             /\ answer.boot = IF input.swapped THEN lost(boot) ELSE boot
                             /\ answer.root = IF input.swapped THEN root ELSE lost(root)

------------------------------------------------------------------------------
(* LUKS volumes.                                                            *)

mk1 == <<1, 0, 1>>
mk2 == <<0, 1, 1>>
SlotStates == [enabled : {"enabled", "disabled", "other"}, pass : {"p1", "p2"}]

OpenVolume ==
    Use("luksmk", [magic : BOOLEAN, mode : L!Modes \cup {"cbc-essiv:", "ecb"}, hash : {"sha1", "sha256", "sha512", "md5"},
                   mk : {mk1, mk2}, slots : [1..2 -> SlotStates], random : {<<1, 1, 0>>, <<0, 1, 0>>}],
        LAMBDA i : L!LUKSBlkdevFromRawBytes(L!Volume(i.magic, i.mode, i.hash, i.mk, i.slots, i.random, TRUE), "p1"))

(* A passphrase opens a volume with the volume's own master key exactly     *)
(* when some enabled slot was made with it, whichever slot that is, and the *)
(* cipher and the hash are ones the code can run; never with another key.   *)
VolumeOpens ==
    Did("luksmk") =>
        answer = IF /\ input.magic /\ input.mode \in L!Modes /\ input.hash \in {"sha1", "sha256"}
                    /\ \E k \in 1..2 : input.slots[k] = [enabled |-> "enabled", pass |-> "p1"]
                 THEN input.mk ELSE L!NoKey

Slot == [enabled |-> "enabled", pass |-> "p1"]
Partition(mk, magic, fs) ==
    [used |-> TRUE, opens |-> TRUE, dev |-> L!Volume(magic, "xts-plain64", "sha1", mk, <<Slot>>, <<1, 1, 0>>, fs)]
Entries == [boot |-> Partition(mk1, TRUE, TRUE), nofs |-> Partition(mk1, TRUE, FALSE),
            other |-> Partition(mk2, TRUE, TRUE), plain |-> Partition(mk1, FALSE, TRUE),
            gone |-> [Partition(mk1, TRUE, TRUE) EXCEPT !.opens = FALSE],
            unused |-> [Partition(mk1, TRUE, TRUE) EXCEPT !.used = FALSE]]

FindBootDevice ==
    Use("bootdev", [1..3 -> DOMAIN Entries],
        LAMBDA i : L!LUKSFindBootDevice([k \in 1..3 |-> Entries[i[k]]], mk1))

(* The boot partition is the first one in front of every unused entry that  *)
(* the master key decrypts to a file system, whatever other encrypted or    *)
(* plain partitions precede it, but none is found behind one that cannot be *)
(* opened; the partition said to be available is the first unused entry, so *)
(* no partition in use is ever given away.                                  *)
BootPartitionFound ==
    Did("bootdev") =>
        LET unused == {k \in 1..3 : input[k] = "unused"} \cup {4}
            first  == CHOOSE k \in unused : \A j \in unused : k <= j
            boots  == {k \in 1..(first - 1) : input[k] = "boot" /\ \A j \in 1..k : input[j] # "gone"}
        IN /\ answer.ok <=> boots # {}
           /\ boots # {} => /\ answer.partitionNumber \in boots
                            /\ \A j \in boots : answer.partitionNumber <= j
                            /\ answer.available = first

------------------------------------------------------------------------------
(* PE images.  sizes: the sections in the order of the file; order: the     *)
(* places of the section headers among them.                                *)

Sum(seq) == FoldLeft(LAMBDA a, b : a + b, 0, seq)
Orders(n) == {p \in [1..n -> 1..n] : \A i, j \in 1..n : p[i] = p[j] => i = j}
Image(in) ==
    LET n       == Len(in.sizes)
        headers == S!RoundUp(S!FirstSectionAt + n, S!FileAlignment)
        size    == headers + Sum(in.sizes) + in.trail + in.cert
        section(k) == [PointerToRawData |-> IF in.sizes[k] = 0 THEN 0 ELSE headers + Sum(SubSeq(in.sizes, 1, k - 1)),
                       SizeOfRawData |-> in.sizes[k]]
    IN [e_magic |-> TRUE, size |-> size, SizeOfHeaders |-> headers, secDir |-> [Size |-> in.cert],
        signature |-> [type |-> 2], bytes |-> [a \in 0..(size - 1) |-> a],
        sections |-> [h \in 1..n |-> section(in.order[h])]]
ImageInputs ==
    UNION {[sizes : {z \in [1..n -> 0..2] : Sum(z) > 0}, order : Orders(n), trail : 0..2, cert : 0..2] : n \in 1..3}

HashOfImage == Use("peimage", ImageInputs, LAMBDA i : S!ParseAndHashImage(Image(i)))

(* The hash an image is measured and verified by covers every cell of the   *)
(* file once and in order, in whatever order its sections are listed, but   *)
(* the checksum, the entry of the security directory and the certificates.  *)
HashCovers ==
    Did("peimage") =>
        LET past == Image(input).size - input.cert
        IN answer = SelectSeq([k \in 1..past |-> k - 1], LAMBDA a : a \notin {S!CheckSumAt, S!SecDirAt})

(* A signed image, one cell of which may have changed since.                *)
Plain == Image([sizes |-> <<2, 1>>, order |-> <<2, 1>>, trail |-> 1, cert |-> 1])
Untouched == 99
Signed(in) ==
    [Plain EXCEPT !.bytes = [a \in DOMAIN @ |-> IF a = in.tamper THEN 50 ELSE @[a]],
                  !.signature = [type |-> 2, wrapped |-> in.wrapped, spc |-> TRUE, expired |-> in.expired,
                                 signer |-> "signer", issuer |-> "issuer", hash |-> S!ParseAndHashImage(Plain)]]
Sig(owner, data) == [owner |-> owner, data |-> data]
List(type, headerSize, sigs) == [type |-> type, headerSize |-> headerSize, sigs |-> sigs]
DbLists == {List("x509", 0, s) : s \in UpTo(2, {Sig("o", c) : c \in S!Certificates})}
           \cup {List("sha256", 0, <<Sig("o", "h1")>>)}

ParseDb ==
    Use("parsedb", [lists : UpTo(2, DbLists), tamper : {0, S!CheckSumAt, 5, 7, Plain.size - 1, Untouched},
                    expired : BOOLEAN, wrapped : BOOLEAN],
        LAMBDA i : S!CheckImageDB(S!Database(FALSE, i.lists), Signed(i)))

(* An image verifies against the first certificate of db that signed it or  *)
(* issued the signer's, expired or not, and against no other certificate;   *)
(* a change to any cell that is hashed makes it verify against none.  A     *)
(* list without a signature ends the search with an error.                  *)
ImageVerified ==
    Did("parsedb") =>
        LET intact == input.wrapped /\ input.tamper \notin {0, 5, 7}
            all    == FlattenSeq([k \in 1..Len(input.lists) |->
                          IF input.lists[k].sigs = <<>> THEN <<Sig("o", "empty")>> ELSE input.lists[k].sigs])
            hits   == SelectSeq(all, LAMBDA s : s.data = "empty" \/ (intact /\ s.data \in {"signer", "issuer"}))
        IN CASE hits = <<>> -> answer = <<"none">>
             [] hits # <<>> /\ hits[1].data = "empty" -> answer = <<"error">>
             [] OTHER -> answer[1] = "found" /\ answer[2].data = hits[1].data

------------------------------------------------------------------------------
(* The loader: a code section and one or two relocation sections.           *)

TextAt == 8
RelocAt == 11
ImageSize == 12
Entry(tag, addr) == [tag |-> tag, addr |-> addr]
Loadable(in) ==
    LET n       == IF in.two THEN 3 ELSE 2
        headers == S!RoundUp(S!FirstSectionAt + n, S!FileAlignment)
        reloc   == [name |-> ".reloc", PointerToRawData |-> headers + in.raw, SizeOfRawData |-> 1,
                    VirtualAddress |-> RelocAt, VirtualSize |-> 1, discardable |-> in.discardable]
        text    == [name |-> ".text", PointerToRawData |-> headers, SizeOfRawData |-> in.raw,
                    VirtualAddress |-> TextAt, VirtualSize |-> in.vsize, discardable |-> FALSE]
    IN [e_magic |-> TRUE, relocsStripped |-> FALSE, size |-> ImageSize + 3, SizeOfImage |-> ImageSize,
        SizeOfHeaders |-> headers, sections |-> SubSeq(<<text, reloc, reloc>>, 1, n),
        relocDir |-> [VirtualAddress |-> RelocAt, Size |-> in.dir], NumberOfRvaAndSizes |-> in.rva,
        relocs |-> <<[VirtualAddress |-> TextAt, SizeOfBlock |-> in.block, entries |-> in.entries]>>, entry |-> TextAt,
        bytes |-> [a \in 0..(ImageSize + 2) |-> 50 + a]]
RelocEntries == UpTo(2, {Entry("DIR64", 0), Entry("HIGHLOW", 2), Entry("DIR64", 4), Entry("ABSOLUTE", 0), Entry("HIGHADJ", 0)})

LoadShim ==
    Use("image", [raw : 0..2, vsize : 1..3, discardable : BOOLEAN, two : BOOLEAN, dir : 0..1, rva : {5, 6},
                  entries : RelocEntries, block : 0..2, reserve : BOOLEAN],
        LAMBDA i : S!_FixupImage(Loadable(i), i.reserve))

(* A loaded image holds its headers, then each section at its address: what *)
(* the file has of it, zeroes up to its size, and every site of the         *)
(* relocation list moved as often as it is listed, when the relocation      *)
(* directory is as large as its section.  A sound image is loaded, and one  *)
(* with a site outside the image, a relocation of an unknown kind or a      *)
(* block that is not inside the directory is not.                           *)
LoadedAsLaidOut ==
    Did("image") =>
        LET file     == Loadable(input)
            sites(a) == Cardinality({k \in 1..Len(input.entries) :
                                        input.entries[k].tag # "ABSOLUTE" /\ input.entries[k].addr = a - TextAt})
            sound    == /\ input.block = 1 /\ sites(ImageSize) = 0
                        /\ \A k \in 1..Len(input.entries) : input.entries[k].tag # "HIGHADJ"
            content(a) ==
                CASE a < file.SizeOfHeaders -> 50 + a
                  [] a - TextAt \in 0..(S!Copied(file.sections[1]) - 1) -> 50 + file.SizeOfHeaders + a - TextAt
                  [] a = RelocAt /\ ~input.discardable -> 50 + file.SizeOfHeaders + input.raw
                  [] OTHER -> 0
        IN /\ answer.end = "loaded" =>
                  answer.mem = [a \in 0..(ImageSize - 1) |->
                                   [cell |-> content(a), moved |-> IF input.dir = 1 THEN sites(a) ELSE 0]]
           /\ input.reserve /\ input.rva = 6 /\ ~input.two /\ sound => answer.end = "loaded"
           /\ input.dir = 1 /\ ~sound => answer.end # "loaded"

------------------------------------------------------------------------------
(* dbx, as the variable holds it and as a signed update brings it.          *)

DbxLists == {List("sha256", h, s) : h \in {0, 4}, s \in UpTo(2, {Sig("microsoft", "h1"), Sig("microsoft", "h2"), Sig("other", "h1")})}
            \cup {List("x509", 0, s) : s \in UpTo(1, {Sig("microsoft", "h1")})}
Dbx(in) == LET db == S!Database(in.auth, in.lists) IN [db EXCEPT !.size = @ - in.cut]

DumpDbx ==
    Use("dumpdbx", [lists : UpTo(2, DbxLists) \ {<<>>}, auth : BOOLEAN, cut : 0..1],
        LAMBDA i : [load |-> S!LoadDBXHashes(Dbx(i)),
                    strip |-> S!LoadDBXHashes(S!_stripdbx_command(Dbx(i))),
                    revoked |-> [h \in {"h1", "h2"} |-> S!_revoked_command(h, Dbx(i))]])

(* The hashes of dbx are those of its owner in the hash lists, in order,    *)
(* certificate lists and list headers passed over; removing the header of   *)
(* an update changes none of them; a hash counts as revoked exactly when it *)
(* is one of them; and a database that lost its end is refused by all.      *)
DbxHashesExact ==
    Did("dumpdbx") =>
        LET sigs == FlattenSeq([k \in 1..Len(input.lists) |->
                        IF input.lists[k].type = "sha256" THEN input.lists[k].sigs ELSE <<>>])
            ours == SelectSeq(sigs, LAMBDA s : s.owner = "microsoft")
            hashes == [k \in 1..Len(ours) |-> ours[k].data]
        IN IF input.cut = 0
           THEN /\ answer.load = [ok |-> TRUE, hashes |-> hashes]
                /\ answer.strip = answer.load
                /\ \A h \in {"h1", "h2"} : answer.revoked[h] = IF h \in ToSet(hashes) THEN "yes" ELSE "no"
           ELSE /\ ~answer.load.ok
                /\ \A h \in {"h1", "h2"} : answer.revoked[h] = "failed"

------------------------------------------------------------------------------
(* TPM commands, with a session or without as their callers give one.       *)

Value(type, sym, scheme, kdf, n, k) ==
    [type |-> type, sym |-> sym, scheme |-> scheme, kdf |-> kdf, hash |-> IF n = 2 THEN "SHA1" ELSE "SHA256",
     n |-> n, k |-> k]
Syms == {"AES", "XOR", "NULL"}
Publics == {Value("KEYEDHASH", "NULL", s, "NULL", n, k) : s \in {"HMAC", "XOR", "NULL"}, n \in {0, 2}, k \in 0..2}
           \cup {Value(t, s, "NULL", d, n, k) : t \in {"SYMCIPHER", "RSA", "ECC"}, s \in Syms,
                                               d \in {"MGF1", "NULL"}, n \in {0, 2}, k \in 0..2}
Simples == {Value("RSA", s, "NULL", "NULL", n, k) : s \in Syms, n \in 0..2, k \in 0..2}
InSession == {"DictionaryAttackLockReset", "DictionaryAttackParameters", "Unseal", "PCR_Extend"}
Alone == {"GetCapability", "PCR_Read", "Hash", "StartAuthSession", "PolicyPassword", "PolicyPCR",
          "PolicyGetDigest", "FlushContext"}
Requests(cs, vs, s) == [c : cs, v : vs, s : {s}, cap : {24, 64, 4096}]
TpmInputs == Requests(InSession, Simples, TRUE) \cup Requests(Alone, Simples, FALSE)
             \cup Requests({"CreatePrimary", "Create", "Load"}, Publics, TRUE)
             \cup Requests({"ReadPublic"}, Publics, FALSE)

Told(x) ==
    [sent |-> ~x.in.error /\ ~x.sent.error, read |-> ~x.read.error, answered |-> ~x.out.error,
     size |-> Len(x.sent.data), wrong |-> x.read.wrong \cup x.out.wrong,
     left |-> Len(x.read.data) - x.read.offset, leftOut |-> Len(x.out.data) - x.out.offset,
     commandSize |-> IF x.sent.error THEN 0 ELSE x.sent.data[3].val]
TpmCommand ==
    Use("tpm", TpmInputs, LAMBDA i : Told(W!Exchange(i.c, i.v, i.s, i.cap)))

(* The TPM reads every field of a command from where tpm2.c packed it, with *)
(* the sizes that were patched in afterwards, to the last byte, and tpm2.c  *)
(* reads every field of the answer from where the TPM put it; a command or  *)
(* an answer that does not fit in its buffer is reported, never cut.        *)
FieldsArrive ==
    Did("tpm") =>
        /\ input.cap = 4096 => answer.sent /\ answer.answered
        /\ answer.sent => /\ answer.read /\ answer.left = 0 /\ answer.wrong = {}
                          /\ answer.commandSize = answer.size /\ answer.size <= input.cap
        /\ answer.sent /\ answer.answered => answer.leftOut = 0

------------------------------------------------------------------------------
(* The specialization payload: serialized, encrypted, and unpacked by       *)
(* lsvmload.  A file that was not copied to its end has lost cut bytes.     *)

SpecNames == {P!SPEC_UNATTEND_FILENAME, P!SPEC_SPECIALIZE_FILENAME, <<97>>}
Dirents == [name : SpecNames, mode : {"reg", "dir"}, payload : {<<>>, <<1>>, <<120, 121>>}]
Directories == {d \in UpTo(3, Dirents) : \A i, j \in DOMAIN d : d[i].name = d[j].name => i = j}
CutOff(data, n) == SubSeq(data, 1, Len(data) - n)

SpecFile ==
    Use("specfile", [files : Directories, cut : 0..12], LAMBDA i :
        LET data == P!_serialize_specfile_command(i.files)
        IN P!_deserialize_specfile_command(CutOff(data, IF i.cut > Len(data) THEN Len(data) ELSE i.cut)))

(* Where a regular file of the directory goes, and the ones that go there.  *)
Target(name) == IF name = P!SPEC_UNATTEND_FILENAME THEN P!SPEC_SPECIALIZE_FILENAME ELSE name
Regular(files) == SelectSeq(files, LAMBDA f : f.mode = "reg")
Holders(files, name) == SelectSeq(Regular(files), LAMBDA f : Target(f.name) = name)
Targets(files) == {Target(Regular(files)[i].name) : i \in DOMAIN Regular(files)}

(* What serialize-specfile packs, deserialize-specfile unpacks: every       *)
(* regular file with its bytes, unattend.xml under its new name, the last   *)
(* one where two go to the same name; a file that lost its end is refused   *)
(* and nothing of it is unpacked.                                           *)
SpecFilesKept ==
    Did("specfile") =>
        IF input.cut = 0
        THEN /\ answer.ok
             /\ DOMAIN answer.dir = Targets(input.files)
             /\ \A n \in Targets(input.files) : answer.dir[n] = Last(Holders(input.files, n)).payload
        ELSE ~answer.ok /\ answer.dir = <<>>

Vector == <<201, 202>>
Crypt ==
    Use("crypt", [data : UpTo(5, {1, 2, 120}), keyBytes : {16, 32}, cut : 0..6], LAMBDA i :
        LET e == P!_encrypt_command("k", i.keyBytes, Vector, i.data)
        IN [encrypted |-> e.ok, fits |-> e.fits,
            decrypted |-> P!_decrypt_command("k", i.keyBytes,
                              CutOff(e.data, IF i.cut > Len(e.data) THEN Len(e.data) ELSE i.cut))])

(* lsvmtool encrypt stays in the buffer it allocates whatever the padding,  *)
(* and decrypt gives the bytes back.  A file that lost its end is refused   *)
(* where it ends within a block, and everywhere if no byte of the data can  *)
(* be taken for padding; where one can, decrypt may succeed, and then with  *)
(* a beginning of the data that is cut short and never with other bytes.    *)
CryptKept ==
    Did("crypt") =>
        /\ answer.encrypted <=> input.keyBytes = 32 /\ input.data # <<>>
        /\ answer.fits
        /\ input.cut = 0 => answer.decrypted = [ok |-> answer.encrypted, data |-> IF answer.encrypted THEN input.data ELSE <<>>]
        /\ input.cut > 0 /\ answer.decrypted.ok =>
              /\ input.cut % P!AES_BLOCK_SIZE = 0
              /\ \E k \in DOMAIN input.data : input.data[k] \in 1..P!AES_BLOCK_SIZE
              /\ IsStrictPrefix(answer.decrypted.data, input.data)

(* The file of the provisioning service, its areas in one of two orders.    *)
SpecializeFile(in) ==
    LET cipher == P!EVP_Encrypt("mk", Vector, P!CombineSpecFiles(in.files))
        hmac == IF in.mode = 2 THEN <<203, 204>> ELSE <<>>
        at == P!SECURE_SPECIALIZATION_SIZE
        data == IF in.cipherFirst
                THEN P!Words(<<0, 1, in.mode, 2, at + Len(cipher), Len(hmac), at + Len(cipher) + 2, Len(cipher), at>>)
                     \o cipher \o Vector \o hmac
                ELSE P!Words(<<0, 1, in.mode, 2, at, Len(hmac), at + 2, Len(cipher), at + 2 + Len(hmac)>>)
                     \o Vector \o hmac \o cipher
    IN CutOff(data, in.cut)

Specialize ==
    Use("specialize",
        [files : {d \in Directories : Regular(d) = d /\ Len(d) <= 2}, mode : 0..3, bits : {128, 256, 512},
         cipherFirst : BOOLEAN, cut : 0..3],
        LAMBDA i : P!LoadDecryptCopySpecializeFile(SpecializeFile(i), "mk", i.bits))

(* lsvmload gets the files out of a payload sealed under the boot           *)
(* partition's master key, each with its bytes, if the mode is known and    *)
(* the key has a size the cipher knows; otherwise, or when the file lost    *)
(* its end, none of them.  Where two go to one name it is left open which   *)
(* of them stays (Ext2, ExistingReplaced).                                  *)
SpecializeDelivered ==
    Did("specialize") =>
        IF input.cut = 0 /\ input.mode \in {1, 2} /\ input.bits # 512
        THEN /\ answer.ok
             /\ DOMAIN answer.dir = Targets(input.files)
             /\ \A n \in Targets(input.files) :
                   \E k \in DOMAIN Holders(input.files, n) : answer.dir[n] = Holders(input.files, n)[k].payload
        ELSE ~answer.ok /\ answer.dir = <<>>

------------------------------------------------------------------------------
Next ==
    \/ GrubcfgInitrd
    \/ GrubcfgWords
    \/ PatchGrubCfg
    \/ ReadConf
    \/ PolicyFile
    \/ DeserializeKeys
    \/ OpenVolume
    \/ FindBootDevice
    \/ HashOfImage
    \/ ParseDb
    \/ LoadShim
    \/ DumpDbx
    \/ TpmCommand
    \/ SpecFile
    \/ Crypt
    \/ Specialize

Spec == Init /\ [][Next]_vars

------------------------------------------------------------------------------
(* The properties by who relies on them.                                    *)

\* What lsvmload and lsvmtool take from text files is what the files say: the
\* initrd to patch, the words of grub.cfg and its patched commands, lsvmload.conf
\* and policies (grubcfg.c, conf.c, policy.c).
TextFilesRead ==
    DefaultInitrdFound /\ WordsKept /\ OnlyCryptoPatched /\ ConfAsWritten /\ PolicyAsWritten

\* Keys come back as they were stored and open the volume, and the partition, that
\* they are for (keys.c, luks.c, luksblkdev.c, gpt.c).
KeysOpenVolumes == KeysKept /\ VolumeOpens /\ BootPartitionFound

\* An image is hashed, verified and loaded as its headers lay it out, and revoked
\* by exactly the hashes of dbx (peimage.c, uefidb.c, image.c, uefidbx.c).
ImagesChecked == HashCovers /\ ImageVerified /\ LoadedAsLaidOut /\ DbxHashesExact

==============================================================================
