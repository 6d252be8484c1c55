-------------------------------- MODULE Initrd --------------------------------
(***************************************************************************)
(* Keys in the initial ram disk: lsvmutils/initrd.c, lsvmload/initrd.c and *)
(* the commands of lsvmtool that make and change CPIO archives in files    *)
(* (cpiomain.c, cpio.c, inject, keyscpio).                                 *)
(*                                                                         *)
(* disk maps a path to the image in that file.  Every command loads its    *)
(* input whole, works in memory and writes its output with PutFile, which  *)
(* truncates the file first and may then fail.                             *)
(***************************************************************************)
EXTENDS Cpio

CONSTANTS
    Paths,            \* files the commands are used on
    MaxCommands,      \* bound on commands
    MaxFaults         \* bound on failing writes

VARIABLES
    disk,             \* path -> image in that file, or NoFile
    broken,           \* paths a failed write left truncated
    last,             \* the last command that wrote: its name and arguments
    commands,         \* commands so far
    faults            \* failing writes so far

vars == <<disk, broken, last, commands, faults>>

NoFile == [size |-> 0, at |-> NoChunks, absent |-> TRUE]
Empty == [size |-> 0, at |-> NoChunks]
NoCommand == [cmd |-> "none", name |-> ""]
bootkey == <<"b", "k", "1">>
rootkey == <<"r", "k">>

-----------------------------------------------------------------------------
(* lsvmutils/initrd.c                                                      *)

_DeleteKeyboardDriver(img) ==
    LET delete(found) ==
            IF ~found.ok THEN Failed
            ELSE FoldLeft(LAMBDA r, name : IF r.ok THEN CPIORemoveFile(r.img, name) ELSE r,
                          Done(img), found.img)
    IN  delete(CPIOFindFilesByBaseName(img, "hyperv-keyboard.ko"))

\* One step of _InjectFiles on the result of the one before.
MakeDir(r, name) ==
    IF ~r.ok \/ CPIOIsDir(r.img, name) THEN r ELSE CPIOAddFile(r.img, name, <<>>, "dir")
RemoveIfFile(r, name) ==
    IF ~r.ok \/ ~CPIOIsFile(r.img, name) THEN r ELSE CPIORemoveFile(r.img, name)
\* A bug to catch: the old file stays.
ReplaceFileAdds(r, name, data) == IF ~r.ok THEN r ELSE CPIOAddFile(r.img, name, data, "reg")
ReplaceFile(r, name, data) ==
    LET add(s) == IF ~s.ok THEN s ELSE CPIOAddFile(s.img, name, data, "reg")
    IN  add(RemoveIfFile(r, name))

_InjectFiles(img) ==
    LET dirs == MakeDir(MakeDir(Done(img), "etc"), "etc/lsvmload")
        keys(r) == ReplaceFile(ReplaceFile(r, "etc/lsvmload/bootkey", bootkey), "etc/lsvmload/rootkey", rootkey)
        delete(r) == IF ~r.ok THEN r ELSE _DeleteKeyboardDriver(r.img)
    IN  delete(RemoveIfFile(keys(dirs), "etc/lsvmload/specialize"))

InitrdMakeArchive == _InjectFiles(CPIONew)

IsCompressed(img) == img.size > 0 /\ 0 \in DOMAIN img.at /\ img.at[0].t = "compressed"

\* One subfile: a compressed one is unpacked and gets the keys, a plain
\* archive stays as it is, anything else is refused.
InjectSubfile(img) ==
    IF IsCompressed(img) THEN _InjectFiles(img.at[0].image)
    ELSE IF CPIOTest(img) THEN Done(img) ELSE Failed

InitrdInjectFiles(img) ==
    LET join(acc, part) == IF acc.ok /\ part.ok THEN Done(Concat(acc.img, part.img)) ELSE Failed
        all(subfiles) ==
            LET done[i \in 0 .. Len(subfiles)] ==
                    IF i = 0 THEN Done(Empty) ELSE join(done[i - 1], InjectSubfile(subfiles[i]))
            IN  done[Len(subfiles)]
        inject(split) == IF split.st # "more" \/ split.subfiles = <<>> THEN Failed ELSE all(split.subfiles)
    IN  inject(CPIOSplitFile(img))

-----------------------------------------------------------------------------
(* Commands.                                                               *)

Exists(p) == disk[p] # NoFile

\* PutFile: the file holds the new bytes, or a write failed after fopen
\* truncated it.
PutFile(cmd, from, to, name, img) ==
    /\ commands < MaxCommands
    /\ commands' = commands + 1
    /\ last' = [cmd |-> cmd, from |-> from, to |-> to, name |-> name]
    /\ \/ /\ disk' = [disk EXCEPT ![to] = img]
          /\ broken' = broken \ {to}
          /\ UNCHANGED faults
       \/ /\ faults < MaxFaults
          /\ faults' = faults + 1
          /\ disk' = [disk EXCEPT ![to] = Empty]
          /\ broken' = broken \cup {to}

\* A command that is refused before PutFile changes nothing.
PutResult(cmd, from, to, name, r) == Exists(from) /\ r.ok /\ PutFile(cmd, from, to, name, r.img)

_new(p) == PutFile("new", p, p, "", CPIONew)

_add(p, name, data) == PutResult("add", p, p, name, CPIOAddFile(disk[p], name, data, "reg"))

\* A bug to catch: the mode of a regular file.
_mkdirRegular(p, name) == PutResult("mkdir", p, p, name, CPIOAddFile(disk[p], name, <<>>, "reg"))
_mkdir(p, name) == PutResult("mkdir", p, p, name, CPIOAddFile(disk[p], name, <<>>, "dir"))

_remove(p, name) == PutResult("remove", p, p, name, CPIORemoveFile(disk[p], name))

\* AppendFile for one input file, which cannot truncate.
_merge(p, to) ==
    /\ Exists(p) /\ p # to
    /\ commands < MaxCommands
    /\ commands' = commands + 1
    /\ last' = [cmd |-> "merge", from |-> p, to |-> to, name |-> ""]
    /\ disk' = [disk EXCEPT ![to] = IF Exists(to) THEN Concat(@, disk[p]) ELSE disk[p]]
    /\ UNCHANGED <<broken, faults>>

\* The i-th subfile, for each i a file of its own.
_split(p, i, to) ==
    LET put(split) == /\ split.st = "more" /\ i \in DOMAIN split.subfiles
                      /\ PutFile("split", p, to, "", split.subfiles[i])
    IN  Exists(p) /\ put(CPIOSplitFile(disk[p]))

_inject_command(p, to) == PutResult("inject", p, to, "", InitrdInjectFiles(disk[p]))

_keyscpio_command(to) == InitrdMakeArchive.ok /\ PutFile("keyscpio", to, to, "", InitrdMakeArchive.img)

\* gzip or xz on a file.  (External)
Packed(img) == [size |-> 300, at |-> Put(NoChunks, 0, Compressed(img))]
Compress(p) ==
    /\ CPIOTest(disk[p])
    /\ PutFile("compress", p, p, "", Packed(disk[p]))

Payload == <<"x", "y", "z", "z", "y">>
Names == {"init", "lib/hyperv-keyboard.ko", "etc/lsvmload/specialize"}

\* Initrds as distributions ship them: the kernel's files packed, with or
\* without the processor's microcode in a plain archive before them.
Plain(names) ==
    FoldLeft(LAMBDA img, name : CPIOAddFile(img, name, Payload, "reg").img, CPIONew, names)
Distribution ==
    {Packed(Plain(<<"init", "lib/hyperv-keyboard.ko", "etc/lsvmload/specialize">>)),
     Concat(Plain(<<"init">>), Packed(Plain(<<"lib/hyperv-keyboard.ko", "init">>)))}

Init ==
    /\ disk \in {[p \in Paths |-> IF p = q THEN d ELSE NoFile] : q \in Paths, d \in Distribution \cup {NoFile}}
    /\ broken = {}
    /\ last = NoCommand
    /\ commands = 0
    /\ faults = 0

Next ==
    \/ \E p \in Paths : \/ _new(p) \/ _keyscpio_command(p) \/ Compress(p)
                        \/ _mkdir(p, "etc")
    \/ \E p \in Paths, name \in Names : _add(p, name, Payload) \/ _remove(p, name)
    \/ \E p \in Paths, to \in Paths : _merge(p, to) \/ _inject_command(p, to)
    \/ \E p \in Paths, to \in Paths, i \in 1 .. 2 : _split(p, i, to)

Spec == Init /\ [][Next]_vars

-----------------------------------------------------------------------------
(* Properties.                                                             *)

\* What an archive holds, in order; and what all archives of an image hold.
Listing(img) ==
    LET hs == SelectSeq(Walk(img).headers, LAMBDA o : _GetName(img, o) # Trailer)
        entry(o) == [name |-> _GetName(img, o), mode |-> _GetFileMode(img, o), data |-> FileData(img, o)]
    IN  <<>> \o [i \in DOMAIN hs |-> entry(hs[i])]
Subfiles(img) == CPIOSplitFile(img).subfiles
Sound(p) == Exists(p) /\ p \notin broken
Entry(name, mode, data) == [name |-> name, mode |-> mode, data |-> data]
Without(list, names) == SelectSeq(list, LAMBDA e : e.name \notin names)

\* The variables hold what their comments say.
TypeOK ==
    /\ \A p \in Paths : disk[p].size \in Nat /\ \A o \in DOMAIN disk[p].at : o < disk[p].size
    /\ broken \subseteq Paths
    /\ commands \in 0 .. MaxCommands
    /\ faults \in 0 .. MaxFaults

\* Whatever commands made it, a file no write failed on splits into archives
\* that run from header to header to their trailer, padded to whole blocks,
\* and the search for the next one never leaves the file (CPIOSplitFile).
ImagesSplit ==
    \A p \in Paths : Sound(p) =>
        LET split == CPIOSplitFile(disk[p])
            ok(f) == \/ IsCompressed(f)
                     \/ /\ Walk(f).ok /\ f.size % BlockSize = 0
                        /\ \A e \in Range(Listing(f)) : e.data # <<"?">>
        IN  /\ split.st # "wild"
            /\ split.st = "more" \/ Len(split.subfiles) >= CPIO_MAX_SUBFILES
            /\ \A f \in Range(split.subfiles) : ok(f)

\* On a single archive add and mkdir append one entry and remove drops those
\* of one name; all other entries stay, in order and with their data
\* (CPIOAddFile, CPIORemoveFile).
UpdatesExact ==
    [][commands' > commands /\ last'.cmd \in {"add", "mkdir", "remove"} =>
         LET p == last'.to
             list == Listing(disk[p])
         IN  Sound(p) /\ p \notin broken' /\ Len(Subfiles(disk[p])) = 1 =>
               Listing(disk'[p]) =
                   CASE last'.cmd = "add" -> Append(list, Entry(last'.name, "reg", Payload))
                     [] last'.cmd = "mkdir" -> Append(list, Entry(last'.name, "dir", <<>>))
                     [] last'.cmd = "remove" -> Without(list, {last'.name})]_vars

\* After inject every part that was compressed is an archive with the two
\* keys, once each and under a directory that is there, without the marker
\* and the keyboard driver, and otherwise as it was; every other part is as
\* it was (InitrdInjectFiles).
Injected(old, new) ==
    LET touched == {"etc", "etc/lsvmload", "etc/lsvmload/bootkey", "etc/lsvmload/rootkey",
                    "etc/lsvmload/specialize", "lib/hyperv-keyboard.ko"}
        list == Listing(new)
        named(name) == SelectSeq(list, LAMBDA e : e.name = name)
    IN  /\ named("etc/lsvmload/bootkey") = <<Entry("etc/lsvmload/bootkey", "reg", bootkey)>>
        /\ named("etc/lsvmload/rootkey") = <<Entry("etc/lsvmload/rootkey", "reg", rootkey)>>
        /\ CPIOIsDir(new, "etc") /\ CPIOIsDir(new, "etc/lsvmload")
        /\ named("etc/lsvmload/specialize") = <<>> /\ named("lib/hyperv-keyboard.ko") = <<>>
        /\ Without(list, touched) = Without(Listing(old), touched)
InjectExact ==
    [][commands' > commands /\ last'.cmd = "inject" /\ Sound(last'.from) /\ last'.to \notin broken' =>
         LET old == Subfiles(disk[last'.from])
             new == Subfiles(disk'[last'.to])
         IN  /\ Len(new) = Len(old)
             /\ \A i \in DOMAIN old :
                   IF IsCompressed(old[i]) THEN Injected(old[i].at[0].image, new[i]) ELSE new[i] = old[i]]_vars

\* Merged archives come apart again where they were joined, unless a
\* compressed part, which runs to the end of the file, comes before another.
MergeSplits ==
    [][commands' > commands /\ last'.cmd = "merge" /\ Sound(last'.from) /\ Sound(last'.to) =>
         LET old == Subfiles(disk[last'.to])
         IN  (\E i \in DOMAIN old : IsCompressed(old[i]))
             \/ Subfiles(disk'[last'.to]) = old \o Subfiles(disk[last'.from])]_vars

\* The images that any sequence of commands leaves in the files.
ImagesInv == TypeOK /\ ImagesSplit

\* The commands of cpiomain.c change what they were asked to change and nothing
\* else: add, mkdir and remove one entry, merge the end of the file.
CommandsExact == UpdatesExact /\ MergeSplits
================================================================================
