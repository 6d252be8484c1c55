------------------------------ MODULE ConfFiles ------------------------------
(***************************************************************************)
(* The text files lsvmload and lsvmtool read: lsvmload.conf               *)
(* (lsvmutils/conf.c, lsvmload/loadconf.c) and the GRUB configuration      *)
(* (lsvmutils/grubcfg.c).  A text is a sequence of lexemes: the characters *)
(* the scanners tell apart are lexemes of their own (space, newline, quote,*)
(* semicolon, ...), a run of other characters that is only ever compared   *)
(* is one lexeme ("insmod", "default=").  A word is the sequence of its    *)
(* lexemes, a command the sequence of its words.                           *)
(***************************************************************************)
EXTENDS Naturals, Sequences, SequencesExt, FiniteSets

Isspace(c) == c \in {" ", "\n"}
Isalpha(c) == c \notin {" ", "\n", "=", "#", ";", "\"", "'", "\\", "1"}

(* The lines of a text, each with the newline that ends it (_GetLine).     *)
_GetLine(text) ==
    LET at == SelectSeq([i \in 1..Len(text) |-> i], LAMBDA i : text[i] = "\n" \/ i = Len(text))
    IN [k \in 1..Len(at) |-> SubSeq(text, IF k = 1 THEN 1 ELSE at[k - 1] + 1, at[k])]

(* The first position from p on, up to Len(s) + 1, whose lexeme fails P.   *)
SkipWhile(s, p, P(_)) ==
    CHOOSE q \in p..(Len(s) + 1) :
        /\ \A i \in p..(q - 1) : P(s[i])
        /\ q <= Len(s) => ~P(s[q])

_SkipWhitespace(s, p) == SkipWhile(s, p, Isspace)

_SkipIdentifier(s, p) ==
    IF p > Len(s) \/ ~Isalpha(s[p]) THEN p
    ELSE SkipWhile(s, p, LAMBDA c : Isalpha(c) \/ c = "1")

(* A line without the white space before and after its text.               *)
Trim(line) ==
    LET first == _SkipWhitespace(line, 1)
        past  == CHOOSE e \in (first - 1)..Len(line) :
                     /\ \A i \in (e + 1)..Len(line) : Isspace(line[i])
                     /\ e >= first => ~Isspace(line[e])
    IN SubSeq(line, first, past)

------------------------------------------------------------------------------
(* lsvmload.conf *)

ParseTrimmed(s) ==
    LET name  == _SkipIdentifier(s, 1)
        eq    == _SkipWhitespace(s, name)
        value == _SkipWhitespace(s, eq + 1)
    IN CASE s = <<>> \/ s[1] = "#"           -> [kind |-> "skip"]
         [] s # <<>> /\ s[1] # "#" /\ name = 1 -> [kind |-> "error"]
         [] OTHER ->
              IF eq > Len(s) \/ s[eq] # "=" THEN [kind |-> "error"]
              ELSE [kind |-> "option", name |-> SubSeq(s, 1, name - 1),
                    value |-> SubSeq(s, value, Len(s))]
ParseLine(line) == ParseTrimmed(Trim(line))

(* What the options set: the globals of lsvmload.                          *)
NoGlobals == [logLevel |-> <<>>, efiVendorDir |-> <<>>, bootDevice |-> <<>>, rootDevice |-> <<>>]

LogLevels == {<<"DEBUG">>, <<"ERROR">>}       \* StrToLogLevel
ValidGUIDStr(v) == v \in {<<"guid", "1">>, <<"guid">>}

_confCallback(g, name, value) ==
    LET ok(h) == [ok |-> TRUE, g |-> h]
        error == [ok |-> FALSE, g |-> g]
    IN CASE name = <<"LogLevel">> ->
              IF value \in LogLevels THEN ok([g EXCEPT !.logLevel = value]) ELSE error
         [] name = <<"EFIVendorDir">> -> ok([g EXCEPT !.efiVendorDir = value])
         [] name = <<"BootDeviceLUKS">> ->
              IF ValidGUIDStr(value) THEN ok([g EXCEPT !.bootDevice = value]) ELSE error
         [] name = <<"RootDeviceLUKS">> ->
              IF ValidGUIDStr(value) THEN ok([g EXCEPT !.rootDevice = value]) ELSE error
         [] OTHER -> IF name \in {<<"BootDevice">>, <<"RootDevice">>} THEN ok(g) ELSE error

(* The first bad line stops the parse; what earlier lines set stays set.   *)
ParseConf(lines) ==
    LET set(a, r) == [a EXCEPT !.lineNum = @ + 1, !.ok = r.ok, !.g = r.g]
        read(a, l) ==
            CASE l.kind = "skip"  -> [a EXCEPT !.lineNum = @ + 1]
              [] l.kind = "error" -> [a EXCEPT !.lineNum = @ + 1, !.ok = FALSE]
              [] OTHER            -> set(a, _confCallback(a.g, l.name, l.value))
        step(a, line) == IF ~a.ok THEN a ELSE read(a, ParseLine(line))
    IN FoldLeft(step, [ok |-> lines # <<>>, lineNum |-> 0, g |-> NoGlobals], lines)

(* An empty vendor directory is an allocated, empty string: not missing.   *)
IsVendorDir(l) == l.kind = "option" /\ l.name = <<"EFIVendorDir">>
LoadLines(lines) ==
    LET dirs == \E k \in DOMAIN lines : IsVendorDir(ParseLine(lines[k]))
        loaded(r) ==
            [ok        |-> r.ok /\ dirs /\ r.g.bootDevice # <<>> /\ r.g.rootDevice # <<>>,
             g         |-> r.g,
             errorLine |-> IF r.ok THEN 0 ELSE r.lineNum]
    IN loaded(ParseConf(lines))
LoadConf(text) == LoadLines(_GetLine(text))

------------------------------------------------------------------------------
(* The GRUB configuration *)

Patched == {<<"insmod", " ", "cryptodisk">>, <<"insmod", " ", "luks">>,
            <<"insmod", " ", "gcry_rijndael">>, <<"insmod", " ", "gcry_sha1">>}

(* The commands are overwritten with '#' in place, so no length changes.   *)
(* They are compared as a prefix: "luks" and "2" side by side are the text *)
(* "luks2", which is overwritten up to the "2".                            *)
PatchLine(line) ==
    LET p == _SkipWhitespace(line, 1)
    IN IF p > Len(line) \/ line[p] = "#" THEN line
       ELSE IF \E c \in Patched : IsPrefix(c, Trim(line))
       THEN [i \in 1..Len(line) |-> IF i \in p..(p + 2) THEN "#" ELSE line[i]]
       ELSE line

GrubcfgPatch(text) == FlattenSeq([k \in 1..Len(_GetLine(text)) |-> PatchLine(_GetLine(text)[k])])

(* One lexeme of the scan of _GetToken: m says where the scan stands.      *)
Between(a, c) ==
    CASE c \in {"\n", ";"} -> [a EXCEPT !.m = "between", !.line = <<>>,
                                  !.commands = IF a.line = <<>> THEN @ ELSE Append(@, a.line)]
      [] c = " "  -> [a EXCEPT !.m = "between"]
      [] c = "#"  -> [a EXCEPT !.m = "comment"]
      [] c \in {"\"", "'"} -> [a EXCEPT !.m = c, !.tok = <<>>]
      [] OTHER    -> [a EXCEPT !.m = "word", !.tok = <<c>>]

EndWord(a) == [a EXCEPT !.line = Append(@, a.tok), !.tok = <<>>]

Quoted(a, c) ==
    CASE c = a.m  -> [a EXCEPT !.m = "word"]
      [] c = "\\" -> [a EXCEPT !.m = "escape", !.quote = a.m]
      [] OTHER    -> [a EXCEPT !.tok = Append(@, c)]

Scan(a, c) ==
    CASE a.m = "between" -> Between(a, c)
      [] a.m = "comment" -> IF c = "\n" THEN Between(a, c) ELSE a
      [] a.m = "word" ->
           CASE Isspace(c) \/ c = ";" -> Between(EndWord(a), c)
             [] c \in {"\"", "'"}     -> [a EXCEPT !.m = c]
             [] OTHER                 -> [a EXCEPT !.tok = Append(@, c)]
      [] a.m \in {"\"", "'"} -> Quoted(a, c)
      [] a.m = "escape" -> [a EXCEPT !.m = a.quote, !.tok = Append(@, c)]

(* A command is taken when a newline or a semicolon ends it: the words of a *)
(* last line without one are released.                                      *)
ScanLine(a, line) ==
    LET upto[k \in 0..Len(line)] == IF k = 0 THEN a ELSE Scan(upto[k - 1], line[k])
    IN IF a.m = "between" /\ line = <<"\n">> THEN a ELSE upto[Len(line)]
ScanLines(lines) ==
    LET start == [m |-> "between", quote |-> "", tok |-> <<>>, line |-> <<>>, commands |-> <<>>]
        upto[k \in 0..Len(lines)] == IF k = 0 THEN start ELSE ScanLine(upto[k - 1], lines[k])
    IN upto[Len(lines)]
_Parse(text) == ScanLines(_GetLine(text)).commands

StrSplit(word) ==
    LET cuts == {i \in 1..Len(word) : word[i] = ">"} \cup {0, Len(word) + 1}
        part(i) == SubSeq(word, i + 1, (CHOOSE j \in cuts : j > i /\ \A k \in cuts : k > i => j <= k) - 1)
        from == SelectSeq([i \in 1..(Len(word) + 1) |-> i - 1], LAMBDA i : i \in cuts /\ i <= Len(word))
    IN SelectSeq([k \in 1..Len(from) |-> part(from[k])], LAMBDA w : w # <<>>)

(* The value of the first set default= that does not begin with a variable. *)
Defaults(commands) ==
    SelectSeq(commands, LAMBDA c : /\ Len(c) >= 2 /\ c[1] = <<"set">>
                                   /\ c[2] # <<>> /\ c[2][1] = "default="
                                   /\ (Len(c[2]) > 1 => c[2][2] # "$"))

STACK_SIZE == 16
U64tostr(n) == <<<<"0", "1", "2", "3", "4">>[n + 1]>>

_Match(arr, hasDefault, stack, top) ==
    /\ Len(arr) = top
    /\ \A i \in 1..top :
          LET cmd == stack[i].command
          IN /\ Len(cmd) >= 3
             /\ \/ ~hasDefault
                \/ arr[i] \in {U64tostr(stack[i].index), cmd[2], cmd[Len(cmd) - 1]}

Element == [index |-> 0, command |-> <<>>, initrd |-> <<>>]

(* The counters that a closed level leaves for the next one at its depth.   *)
PopKeepsIndex(stack, top) ==
    [stack EXCEPT ![top].initrd = <<>>, ![top].index = @ + 1]
Pop(stack, top) ==
    LET closed == [stack EXCEPT ![top].initrd = <<>>, ![top].index = @ + 1]
    IN IF top = STACK_SIZE THEN closed ELSE [closed EXCEPT ![top + 1].index = 0]

_ResolveInitrd(commands) ==
    LET defaults   == Defaults(commands)
        hasDefault == defaults # <<>>
        arr        == IF hasDefault THEN StrSplit(Tail(defaults[1][2])) ELSE <<<<"0">>>>
        innermost(a) == a.stack[a.top].command[1] = <<"menuentry">>
        step(a, cmd) ==
            CASE cmd[1] \in {<<"menuentry">>, <<"submenu">>} ->
                   IF a.top = STACK_SIZE THEN [a EXCEPT !.done = TRUE, !.ok = FALSE]
                   ELSE [a EXCEPT !.stack[a.top + 1].command = cmd, !.top = @ + 1]
              [] cmd[1] \in {<<"initrd">>, <<"initrdefi">>} /\ Len(cmd) = 2 ->
                   IF a.top > 0 /\ innermost(a) THEN [a EXCEPT !.stack[a.top].initrd = cmd[2]] ELSE a
              [] cmd[1] = <<"}">> /\ a.top > 0 ->
                   IF innermost(a) /\ _Match(arr, hasDefault, a.stack, a.top)
                   THEN [a EXCEPT !.done = TRUE, !.path = a.stack[a.top].initrd]
                   ELSE [a EXCEPT !.stack = Pop(a.stack, a.top), !.top = @ - 1]
              [] OTHER -> a
        start == [done |-> FALSE, ok |-> TRUE, path |-> <<>>, top |-> 0,
                  stack |-> [i \in 1..STACK_SIZE |-> Element]]
        upto[k \in 0..Len(commands)] ==
            IF k = 0 THEN start
            ELSE LET a == upto[k - 1] IN IF a.done THEN a ELSE step(a, commands[k])
        result(a) == [ok |-> a.ok, path |-> a.path]
    IN IF commands = <<>> \/ arr = <<>> THEN [ok |-> FALSE, path |-> <<>>] ELSE result(upto[Len(commands)])

GRUBCfgFindInitrd(text) == _ResolveInitrd(_Parse(text))

------------------------------------------------------------------------------
(* Policy files.  A file is a sequence of lines: [k |-> "include", name],   *)
(* [k |-> "bad include"], [k |-> "comment"] or [k |-> "text", fields], the  *)
(* fields between colons.                                                   *)

Types == {"PEIMAGE", "BINARY", "BINARY32", "EFIVAR", "CAP", "PCR"}
MAX_PCRS == 16
POLICY_MAX_ENTRIES == 3         \* 16 in the code

_GetNextField(fields, i) == IF i <= Len(fields) THEN fields[i] ELSE ""

(* Every line is marked with the place it came from when the file changes.  *)
LineMark(line, path) == [k |-> "line", line |-> line, path |-> path]
AfterInclude(i, path) == <<LineMark(i + 1, path)>>

(* The lines of a file and of what it includes.  A file that cannot be      *)
(* opened has no line to report.                                            *)
RECURSIVE _ReadFile(_, _)
_ReadFile(files, path) ==
    LET one(a, i) ==
            LET l   == files[path][i]
                sub == _ReadFile(files, l.name)
            IN CASE ~a.ok -> a
                 [] a.ok /\ l.k = "bad include" -> [a EXCEPT !.ok = FALSE, !.file = path, !.line = i]
                 [] a.ok /\ l.k = "include" ->
                      IF sub.ok THEN [a EXCEPT !.lines = @ \o sub.lines \o AfterInclude(i, path)]
                      ELSE [a EXCEPT !.ok = FALSE, !.file = sub.file, !.line = sub.line]
                 [] OTHER -> [a EXCEPT !.lines = Append(@, l)]
        start == [ok |-> TRUE, file |-> path, line |-> 0, lines |-> <<LineMark(1, path)>>]
    IN IF path \notin DOMAIN files THEN [start EXCEPT !.ok = FALSE]
       ELSE FoldLeft(one, start, [i \in 1..Len(files[path]) |-> i])

(* An empty third field is read as the number 0 (strtoul).                  *)
Pcr(field) == CASE field = "" -> 0 [] field = "7" -> 7 [] field = "11" -> 11 [] OTHER -> MAX_PCRS

ParseEntry(fields) ==
    LET ok == /\ _GetNextField(fields, 2) \in Types
              /\ Pcr(_GetNextField(fields, 3)) < MAX_PCRS
              /\ Len(fields) <= 3 \/ (Len(fields) = 4 /\ fields[4] = "")
    IN [ok |-> ok, ent |-> [path |-> _GetNextField(fields, 1), type |-> _GetNextField(fields, 2),
                            pcr |-> Pcr(_GetNextField(fields, 3))]]

LoadPolicy(files, path) ==
    LET step(a, l) ==
            CASE ~a.ok -> a
              [] a.ok /\ l.k = "line"    -> [a EXCEPT !.file = l.path, !.line = l.line]
              [] a.ok /\ l.k = "comment" -> [a EXCEPT !.line = @ + 1]
              [] OTHER ->
                   IF Len(a.entries) = POLICY_MAX_ENTRIES \/ ~ParseEntry(l.fields).ok THEN [a EXCEPT !.ok = FALSE]
                   ELSE [a EXCEPT !.entries = Append(@, ParseEntry(l.fields).ent), !.line = @ + 1]
        read == _ReadFile(files, path)
    IN IF ~read.ok THEN [ok |-> FALSE, file |-> read.file, line |-> read.line, entries |-> <<>>]
       ELSE FoldLeft(step, [ok |-> TRUE, file |-> path, line |-> 1, entries |-> <<>>], read.lines)
==============================================================================
