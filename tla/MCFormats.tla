------------------------------ MODULE MCFormats ------------------------------
(* The uses of the formats (Formats) and the commands on archives (Initrd)  *)
(* checked in one run: a behaviour is one of the two from its start.        *)
EXTENDS Formats

CONSTANTS Paths, MaxCommands, MaxFaults
VARIABLES disk, broken, last, commands, faults
initrdVars == <<disk, broken, last, commands, faults>>

I == INSTANCE Initrd

\* No use of a format is asked for, and no command is given.
NoUse == op = "none" /\ done = FALSE /\ input = <<>> /\ answer = <<>>
NoCommands ==
    /\ disk = [p \in Paths |-> I!NoFile] /\ broken = {} /\ last = I!NoCommand
    /\ commands = 0 /\ faults = 0

MCInit == (Init /\ NoCommands) \/ (I!Init /\ NoUse)
MCNext ==
    \/ Next /\ UNCHANGED initrdVars
    \/ op = "none" /\ I!Next /\ UNCHANGED vars
MCSpec == MCInit /\ [][MCNext]_<<vars, initrdVars>>

\* The images that any sequence of commands leaves in the files: archives that
\* run from header to trailer (cpio.c).
ImagesInv == I!ImagesInv

\* The commands of cpiomain.c change what they were asked to change and nothing
\* else.
CommandsExact == I!CommandsExact

\* An injected initrd has both keys once, and is otherwise as it was
\* (InitrdInjectFiles).
InjectExact == I!InjectExact
==============================================================================
