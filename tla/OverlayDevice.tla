---------------------------- MODULE OverlayDevice ----------------------------
(***************************************************************************)
(* What the users of a cache block device (lsvmutils/cacheblkdev.c) rely   *)
(* on: a device with a durable part, base, and the contents its readers    *)
(* see, view.  While the overlay is off the two are the same and a write   *)
(* changes both; once it is on a write changes view alone, so nothing that *)
(* happens afterwards reaches the disk, and every successful read still    *)
(* returns the last data written.                                          *)
(***************************************************************************)
EXTENDS Integers

CONSTANTS
    NBlocks,   \* number of blocks of the device
    Data       \* contents a block can have

VARIABLES
    base,      \* [Blknos -> Data], what survives the device being closed
    view,      \* [Blknos -> Data], what a read returns
    on,        \* is the overlay on?
    ret        \* what the last operation returned

ovars == <<base, view, on, ret>>

Blknos == 0 .. NBlocks - 1

\* The result of a failed operation, and of one that returns no data.
NoData == [k \in 0 .. -1 |-> 0]
Failed == [rc |-> 1, data |-> NoData]
Done   == [rc |-> 0, data |-> NoData]

OInit ==
    /\ base \in [Blknos -> Data]
    /\ view = base
    /\ on = FALSE
    /\ ret = Done

\* A successful read of the blocks b .. e-1 returns what view holds.
ORead ==
    \E b, e \in 0 .. NBlocks :
        /\ ret' = [rc |-> 0, data |-> [k \in b .. e - 1 |-> view[k]]]
        /\ UNCHANGED <<base, view, on>>

\* An operation ends without data: a write, a change of mode, a failure.
OEnd ==
    /\ ret' \in {Failed, Done}
    /\ UNCHANGED <<base, view, on>>

\* With the overlay on, a write reaches one block at a time, in view only.
OWriteView ==
    /\ on
    /\ \E b \in Blknos, d \in Data : view' = [view EXCEPT ![b] = d]
    /\ UNCHANGED <<base, on, ret>>

\* With the overlay off, a write reaches base and view together; one that
\* fails may have reached some of the blocks.
OWriteBase ==
    /\ ~on
    /\ base' \in [Blknos -> Data]
    /\ view' = base'
    /\ ret' \in {Failed, Done}
    /\ UNCHANGED on

OTurnOn ==
    /\ on' = TRUE
    /\ ret' = Done
    /\ UNCHANGED <<base, view>>

\* The device is closed: what only view held is gone.
ODrop ==
    /\ view' = base
    /\ on' = FALSE
    /\ ret' \in {Failed, Done}
    /\ UNCHANGED base

ONext == ORead \/ OEnd \/ OWriteView \/ OWriteBase \/ OTurnOn \/ ODrop

OSpec == OInit /\ [][ONext]_ovars
=============================================================================
