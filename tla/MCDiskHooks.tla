----------------------------- MODULE MCDiskHooks -----------------------------
(* A small disk for the model checker. *)
EXTENDS DiskHooks

\* Two partitions with gaps around them, and one of a second disk.
MCNodes ==
    {[pun |-> 0, number |-> 1, start |-> 3, size |-> 2],
      [pun |-> 1, number |-> 1, start |-> 20, size |-> 4],
      [pun |-> 0, number |-> 2, start |-> 6, size |-> 4]}
================================================================================
