-------------------------------- MODULE MCExt2 --------------------------------
(* A small file system for the model checker. *)
EXTENDS Ext2

\* One file in a directory of one block.
MCFiles == <<"f">>
================================================================================
