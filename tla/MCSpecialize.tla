---------------------------- MODULE MCSpecialize ----------------------------
(* Instances of Specialize for TLC: two files, which a configuration file  *)
(* cannot write as a sequence.                                             *)
EXTENDS Specialize

CONSTANTS f1, f2

MCNames == <<f1, f2>>
=============================================================================
