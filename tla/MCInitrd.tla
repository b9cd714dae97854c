------------------------------ MODULE MCInitrd ------------------------------
(***************************************************************************)
(* Small instances of Initrd for TLC.                                      *)
(***************************************************************************)
EXTENDS Initrd
=============================================================================
