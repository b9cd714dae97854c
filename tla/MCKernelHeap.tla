---------------------------- MODULE MCKernelHeap ----------------------------
(***************************************************************************)
(* Small instances of KernelHeap for TLC.                                  *)
(***************************************************************************)
EXTENDS KernelHeap

\* A kernel that leaves frames for the whole heap window a second time, and two
\* that leave frames for a part of it only.
MCImageEnds == {1, 4, 6}
=============================================================================
