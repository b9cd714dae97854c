------------------------------- MODULE MCPmm -------------------------------
(***************************************************************************)
(* Small instances of Pmm for TLC.                                         *)
(***************************************************************************)
EXTENDS Pmm

\* Three kernels that boot (the largest needs two page tables for itself and
\* leaves two frames to spare), one that leaves too few frames for the heap
\* window, and one whose identity map already exhausts memory.
MCImageEnds == {1, 3, 15, 26, 30}

\* Three blocks of these sizes fill the heap window.
MCRequests == {3, 4, 5}
=============================================================================
