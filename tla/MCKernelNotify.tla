--------------------------- MODULE MCKernelNotify ---------------------------
(* Instances of KernelNotify for TLC. *)
EXTENDS KernelNotify

CONSTANTS c1, c2, c3
=============================================================================
