------------------------------ MODULE MC_RefBuf ------------------------------
(* Four buffers and two caller references per buffer. *)
EXTENDS RefBuf
CONSTANTS b1, b2, b3, b4
MCBufs == {b1, b2, b3, b4}
=============================================================================
