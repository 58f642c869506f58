------------------------------ MODULE MC_MyAlloc ------------------------------
(* Two call sites, three blocks and sizes 0..2. *)
EXTENDS MyAlloc
CONSTANTS s1, s2, k1, k2, k3
MCSites == {s1, s2}
MCBlocks == {k1, k2, k3}
=============================================================================
