---------------------------- MODULE MC_GlobalState ----------------------------
(* Two call sites, three blocks, sizes 0..2; loads 0 and 2 against the    *)
(* limits none and 2.                                                     *)
EXTENDS GlobalState
CONSTANTS s1, s2, k1, k2, k3
MCSites == {s1, s2}
MCBlocks == {k1, k2, k3}
=============================================================================
