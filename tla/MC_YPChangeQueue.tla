-------------------------- MODULE MC_YPChangeQueue --------------------------
(* Model-checking instance of YPChangeQueue: one mountpoint is enough,    *)
(* since the queue never looks at the mount; four notifications let a     *)
(* second batch form while the first is being applied.                    *)
EXTENDS YPChangeQueue

MCKinds == {"add", "remove", "touch"}
=============================================================================
