--------------------------- MODULE MC_YPDirectory ---------------------------
(* Model-checking instances of YPDirectory.  Servers and mountpoints are *)
(* model values; the configurations are sequences of them.               *)
EXTENDS YPDirectory

CONSTANTS s1, s2, m1, m2

MCKinds == {"add", "remove", "touch"}
OneServer == <<s1>>
TwoServers == <<s1, s2>>
=============================================================================
