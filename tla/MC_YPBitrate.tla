----------------------------- MODULE MC_YPBitrate -----------------------------
EXTENDS YPBitrate

(* The MPEG audio layer III rates (kbit/s), with 8 and 16 for speech streams. *)
MCStdRates == {8, 16, 24, 32, 40, 48, 56, 64, 80, 96, 112, 128, 160, 192, 224, 256, 320}

(* Readings a source may publish while its rate settles: zero, and the two *)
(* sides of 927 bit/s, below which the derived rate is 0 kbit.             *)
MCStartup == {0, 926, 927}
=============================================================================
