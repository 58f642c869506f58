------------------------------ MODULE YPBitrate ------------------------------
(***************************************************************************)
(* The bitrate attribute of a YP "add" request (yp.c).  do_yp_add takes   *)
(* the mount's "bitrate" stat verbatim when the source declared one;      *)
(* otherwise set_bitrate_from_inrate derives it from the measured         *)
(* "incoming_bitrate" stat: add about 10% and 5, keep the three most      *)
(* significant bits, convert to kbit.  add_yp_info stores the result in   *)
(* yp->bitrate unless the stat is missing or util_url_escape fails, and   *)
(* the request is sent only when the mandatory fields are non-empty.      *)
(*                                                                         *)
(* A stream has a nominal rate (kbit/s).  The measured rate moves around  *)
(* it: successive readings of incoming_bitrate taken by do_yp_add differ  *)
(* by Step bit/s and stay within Span percent of the nominal rate, so     *)
(* that every reading in that band is met.  Startup is the set of         *)
(* readings a source may publish before its rate settles.                 *)
(***************************************************************************)
EXTENDS Integers

CONSTANTS
    StdRates,       \* nominal stream rates, kbit/s
    Span,           \* percent around the nominal rate the readings cover
    Step,           \* bit/s between successive readings
    Startup,        \* readings seen before the rate settles
    EscapeMayFail   \* util_url_escape may return NULL (out of memory)

VARIABLES
    nominal,     \* the stream's nominal rate
    inrate,      \* incoming_bitrate as last read by set_bitrate_from_inrate, or None
    bitrate,     \* yp->bitrate: Empty ("") or a kbit value
    basis,       \* what yp->bitrate was taken from: None, Declared or a reading
    advertised   \* b= of the last add request sent, or None

vars == <<nominal, inrate, bitrate, basis, advertised>>

(* Values are non-negative; these stand for "no value", the empty string, *)
(* the declared stat and a NULL pointer.                                   *)
None == -1
Empty == -1
Declared == -2
Null == -3

Lo(n) == (100 - Span) * 10 * n
Hi(n) == (100 + Span) * 10 * n

(* Readings within 5% of the nominal rate. *)
InWindow(v, n) == 95 * n * 10 <= v /\ v <= 105 * n * 10

(* The next reading of incoming_bitrate after r. *)
Readings(r) ==
    IF r = None THEN Startup \cup {Lo(nominal)}
    ELSE IF r < Lo(nominal) THEN {Lo(nominal)}
    ELSE {x \in {r, r + Step} : x <= Hi(nominal)}

(***************************************************************************)
(* set_bitrate_from_inrate, the arithmetic: v is shifted right until it   *)
(* is at most 7 and then shifted back by the same count, i.e. truncated   *)
(* to its three leading bits.  (long)(v*1.1) is the floor of 11v/10 for   *)
(* every reading below 400000, which covers the model's readings.         *)
(***************************************************************************)
RECURSIVE Shifted(_, _)
Shifted(v, c) == IF v > 7 THEN Shifted(v \div 2, c + 1) ELSE v * 2^c

Margined(v) == (11 * v) \div 10 + 5

(* Mutant: the 10% margin left out. *)
InrateKbitNoMargin(v) == Shifted(v + 5, 0) \div 1024

(* Mutant: shifted back one place too few. *)
InrateKbitShortShift(v) == (Shifted(Margined(v), 0) \div 2) \div 1024

InrateKbit(v) == Shifted(Margined(v), 0) \div 1024

Escapes == IF EscapeMayFail THEN BOOLEAN ELSE {TRUE}

(* Mutant: the result of util_url_escape stored without the NULL check. *)
StoredNoNullCheck(escaped, value, old) == IF escaped THEN value ELSE Null

(* add_yp_info: the escaped value replaces the field unless escaping failed. *)
Stored(escaped, value, old) == IF escaped THEN value ELSE old

Init ==
    /\ nominal \in StdRates
    /\ inrate = None
    /\ bitrate = Empty
    /\ basis = None
    /\ advertised = None

(* The request goes out when the other mandatory fields are set too. *)
SendAdd(others) ==
    advertised' = IF others /\ bitrate' # Empty THEN bitrate' ELSE advertised

(***************************************************************************)
(* do_yp_add with the "bitrate" stat present: add_yp_info stores it.  The *)
(* declared value is the stream's nominal rate.                           *)
(***************************************************************************)
DoYPAddDeclared ==
    \E escaped \in Escapes, others \in BOOLEAN :
        /\ bitrate' = Stored(escaped, nominal, bitrate)
        /\ basis' = IF escaped THEN Declared ELSE basis
        /\ SendAdd(others)
        /\ UNCHANGED <<nominal, inrate>>

(***************************************************************************)
(* do_yp_add without the "bitrate" stat: set_bitrate_from_inrate.  A      *)
(* missing incoming_bitrate, or a failing util_url_escape, leaves         *)
(* yp->bitrate as it is (the reading read and dropped by a failed call    *)
(* changes nothing, so the walk does not move); otherwise the derived     *)
(* value is stored.                                                       *)
(***************************************************************************)
DoYPAddMeasured ==
    \E escaped \in Escapes, others \in BOOLEAN :
        \/ /\ bitrate' = bitrate /\ basis' = basis
           /\ SendAdd(others)
           /\ UNCHANGED <<nominal, inrate>>
        \/ /\ ~escaped
           /\ UNCHANGED <<nominal, inrate, bitrate, basis>>
           /\ SendAdd(others)
        \/ \E v \in Readings(inrate) :
              /\ escaped
              /\ inrate' = v
              /\ bitrate' = InrateKbit(v)
              /\ basis' = v
              /\ SendAdd(others)
              /\ UNCHANGED nominal

Next == DoYPAddDeclared \/ DoYPAddMeasured

Spec == Init /\ [][Next]_vars

TypeOK ==
    /\ nominal \in StdRates
    /\ inrate \in {None} \cup Nat
    /\ bitrate \in {Empty} \cup Nat
    /\ basis \in {None, Declared} \cup Nat
    /\ advertised \in {None} \cup Nat

(***************************************************************************)
(* A stream whose measured rate is within 5% of a standard rate is listed *)
(* at exactly that rate: the jitter-resistant rounding of                 *)
(* set_bitrate_from_inrate recovers the nominal rate from any reading in  *)
(* the window, including the shift-back and the kbit conversion.          *)
(***************************************************************************)
NominalRateRecovered ==
    InWindow(basis, nominal) => bitrate = nominal

(***************************************************************************)
(* Whatever the reading, the derived rate is the margined reading cut to  *)
(* its three leading bits, in kbit: never above it and above 4/5 of it    *)
(* (so over- and under-reporting are bounded by the rounding).            *)
(***************************************************************************)
EstimateBracketsReading ==
    basis \in Nat =>
        /\ 1024 * bitrate <= Margined(basis)
        /\ 5 * 1024 * (bitrate + 1) > 4 * Margined(basis)

(***************************************************************************)
(* spec.md: a request is sent only with a bitrate; a listed stream should *)
(* not be advertised at 0 kbit.                                           *)
(***************************************************************************)
AdvertisedRatePositive ==
    advertised \in Nat => advertised > 0

=============================================================================
