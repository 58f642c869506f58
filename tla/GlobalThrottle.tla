--------------------------- MODULE GlobalThrottle ---------------------------
(***************************************************************************)
(* The send throttle of src/global.c.  global_getrate_avg reads the       *)
(* average outgoing bitrate and, when a limit global.max_rate is set,     *)
(* sets throttle_sends from the ratio of the two: 3 above 0.99, 2 above   *)
(* 0.9, 1 above 0.8, and otherwise lowers it by one.  The ratio is        *)
(* computed as avg / global.max_rate on integers (unsigned long over      *)
(* int64_t) and only then converted to float.                             *)
(*                                                                         *)
(* The average rate_avg(global.out_bitrate) returns and the limit the   *)
(* configuration sets are the environment: the senders' bytes           *)
(* (global_add_bitrates) move the average to any member of Rates, and a  *)
(* reload may set global.max_rate to any member of MaxRates (0 = none).  *)
(***************************************************************************)
EXTENDS Naturals

CONSTANTS
    Rates,      \* averages rate_avg may return
    MaxRates    \* values of global.max_rate, 0 for no limit

ASSUME Rates \subseteq Nat /\ MaxRates \subseteq Nat /\ MaxRates # {}

VARIABLES
    maxRate,    \* global.max_rate
    throttle,   \* throttle_sends
    avg,        \* the last average global_getrate_avg returned
    load        \* what rate_avg (global.out_bitrate) returns now

vars == <<maxRate, throttle, avg, load>>

Init ==
    /\ maxRate \in MaxRates
    /\ throttle = 0
    /\ avg = 0
    /\ load \in Rates

(* float ratio = avg / global.max_rate: integer division, then a float *)
(* that holds the quotient exactly.  ratio > p/q is tested as           *)
(* ratio * q > p.                                                        *)
Ratio(a, m) == a \div m
Above(r, p, q) == r * q > p

(* Mutant: below 0.8 the level is kept instead of lowered. *)
NewThrottleNoDecay(r, t) ==
    CASE Above(r, 99, 100) -> 3
      [] Above(r, 9, 10)   -> 2
      [] Above(r, 8, 10)   -> 1
      [] OTHER             -> t

(* The throttle level for ratio r, from the current level t. *)
NewThrottle(r, t) ==
    CASE Above(r, 99, 100) -> 3
      [] Above(r, 9, 10)   -> 2
      [] Above(r, 8, 10)   -> 1
      [] t > 0             -> t - 1
      [] OTHER             -> t

(* global_getrate_avg: read the average and adjust the throttle. *)
GlobalGetrateAvg ==
    /\ avg' = load
    /\ throttle' = IF maxRate # 0
                      THEN NewThrottle(Ratio(load, maxRate), throttle)
                      ELSE throttle
    /\ UNCHANGED <<maxRate, load>>

(* The senders' traffic moves the average of global.out_bitrate. *)
AddBitrates(a) ==
    /\ a # load
    /\ load' = a
    /\ UNCHANGED <<maxRate, throttle, avg>>

(* A configuration reload changes the limit. *)
SetMaxRate(m) ==
    /\ m # maxRate
    /\ maxRate' = m
    /\ UNCHANGED <<throttle, avg, load>>

Next ==
    \/ GlobalGetrateAvg
    \/ \E a \in Rates : AddBitrates(a)
    \/ \E m \in MaxRates : SetMaxRate(m)

(* global_getrate_avg is called periodically by the statistics code. *)
Spec == Init /\ [][Next]_vars /\ WF_vars(GlobalGetrateAvg)

-----------------------------------------------------------------------------
(* Once a limit stays set and the traffic stays below it, repeated       *)
(* global_getrate_avg calls take throttle_sends back to 0 and keep it    *)
(* there.                                                                 *)
ThrottleLifted ==
    <>[](maxRate # 0 /\ load < maxRate)
        => <>[](throttle = 0)

(* Once the limit is removed (global.max_rate = 0) for good, sending is   *)
(* eventually no longer throttled.                                        *)
ThrottleLiftedWhenUnlimited == <>[](maxRate = 0) => <>[](throttle = 0)

(* The thresholds engage the throttle once the load is above 80% of the  *)
(* limit: the last sample above 0.8 * max_rate leaves throttle_sends > 0. *)
ThrottleEngagesNearLimit ==
    maxRate # 0 /\ 10 * avg > 8 * maxRate => throttle > 0
=============================================================================
