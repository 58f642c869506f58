----------------------------- MODULE GlobalState -----------------------------
(***************************************************************************)
(* The state src/global.c keeps for the whole server, composed: the       *)
(* MY_ALLOC accounting of global.alloc_tree (MyAlloc) and the send        *)
(* throttle that global_getrate_avg derives from global.max_rate          *)
(* (GlobalThrottle).  The two share no variable; the allocator is called  *)
(* from every thread, and the statistics code calls global_getrate_avg   *)
(* between them, so their steps interleave.  A NULL dereference in the    *)
(* allocator ends the process, and with it the throttle's steps.          *)
(***************************************************************************)
EXTENDS Naturals

CONSTANTS Sites, Blocks, Sizes, MallocMayFail, Rates, MaxRates

VARIABLES tree, count, allocated, live, info, len, crashed,
          maxRate, throttle, avg, load

Alloc == INSTANCE MyAlloc
Throttle == INSTANCE GlobalThrottle

allocVars == <<tree, count, allocated, live, info, len, crashed>>
throttleVars == <<maxRate, throttle, avg, load>>
vars == <<allocVars, throttleVars>>

Init == Alloc!Init /\ Throttle!Init

(* A periodic global_getrate_avg call of the running process. *)
GetrateAvg ==
    /\ ~crashed
    /\ Throttle!GlobalGetrateAvg
    /\ UNCHANGED allocVars

(* Any calloc, malloc, realloc, free or strdup of the server: with      *)
(* MY_ALLOC, global.h turns each into a call of my_calloc, my_realloc,  *)
(* my_free or my_strdup (malloc(x) becomes my_calloc of 1 by x).         *)
AllocCall == Alloc!Next /\ UNCHANGED throttleVars

Next ==
    \/ AllocCall
    \/ GetrateAvg
    \/ ~crashed /\ Throttle!Next /\ UNCHANGED allocVars

Spec == Init /\ [][Next]_vars /\ WF_vars(GetrateAvg)

-----------------------------------------------------------------------------
TypeOK == Alloc!TypeOK

(* my_calloc, my_realloc, my_strdup and my_free keep each call site's     *)
(* alloc_node count and allocated equal to the number and total length   *)
(* of the live blocks whose allocheader points at that node.             *)
SiteAccounting == Alloc!SiteAccounting

(* Once global.max_rate stays set and the load stays below it, repeated  *)
(* global_getrate_avg calls (interleaved with any allocator activity)    *)
(* bring throttle_sends back to 0 for good, unless the process ends.      *)
ThrottleLifted ==
    <>[](~crashed /\ maxRate # 0 /\ load < maxRate) => <>[](throttle = 0)
=============================================================================
