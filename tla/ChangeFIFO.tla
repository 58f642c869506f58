----------------------------- MODULE ChangeFIFO -----------------------------
(***************************************************************************)
(* What the directory change queue promises (spec.md 4.3): notifications  *)
(* accepted while the server runs are applied to the registry one at a    *)
(* time, each exactly once, in the order they were accepted.  "log" is    *)
(* every accepted notification, "pending" the ids not yet applied and     *)
(* "done" the ids applied so far.                                         *)
(***************************************************************************)
EXTENDS Naturals, Sequences

CONSTANTS Kinds, Mounts, MaxChanges

VARIABLES log, pending, done

fifoVars == <<log, pending, done>>

Change == [kind : Kinds, mount : Mounts]

Init == log = <<>> /\ pending = <<>> /\ done = <<>>

Submit(k, m) ==
    /\ Len(log) < MaxChanges
    /\ log' = Append(log, [kind |-> k, mount |-> m])
    /\ pending' = Append(pending, Len(log) + 1)
    /\ UNCHANGED done

Consume ==
    /\ pending # <<>>
    /\ done' = Append(done, Head(pending))
    /\ pending' = Tail(pending)
    /\ UNCHANGED log

Next == (\E k \in Kinds, m \in Mounts : Submit(k, m)) \/ Consume

Spec == Init /\ [][Next]_fifoVars /\ WF_fifoVars(Consume)
=============================================================================
