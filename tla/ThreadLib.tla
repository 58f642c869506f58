------------------------------ MODULE ThreadLib ------------------------------
(***************************************************************************)
(* The thread library of src/thread/thread.c: the life of the threads it  *)
(* creates, kept in the _threadtree AVL tree, and its condition variable  *)
(* wrappers, which a created thread waits on with a deadline.             *)
(*                                                                         *)
(* Lifecycle.  thread_create_c allocates a thread_type and starts         *)
(* _start_routine, which inserts the thread into _threadtree, runs the    *)
(* start routine and, for a detached thread, deletes and frees it.        *)
(* thread_exit_c finds the caller with thread_self and deletes and frees  *)
(* it before pthread_exit.  thread_join waits for a joinable thread and   *)
(* deletes and frees it.  thread_shutdown destroys the tree mutex and     *)
(* frees the tree with every thread still in it.                           *)
(*                                                                         *)
(* Condition variable.  cond_t carries a flag "set": thread_cond_signal_c *)
(* sets it before pthread_cond_signal, and thread_cond_timedwait_c clears *)
(* it on entry and waits again while it is 0 and the wait returned 0.      *)
(* thread_cond_broadcast_c does not touch it.                              *)
(*                                                                         *)
(* The main thread and pthreads are the environment: main creates, joins, *)
(* signals and broadcasts (holding the caller's mutex) and finally calls  *)
(* thread_shutdown; pthread_cond_timedwait may wake spuriously or at its  *)
(* deadline.  A read, lock or free of a freed thread_type, tree or mutex  *)
(* is recorded in uaf.                                                     *)
(***************************************************************************)
EXTENDS FiniteSets, Integers

CONSTANTS
    Threads,            \* the threads main may create
    ExitJoinable,       \* a joinable thread may end with thread_exit
    ShutdownWhenQuiet,  \* main calls thread_shutdown only once no created
                        \* thread runs
    Broadcasts          \* main may use thread_cond_broadcast

ASSUME {ExitJoinable, ShutdownWhenQuiet, Broadcasts} \subseteq BOOLEAN

VARIABLES
    pc,         \* where each created thread is
    detached,   \* thread->detached
    mem,        \* the thread_type: "none", "live" or "freed"
    tree,       \* created threads in _threadtree
    treeLive,   \* _threadtree and _threadtree_mutex exist
    uaf,        \* history: freed library state was used
    mx,         \* owner of the caller's mutex, or "none"
    set,        \* cond->set
    rc,         \* what pthread_cond_timedwait last returned to the thread
    wake,       \* what last woke the thread in pthread_cond_timedwait
    sig         \* history: a signal or broadcast came since the thread
                \* entered thread_cond_timedwait

vars == <<pc, detached, mem, tree, treeLive, uaf, mx, set, rc, wake, sig>>

(* "starting": pthread_create returned, _start_routine has not inserted   *)
(* the thread yet; "body": in the start routine, holding no lock;         *)
(* "locked", "waiting", "woken", "returned": in a timed wait (see below); *)
(* "exited": pthread gone, joinable and not joined; "finished": gone.     *)
Running == {"body", "locked", "waiting", "woken", "returned"}
PCs == {"none", "starting", "exited", "finished"} \cup Running

Init ==
    /\ pc = [t \in Threads |-> "none"]
    /\ detached = [t \in Threads |-> FALSE]
    /\ mem = [t \in Threads |-> "none"]
    /\ tree = {}
    /\ treeLive = TRUE
    /\ uaf = FALSE
    /\ mx = "none"
    /\ set = FALSE
    /\ rc = [t \in Threads |-> "ok"]
    /\ wake = [t \in Threads |-> "none"]
    /\ sig = [t \in Threads |-> FALSE]

CondVars == <<mx, set, rc, wake, sig>>

-----------------------------------------------------------------------------
(* thread_self: the tree entry of the caller, NULL once the tree is gone. *)
ThreadSelf(t) == IF treeLive /\ t \in tree THEN t ELSE "NULL"

(* Mutant: the thread_type is freed but left in the tree. *)
FreeThreadKeepEntry(t) ==
    /\ tree' = tree
    /\ mem' = [mem EXCEPT ![t] = "freed"]

(* avl_delete with _free_thread: the thread leaves the tree, its         *)
(* thread_type is freed.                                                   *)
FreeThread(t) ==
    /\ tree' = tree \ {t}
    /\ mem' = [mem EXCEPT ![t] = "freed"]

(* thread_create_c by main: a detached or joinable thread is started. *)
ThreadCreate(t, det) ==
    /\ treeLive /\ pc[t] = "none"
    /\ pc' = [pc EXCEPT ![t] = "starting"]
    /\ detached' = [detached EXCEPT ![t] = det]
    /\ mem' = [mem EXCEPT ![t] = "live"]
    /\ UNCHANGED <<tree, treeLive, uaf, CondVars>>

(* _start_routine: insert the thread into _threadtree under its mutex. *)
StartRoutine(t) ==
    /\ pc[t] = "starting"
    /\ pc' = [pc EXCEPT ![t] = "body"]
    /\ tree' = IF treeLive THEN tree \cup {t} ELSE tree
    /\ uaf' = (uaf \/ ~treeLive)
    /\ UNCHANGED <<detached, mem, treeLive, CondVars>>

(* Mutant: the thread frees itself whether detached or not. *)
BodyReturnFreeAlways(t) ==
    /\ pc[t] = "body"
    /\ pc' = [pc EXCEPT ![t] = IF detached[t] THEN "finished" ELSE "exited"]
    /\ IF treeLive THEN FreeThread(t) ELSE UNCHANGED <<tree, mem>>
    /\ uaf' = (uaf \/ ~treeLive)
    /\ UNCHANGED <<detached, treeLive, CondVars>>

(* The start routine returns: a detached thread deletes and frees itself; *)
(* a joinable one is left for thread_join.                                *)
BodyReturn(t) ==
    /\ pc[t] = "body"
    /\ IF detached[t]
          THEN /\ pc' = [pc EXCEPT ![t] = "finished"]
               /\ IF treeLive THEN FreeThread(t) ELSE UNCHANGED <<tree, mem>>
               /\ uaf' = (uaf \/ ~treeLive)
          ELSE /\ pc' = [pc EXCEPT ![t] = "exited"]
               /\ UNCHANGED <<tree, mem, uaf>>
    /\ UNCHANGED <<detached, treeLive, CondVars>>

(* thread_exit_c: thread_self, delete and free the entry, pthread_exit. *)
ThreadExit(t) ==
    /\ pc[t] = "body"
    /\ detached[t] \/ ExitJoinable
    /\ IF ThreadSelf(t) = t THEN FreeThread(t) ELSE UNCHANGED <<tree, mem>>
    /\ uaf' = (uaf \/ ~treeLive)
    /\ pc' = [pc EXCEPT ![t] = IF detached[t] THEN "finished" ELSE "exited"]
    /\ UNCHANGED <<detached, treeLive, CondVars>>

(* Mutant: thread_join does not delete and free the entry. *)
ThreadJoinKeep(t) ==
    /\ treeLive /\ ~detached[t] /\ pc[t] = "exited"
    /\ pc' = [pc EXCEPT ![t] = "finished"]
    /\ uaf' = (uaf \/ mem[t] = "freed")
    /\ UNCHANGED <<tree, mem, detached, treeLive, CondVars>>

(* thread_join by main, once the thread has exited: read                  *)
(* thread->sys_thread, pthread_join, then delete and free the entry.      *)
ThreadJoin(t) ==
    /\ treeLive /\ ~detached[t] /\ pc[t] = "exited"
    /\ pc' = [pc EXCEPT ![t] = "finished"]
    /\ uaf' = (uaf \/ mem[t] = "freed")
    /\ IF t \in tree THEN FreeThread(t) ELSE UNCHANGED <<tree, mem>>
    /\ UNCHANGED <<detached, treeLive, CondVars>>

(* thread_shutdown by main: destroy the mutexes, free the tree and every *)
(* thread still in it.                                                   *)
ThreadShutdown ==
    /\ treeLive
    /\ ShutdownWhenQuiet =>
         \A t \in Threads : pc[t] \in {"none", "exited", "finished"}
    /\ treeLive' = FALSE
    /\ tree' = {}
    /\ mem' = [t \in Threads |-> IF t \in tree THEN "freed" ELSE mem[t]]
    /\ UNCHANGED <<pc, detached, uaf, CondVars>>

-----------------------------------------------------------------------------
(* thread_time_add_ms on a struct timespec [sec, nsec]: the whole        *)
(* seconds of value go to tv_sec, the milliseconds left to tv_nsec, and   *)
(* one carry brings tv_nsec back under a second.  tv_nsec is a long, 32   *)
(* bits on 32-bit builds; TLC's integers are as wide, so a sum past      *)
(* 2^31 - 1 is reported as an overflow.                                   *)
NsPerSec == 1000000000

(* Mutant: the carry is taken from 999999999 nanoseconds on. *)
TimeAddMsCarryEarly(ts, value) ==
    LET sec == IF value > 999 THEN ts.sec + value \div 1000 ELSE ts.sec
        ms == IF value > 999 THEN value % 1000 ELSE value
        nsec == ts.nsec + ms * 1000000
    IN IF nsec >= NsPerSec - 1 THEN [sec |-> sec + 1, nsec |-> nsec - NsPerSec]
       ELSE [sec |-> sec, nsec |-> nsec]

TimeAddMs(ts, value) ==
    LET sec == IF value > 999 THEN ts.sec + value \div 1000 ELSE ts.sec
        ms == IF value > 999 THEN value % 1000 ELSE value
        nsec == ts.nsec + ms * 1000000
    IN IF nsec > NsPerSec - 1 THEN [sec |-> sec + 1, nsec |-> nsec - NsPerSec]
       ELSE [sec |-> sec, nsec |-> nsec]

(* Reference: r is the normalised timespec exactly value milliseconds   *)
(* after ts (compared in milliseconds, so that nothing exceeds 2^31).    *)
MsLater(ts, r, value) ==
    /\ r.nsec \in 0 .. NsPerSec - 1
    /\ (r.nsec - ts.nsec) % 1000000 = 0
    /\ (r.sec - ts.sec) * 1000 + (r.nsec - ts.nsec) \div 1000000 = value

(* Normalised timespecs at the edges of tv_nsec, and delays around the  *)
(* value > 999 split and the carry.                                      *)
TestTimes == [sec : {0, 7}, nsec : {0, 1, 999999, 1000000, 500000000,
                                    998999999, 999000000, 999999999}]
TestDelays == {0, 1, 999, 1000, 1001, 1999, 2500}

(* The deadline a caller passes to a timed wait: thread_get_timespec,  *)
(* then thread_time_add_ms of the delay.                                *)
Deadlines == {TimeAddMs(now, v) : now \in TestTimes, v \in TestDelays}

(* pthread_cond_timedwait refuses, with EINVAL, a tv_nsec out of range. *)
ValidTimespec(d) == d.nsec \in 0 .. NsPerSec - 1

-----------------------------------------------------------------------------
(* A created thread takes the caller's mutex before waiting. *)
MutexLock(t) ==
    /\ pc[t] = "body" /\ mx = "none"
    /\ mx' = t
    /\ pc' = [pc EXCEPT ![t] = "locked"]
    /\ UNCHANGED <<detached, mem, tree, treeLive, uaf, set, rc, wake, sig>>

(* Mutant: cond->set is not cleared on entry. *)
TimedWaitEnterKeepSet(t) ==
    /\ pc[t] = "locked"
    /\ sig' = [sig EXCEPT ![t] = FALSE]
    /\ wake' = [wake EXCEPT ![t] = "none"]
    /\ \E d \in Deadlines :
         IF ValidTimespec(d)
            THEN /\ pc' = [pc EXCEPT ![t] = "waiting"] /\ mx' = "none"
                 /\ rc' = [rc EXCEPT ![t] = "ok"]
            ELSE /\ pc' = [pc EXCEPT ![t] = "returned"] /\ UNCHANGED mx
                 /\ rc' = [rc EXCEPT ![t] = "einval"]
    /\ UNCHANGED <<detached, mem, tree, treeLive, uaf, set>>

(* thread_cond_timedwait_c: cond->set = 0, then pthread_cond_timedwait   *)
(* with the caller's deadline d.  A valid d: the call releases the mutex *)
(* and blocks.  An invalid one: the call fails at once with the mutex    *)
(* still held, the loop ends on rc # 0 and the error is logged.          *)
TimedWaitEnter(t) ==
    /\ pc[t] = "locked"
    /\ set' = FALSE
    /\ sig' = [sig EXCEPT ![t] = FALSE]
    /\ wake' = [wake EXCEPT ![t] = "none"]
    /\ \E d \in Deadlines :
         IF ValidTimespec(d)
            THEN /\ pc' = [pc EXCEPT ![t] = "waiting"] /\ mx' = "none"
                 /\ rc' = [rc EXCEPT ![t] = "ok"]
            ELSE /\ pc' = [pc EXCEPT ![t] = "returned"] /\ UNCHANGED mx
                 /\ rc' = [rc EXCEPT ![t] = "einval"]
    /\ UNCHANGED <<detached, mem, tree, treeLive, uaf>>

InWait == {t \in Threads : pc[t] \in {"waiting", "woken"}}
Waiting == {t \in Threads : pc[t] = "waiting"}

(* pthread_cond_timedwait returns r to a waiting thread t, woken by why. *)
Woken(t, r, why) ==
    /\ pc' = [pc EXCEPT ![t] = "woken"]
    /\ rc' = [rc EXCEPT ![t] = r]
    /\ wake' = [wake EXCEPT ![t] = why]

(* thread_cond_signal_c by main, holding the mutex: set the flag, wake   *)
(* one waiter if there is one.                                            *)
Signal ==
    /\ treeLive /\ mx = "none"
    /\ set' = TRUE
    /\ sig' = [t \in Threads |-> sig[t] \/ t \in InWait]
    /\ \/ \E w \in Waiting : Woken(w, "ok", "signal")
       \/ Waiting = {} /\ UNCHANGED <<pc, rc, wake>>
    /\ UNCHANGED <<detached, mem, tree, treeLive, uaf, mx>>

(* thread_cond_broadcast_c by main, holding the mutex: wake every waiter; *)
(* the flag is left as it is.                                              *)
Broadcast ==
    /\ Broadcasts /\ treeLive /\ mx = "none" /\ Waiting # {}
    /\ pc' = [t \in Threads |-> IF t \in Waiting THEN "woken" ELSE pc[t]]
    /\ rc' = [t \in Threads |-> IF t \in Waiting THEN "ok" ELSE rc[t]]
    /\ wake' = [t \in Threads |-> IF t \in Waiting THEN "broadcast" ELSE wake[t]]
    /\ sig' = [t \in Threads |-> sig[t] \/ t \in InWait]
    /\ UNCHANGED <<detached, mem, tree, treeLive, uaf, mx, set>>

(* pthread_cond_timedwait returns 0 without a wakeup, or ETIMEDOUT. *)
Spurious(t) ==
    /\ pc[t] = "waiting" /\ Woken(t, "ok", "spurious")
    /\ UNCHANGED <<detached, mem, tree, treeLive, uaf, mx, set, sig>>
Timeout(t) ==
    /\ pc[t] = "waiting" /\ Woken(t, "timeout", "timeout")
    /\ UNCHANGED <<detached, mem, tree, treeLive, uaf, mx, set, sig>>

(* Mutant: the loop waits again after a timeout too. *)
ReacquireIgnoreTimeout(t) ==
    /\ pc[t] = "woken" /\ mx = "none"
    /\ IF ~set
          THEN /\ pc' = [pc EXCEPT ![t] = "waiting"]
               /\ UNCHANGED <<mx, set>>
          ELSE /\ pc' = [pc EXCEPT ![t] = "returned"]
               /\ mx' = t
               /\ set' = IF rc[t] = "ok" THEN FALSE ELSE set
    /\ UNCHANGED <<detached, mem, tree, treeLive, uaf, rc, wake, sig>>

(* The waiter gets the mutex back.  While cond->set is 0 and the wait    *)
(* returned 0 it waits again (releasing the mutex); otherwise it clears  *)
(* a set flag after a 0 return and returns holding the mutex.            *)
Reacquire(t) ==
    /\ pc[t] = "woken" /\ mx = "none"
    /\ IF rc[t] = "ok" /\ ~set
          THEN /\ pc' = [pc EXCEPT ![t] = "waiting"]
               /\ UNCHANGED <<mx, set>>
          ELSE /\ pc' = [pc EXCEPT ![t] = "returned"]
               /\ mx' = t
               /\ set' = IF rc[t] = "ok" THEN FALSE ELSE set
    /\ UNCHANGED <<detached, mem, tree, treeLive, uaf, rc, wake, sig>>

(* The caller releases the mutex after the wait. *)
MutexUnlock(t) ==
    /\ pc[t] = "returned"
    /\ mx' = "none"
    /\ pc' = [pc EXCEPT ![t] = "body"]
    /\ UNCHANGED <<detached, mem, tree, treeLive, uaf, set, rc, wake, sig>>

-----------------------------------------------------------------------------
Next ==
    \/ \E t \in Threads :
         \/ \E det \in BOOLEAN : ThreadCreate(t, det)
         \/ StartRoutine(t) \/ BodyReturn(t) \/ ThreadExit(t) \/ ThreadJoin(t)
         \/ MutexLock(t) \/ TimedWaitEnter(t) \/ Spurious(t) \/ Timeout(t)
         \/ Reacquire(t) \/ MutexUnlock(t)
    \/ Signal \/ Broadcast
    \/ ThreadShutdown

(* A deadline, once passed, stays passed: a waiter that keeps getting    *)
(* the chance to time out does.  No thread is denied the mutex forever,  *)
(* and a thread holding it goes on to release it.                        *)
Fairness ==
    \A t \in Threads :
        /\ SF_vars(Timeout(t)) /\ SF_vars(Reacquire(t))
        /\ WF_vars(TimedWaitEnter(t)) /\ WF_vars(MutexUnlock(t))

Spec == Init /\ [][Next]_vars /\ Fairness

-----------------------------------------------------------------------------
TypeOK ==
    /\ pc \in [Threads -> PCs]
    /\ detached \in [Threads -> BOOLEAN]
    /\ mem \in [Threads -> {"none", "live", "freed"}]
    /\ tree \subseteq Threads /\ treeLive \in BOOLEAN /\ uaf \in BOOLEAN
    /\ mx \in Threads \cup {"none"} /\ set \in BOOLEAN
    /\ rc \in [Threads -> {"ok", "timeout", "einval"}]
    /\ wake \in [Threads -> {"none", "signal", "broadcast", "spurious", "timeout"}]
    /\ sig \in [Threads -> BOOLEAN]

(* No thread_type, tree or tree mutex is used after it was freed:         *)
(* thread_exit_c, thread_join, _start_routine and thread_shutdown each    *)
(* free an entry only the caller still reaches.                            *)
NoThreadUseAfterFree == ~uaf

(* While the tree exists, every entry in it is allocated and every thread *)
(* running its start routine finds itself with thread_self.               *)
ThreadTreeSound ==
    treeLive =>
        /\ \A t \in tree : mem[t] = "live"
        /\ \A t \in Threads : pc[t] \in Running => ThreadSelf(t) = t

(* The thread_type of a thread that is gone, and of every thread once    *)
(* thread_shutdown ran, has been freed.                                   *)
NoThreadLeak ==
    \A t \in Threads :
        mem[t] # "none" /\ (pc[t] = "finished" \/ ~treeLive) => mem[t] = "freed"

(* thread_cond_timedwait_c returns 0 only for a signal or broadcast sent *)
(* while it waited, never for a spurious wakeup or an earlier signal.    *)
NoSpuriousReturn ==
    \A t \in Threads : pc[t] = "returned" /\ rc[t] = "ok" => sig[t]

(* A waiter woken by a signal or broadcast returns from                  *)
(* thread_cond_timedwait_c rather than blocking again until its deadline. *)
WakeupNotLost ==
    \A t \in Threads : pc[t] = "waiting" => wake[t] \notin {"signal", "broadcast"}

(* thread_cond_timedwait_c returns by its deadline, however often it is  *)
(* woken without the flag set.                                            *)
TimedWaitReturns == \A t \in Threads : pc[t] = "waiting" ~> pc[t] = "returned"

(* Every deadline a caller builds with thread_time_add_ms lies exactly   *)
(* the delay after the time it started from, and pthread_cond_timedwait *)
(* accepts it: no timed wait in thread_cond_timedwait_c ends in EINVAL.  *)
TimeAddNormalised ==
    /\ \A t \in Threads : rc[t] # "einval"
    /\ \A ts \in TestTimes, v \in TestDelays : MsLater(ts, TimeAddMs(ts, v), v)
=============================================================================
