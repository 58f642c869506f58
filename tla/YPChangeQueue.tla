---------------------------- MODULE YPChangeQueue ----------------------------
(***************************************************************************)
(* The intake of directory notifications in src/yp.c: yp_add, yp_remove   *)
(* and yp_touch build a yp_change_t and hand it to yp_queue_change, which *)
(* appends it to yp_changes_head under yp_pending_lock and starts the     *)
(* "YP change" thread (yp_pending_update) unless yp_pending_thread says   *)
(* one is already running.  That thread detaches the whole list under the *)
(* mutex, drops the mutex, takes the registry write lock and runs the     *)
(* callbacks one by one, then re-takes the mutex to look for more.        *)
(*                                                                         *)
(* Every critical section of yp_pending_lock is one action, so the mutex  *)
(* is implicit.  A notification is identified by its position in "log";  *)
(* what its callback does to the registry, and when yp_lock is free for   *)
(* writing, is added by YPDirectory, which instantiates this module.      *)
(***************************************************************************)
EXTENDS Naturals, Sequences

CONSTANTS
    Kinds,          \* the callbacks: "add", "remove", "touch"
    Mounts,         \* mountpoint names
    MaxChanges,     \* bound on notifications accepted in one behaviour
    CreateMayFail   \* may thread_create of the "YP change" thread fail?

ASSUME MaxChanges \in Nat /\ CreateMayFail \in BOOLEAN

VARIABLES
    log,            \* every notification accepted, in acceptance order
    queue,          \* yp_changes_head: ids waiting for the drain thread
    batch,          \* the list the drain thread detached and is applying
    done,           \* ids whose yp_change_t the drain thread has consumed
    pendingThread,  \* yp_pending_thread
    drain,          \* where the drain thread is: "idle" (none), "lock"
                    \* (before thread_mutex_lock), "wlock" (waiting for
                    \* yp_lock), "apply" (holding yp_lock)
    running         \* global.running == ICE_RUNNING

queueVars == <<log, queue, batch, done, pendingThread, drain, running>>

Change == [kind : Kinds, mount : Mounts]
DrainPc == {"idle", "lock", "wlock", "apply"}

Init ==
    /\ log = <<>>
    /\ queue = <<>>
    /\ batch = <<>>
    /\ done = <<>>
    /\ pendingThread = FALSE
    /\ drain = "idle"
    /\ running = TRUE

-----------------------------------------------------------------------------
(* yp_queue_change, called by yp_add / yp_remove / yp_touch.  When the    *)
(* server is halting the change is freed and nothing else happens.        *)
(* Otherwise it is linked at the tail and, if no drain thread is flagged, *)
(* the flag is set and the thread created; thread_create may return NULL, *)
(* which the code does not look at.                                       *)
QueueChange(k, m) ==
    \/ /\ ~running
       /\ UNCHANGED queueVars
    \/ /\ running
       /\ Len(log) < MaxChanges
       /\ log' = Append(log, [kind |-> k, mount |-> m])
       /\ queue' = Append(queue, Len(log) + 1)
       /\ IF pendingThread
             THEN UNCHANGED <<pendingThread, drain>>
             ELSE /\ pendingThread' = TRUE
                  /\ \/ drain' = "lock"
                     \/ CreateMayFail /\ drain' = drain
       /\ UNCHANGED <<batch, done, running>>

(* yp_pending_update, after its sleep or after a batch: with the mutex    *)
(* held, detach a non-empty list, or clear the flag and exit.             *)
DrainCheck ==
    /\ drain = "lock"
    /\ IF queue # <<>>
          THEN /\ batch' = queue
               /\ queue' = <<>>
               /\ drain' = "wlock"
               /\ UNCHANGED pendingThread
          ELSE /\ pendingThread' = FALSE
               /\ drain' = "idle"
               /\ UNCHANGED <<batch, queue>>
    /\ UNCHANGED <<log, done, running>>

(* thread_rwlock_wlock (&yp_lock); alone, the lock is always free *)
DrainWLock ==
    /\ drain = "wlock"
    /\ drain' = "apply"
    /\ UNCHANGED <<log, queue, batch, done, pendingThread, running>>

(* Mutant: the inner loop takes the last change of the batch first. *)
DrainApplyLast ==
    /\ drain = "apply"
    /\ batch # <<>>
    /\ done' = Append(done, batch[Len(batch)])
    /\ batch' = SubSeq(batch, 1, Len(batch) - 1)
    /\ UNCHANGED <<log, queue, pendingThread, drain, running>>

(* One turn of the inner loop: unlink the head, run its callback, free it *)
DrainApply ==
    /\ drain = "apply"
    /\ batch # <<>>
    /\ done' = Append(done, Head(batch))
    /\ batch' = Tail(batch)
    /\ UNCHANGED <<log, queue, pendingThread, drain, running>>

(* List exhausted: unlock yp_lock and go back for the mutex *)
DrainUnlock ==
    /\ drain = "apply"
    /\ batch = <<>>
    /\ drain' = "lock"
    /\ UNCHANGED <<log, queue, batch, done, pendingThread, running>>

(* The host leaves ICE_RUNNING (outside src/, spec.md 5: notifications    *)
(* submitted after shutdown begins are dropped).                          *)
HostHalt ==
    /\ running
    /\ running' = FALSE
    /\ UNCHANGED <<log, queue, batch, done, pendingThread, drain>>

DrainStep == DrainCheck \/ DrainWLock \/ DrainApply \/ DrainUnlock

Next ==
    \/ \E k \in Kinds, m \in Mounts : QueueChange(k, m)
    \/ DrainStep
    \/ HostHalt

(* The drain thread is a detached pthread: each of its steps is taken     *)
(* once enabled.  The host's calls and the halt are not required.         *)
Fairness ==
    /\ WF_queueVars(DrainCheck)
    /\ WF_queueVars(DrainWLock)
    /\ WF_queueVars(DrainApply)
    /\ WF_queueVars(DrainUnlock)

Spec == Init /\ [][Next]_queueVars /\ Fairness

-----------------------------------------------------------------------------
TypeOK ==
    /\ log \in Seq(Change) /\ Len(log) <= MaxChanges
    /\ queue \in Seq(1..MaxChanges)
    /\ batch \in Seq(1..MaxChanges)
    /\ done \in Seq(1..MaxChanges)
    /\ pendingThread \in BOOLEAN
    /\ drain \in DrainPc
    /\ running \in BOOLEAN

(* No notification is stranded: whenever one is accepted, the drain      *)
(* thread eventually consumes it.  This is what the yp_pending_thread     *)
(* flag and the exit test under the same mutex must guarantee.           *)
NoLostChange ==
    \A n \in 1..MaxChanges : (Len(log) >= n) ~> (Len(done) >= n)

(* The queue with its drain thread implements the abstract FIFO: the     *)
(* pending notifications are the detached batch followed by the list.    *)
FIFO == INSTANCE ChangeFIFO WITH pending <- batch \o queue
FIFOSpec == FIFO!Spec
=============================================================================
