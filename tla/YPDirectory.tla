----------------------------- MODULE YPDirectory -----------------------------
(***************************************************************************)
(* The directory (YP) registration client of src/yp.c: the server         *)
(* registry (active_yps, pending_yps), every server's mount lists         *)
(* (mounts, pending_mounts), the change callbacks run by the drain thread  *)
(* of YPChangeQueue, the worker's directory_recheck, the "YP Thread" pass  *)
(* (yp_update_thread) and configuration reloads (yp_recheck_config).       *)
(*                                                                         *)
(* Locks.  yp_lock is a writer-preferring rwlock (thread.c).  Its holders  *)
(* are read off the program counters: the pass holds it for reading in pc  *)
(* "server"; the drain thread holds it for writing in "apply"; the pass's *)
(* cleanup takes it for writing in one action.  A writer waiting (drain   *)
(* "wlock", pass "wlock") blocks new readers.                             *)
(*                                                                         *)
(* Time.  next_update is abstracted to "due" (next_update <= now).         *)
(* yp_schedule(yp, 0) makes an entry due, a positive offset makes it not   *)
(* due, and Elapse lets time pass for one entry.  ypclient.counter, the    *)
(* earliest wake time, is "Never" ((uint64_t)-1), "Future" or "Due".       *)
(***************************************************************************)
EXTENDS Integers, Sequences, SequencesExt, FiniteSets

CONSTANTS
    Servers,          \* directory URLs
    Mounts,           \* mountpoints of the host
    Kinds,            \* change callbacks: "add", "remove", "touch"
    MaxChanges,       \* bound on notifications (YPChangeQueue)
    MaxReconfig,      \* bound on configuration reloads after yp_initialize
    InitConfig,       \* config->yp_url[] given to yp_initialize
    WithinLimit,      \* within_limit in yp_process_server (20 in the code)
    CreateMayFail,    \* may thread_create return NULL?
    CurlInitMayFail,  \* may curl_easy_init return NULL?
    SidMayBeMissing,  \* may an accepted add leave no SID (no header, or
                      \* its calloc failed)?
    EntryMayFail      \* may create_yp_entry return NULL?

Configs == {c \in BoundedSeq(Servers, Cardinality(Servers)) : IsInjective(c)}

ASSUME InitConfig \in Configs /\ WithinLimit \in Nat \ {0}
ASSUME CurlInitMayFail \in BOOLEAN /\ SidMayBeMissing \in BOOLEAN
ASSUME EntryMayFail \in BOOLEAN

VARIABLES
    \* YPChangeQueue
    log, queue, batch, done, pendingThread, drain, running,
    \* registry
    active,       \* active_yps, head first
    pendingSrv,   \* pending_yps, head first
    srvRemove,    \* server->remove
    mounts,       \* server->mounts, head first
    pendMounts,   \* server->pending_mounts, head first
    ypUpdate,     \* yp_update
    counter,      \* ypclient.counter
    client,       \* ypclient: times linked into the worker, CLIENT_ACTIVE
    connError,    \* ypclient.connection.error (set by yp_stop)
    pass,         \* the "YP Thread"
    \* environment and history
    public,       \* mounts whose source is yp_public (host source tree)
    configured,   \* URLs of the configuration last given
    reconfigs,    \* configuration reloads so far
    orphans,      \* <<server, mount>> still registered when the server
                  \* struct was destroyed
    initialised   \* yp_initialised

queueVars == <<log, queue, batch, done, pendingThread, drain, running>>
regVars == <<active, pendingSrv, srvRemove, mounts, pendMounts, ypUpdate,
             counter>>
vars == <<queueVars, regVars, client, connError, pass, public, configured,
          reconfigs, orphans, initialised>>

Q == INSTANCE YPChangeQueue

Procs == {"add", "touch", "remove"}
Entry == [mount : Mounts, proc : Procs, sid : BOOLEAN, release : BOOLEAN,
          remove : BOOLEAN, due : BOOLEAN]
PassPc == {"idle", "rlock", "server", "update", "wlock", "done"}

Live(e) == ~e.release /\ ~e.remove
(* create_yp_entry: a new entry for mount m in the add state (process =  *)
(* do_yp_add), without a SID, and not yet due: yp_schedule puts it      *)
(* adjust % 30 seconds ahead.                                            *)
CreateYPEntry(m) ==
    [mount |-> m, proc |-> "add", sid |-> FALSE, release |-> FALSE,
     remove |-> FALSE, due |-> FALSE]

(* The subsets of the servers in need for which create_yp_entry returns *)
(* an entry: with EntryMayFail its calloc, malloc or util_url_escape    *)
(* may fail, it frees what it made and returns NULL, and the caller     *)
(* skips that server.                                                    *)
Created(need) == IF EntryMayFail THEN SUBSET need ELSE {need}

HasMount(list, m) == \E i \in DOMAIN list : list[i].mount = m
ActiveSet == ToSet(active)
AllEntries(s) == mounts[s] \o pendMounts[s]

(* ypclient.counter after yp_schedule: an offset of 0 makes it due, a     *)
(* positive offset lowers "never" to a finite time.                       *)
Lowered(c, now) == IF now THEN "Due" ELSE IF c = "Never" THEN "Future" ELSE c

WriterWaitingOrHeld == drain \in {"wlock", "apply"} \/ pass.pc = "wlock"

-----------------------------------------------------------------------------
(* yp_recheck_config, as a function of the registry.  Active servers are *)
(* flagged for removal, then each configured URL either clears the flag  *)
(* of the server found by find_yp_server or becomes a new pending server *)
(* (pushed at the head).  A NULL from curl_easy_init at index "fail"     *)
(* breaks out of the loop.                                               *)
(* find_yp_server: the URL is on the active list or on the pending list. *)
FindYPServer(u, act, pend) == u \in ToSet(act) \/ u \in ToSet(pend)

NewPending(cfg, fail, act, pend) ==
    LET upto == SubSeq(cfg, 1, IF fail = 0 THEN Len(cfg) ELSE fail - 1)
    IN Reverse(SelectSeq(upto, LAMBDA s : ~FindYPServer(s, act, pend))) \o pend

(* Mutant: every active server stays flagged, found or not. *)
NewRemoveAll(cfg, fail, act, rem) ==
    [s \in Servers |-> IF s \in ToSet(act) THEN TRUE ELSE rem[s]]

NewRemove(cfg, fail, act, rem) ==
    LET upto == SubSeq(cfg, 1, IF fail = 0 THEN Len(cfg) ELSE fail - 1)
    IN [s \in Servers |-> IF s \in ToSet(act) THEN s \notin ToSet(upto)
                          ELSE IF s \in ToSet(upto) THEN FALSE ELSE rem[s]]

FailPoints(cfg, act, pend) ==
    {0} \cup {i \in DOMAIN cfg : CurlInitMayFail /\
                                 ~FindYPServer(cfg[i], act, pend)}

(* yp_initialize: yp_recheck_config on an empty registry (which links the *)
(* ypclient into a worker), then the empty change list.                  *)
Init ==
    /\ Q!Init
    /\ active = <<>>
    /\ \E fail \in FailPoints(InitConfig, <<>>, <<>>) :
          /\ pendingSrv = NewPending(InitConfig, fail, <<>>, <<>>)
          /\ srvRemove = NewRemove(InitConfig, fail, <<>>,
                                   [s \in Servers |-> FALSE])
    /\ mounts = [s \in Servers |-> <<>>]
    /\ pendMounts = [s \in Servers |-> <<>>]
    /\ ypUpdate = TRUE
    /\ counter = IF InitConfig # <<>> THEN "Due" ELSE "Never"
    /\ client = [linked |-> IF InitConfig # <<>> THEN 1 ELSE 0,
                 active |-> InitConfig # <<>>]
    /\ connError = FALSE
    /\ pass = [pc |-> "idle", srv |-> 1, pos |-> 1, error |-> 0, limit |-> 0]
    /\ public = {}
    /\ configured = ToSet(InitConfig)
    /\ reconfigs = 0
    /\ orphans = {}
    /\ initialised = TRUE

(* yp_client_add: with directories configured, none active yet and the  *)
(* server running, the ypclient is reset and linked into a worker.       *)
ClientAdd(cfg) ==
    IF cfg # <<>> /\ active = <<>> /\ running
       THEN /\ client' = [linked |-> client.linked + 1, active |-> TRUE]
            /\ counter' = "Due"
            /\ connError' = FALSE
       ELSE UNCHANGED <<client, counter, connError>>

(* yp_recheck_config under a read lock; yp_client_add links the ypclient *)
(* again whenever no server is active yet.                                *)
RecheckConfig(cfg, fail) ==
    /\ reconfigs < MaxReconfig
    /\ ~WriterWaitingOrHeld
    /\ fail \in FailPoints(cfg, active, pendingSrv)
    /\ pendingSrv' = NewPending(cfg, fail, active, pendingSrv)
    /\ srvRemove' = NewRemove(cfg, fail, active, srvRemove)
    /\ ypUpdate' = TRUE
    /\ ClientAdd(cfg)
    /\ configured' = ToSet(cfg)
    /\ reconfigs' = reconfigs + 1
    /\ UNCHANGED <<queueVars, active, mounts, pendMounts, pass, public,
                   orphans, initialised>>

-----------------------------------------------------------------------------
(* The change callbacks, run by the drain thread under the write lock.    *)

(* Mutant: yp_add_callback does not set yp_update. *)
AddCallbackNoUpdate(m) ==
    LET need == {s \in ActiveSet : ~HasMount(mounts[s], m)}
    IN \E made \in Created(need) :
         /\ pendMounts' = [s \in Servers |->
                IF s \in made THEN <<CreateYPEntry(m)>> \o pendMounts[s]
                ELSE pendMounts[s]]
         /\ ypUpdate' = ypUpdate
         /\ counter' = IF made # {} THEN Lowered(counter, FALSE) ELSE counter
         /\ UNCHANGED <<active, pendingSrv, srvRemove, mounts>>

(* yp_add_callback: a server whose active list has no entry of the mount *)
(* (whatever its flags) gets a new one at the head of pending_mounts,     *)
(* due in 60s; create_yp_entry's yp_schedule lowered the counter first.  *)
AddCallback(m) ==
    LET need == {s \in ActiveSet : ~HasMount(mounts[s], m)}
    IN \E made \in Created(need) :
         /\ pendMounts' = [s \in Servers |->
                IF s \in made THEN <<CreateYPEntry(m)>> \o pendMounts[s]
                ELSE pendMounts[s]]
         /\ ypUpdate' = (ypUpdate \/ made # {})
         /\ counter' = IF made # {} THEN Lowered(counter, FALSE) ELSE counter
         /\ UNCHANGED <<active, pendingSrv, srvRemove, mounts>>

(* yp_remove_callback: every live entry of the mount in an active list is *)
(* flagged release with next_update = 0.                                  *)
RemoveCallback(m) ==
    LET hit(e) == e.mount = m /\ Live(e)
        any == \E s \in ActiveSet : \E i \in DOMAIN mounts[s] : hit(mounts[s][i])
    IN /\ mounts' = [s \in Servers |->
              IF s \in ActiveSet
                 THEN [i \in DOMAIN mounts[s] |->
                         IF hit(mounts[s][i])
                            THEN [mounts[s][i] EXCEPT !.release = TRUE,
                                                      !.due = TRUE]
                            ELSE mounts[s][i]]
                 ELSE mounts[s]]
       /\ ypUpdate' = (ypUpdate \/ any)
       /\ UNCHANGED <<active, pendingSrv, srvRemove, pendMounts, counter>>

(* yp_touch_callback: the first live entry of the mount in each active    *)
(* list gets the new song; one in the touch state that is due more than  *)
(* 30s out is brought forward to now or to now+30 (the choice depends on *)
(* when it was last touched, which the abstract time leaves open).       *)
TouchCallback(m) ==
    LET first(s) == SelectInSeq(mounts[s], LAMBDA e : e.mount = m /\ Live(e))
        movable == {s \in ActiveSet : first(s) # 0
                       /\ mounts[s][first(s)].proc = "touch"
                       /\ ~mounts[s][first(s)].due}
    IN \E how \in [movable -> {"keep", "now", "soon"}] :
         /\ mounts' = [s \in Servers |->
                IF s \in movable /\ how[s] = "now"
                   THEN [mounts[s] EXCEPT ![first(s)].due = TRUE]
                   ELSE mounts[s]]
         /\ counter' = IF \E s \in movable : how[s] = "now" THEN "Due"
                       ELSE IF \E s \in movable : how[s] = "soon"
                               THEN Lowered(counter, FALSE)
                               ELSE counter
         /\ UNCHANGED <<active, pendingSrv, srvRemove, pendMounts, ypUpdate>>

(* One turn of yp_pending_update's inner loop: the callback runs only    *)
(* while ypclient.connection.error is clear.                              *)
DrainApply ==
    /\ Q!DrainApply
    /\ LET c == log[Head(batch)]
       IN IF connError THEN UNCHANGED regVars
          ELSE CASE c.kind = "add"    -> AddCallback(c.mount)
                 [] c.kind = "remove" -> RemoveCallback(c.mount)
                 [] c.kind = "touch"  -> TouchCallback(c.mount)
    /\ UNCHANGED <<client, connError, pass, public, configured, reconfigs,
                   orphans, initialised>>

(* thread_rwlock_wlock waits while the pass holds the read lock.         *)
DrainOther ==
    /\ \/ Q!DrainCheck
       \/ Q!DrainWLock /\ pass.pc # "server"
       \/ Q!DrainUnlock
    /\ UNCHANGED <<regVars, client, connError, pass, public, configured,
                   reconfigs, orphans, initialised>>

-----------------------------------------------------------------------------
(* The host: a source becoming public calls yp_add, one leaving calls    *)
(* yp_remove, new metadata calls yp_touch (source.c, outside src/).       *)
SourceUp(m) ==
    /\ m \notin public
    /\ public' = public \cup {m}
    /\ Q!QueueChange("add", m)
    /\ UNCHANGED <<regVars, client, connError, pass, configured, reconfigs,
                   orphans, initialised>>

SourceDown(m) ==
    /\ m \in public
    /\ public' = public \ {m}
    /\ Q!QueueChange("remove", m)
    /\ UNCHANGED <<regVars, client, connError, pass, configured, reconfigs,
                   orphans, initialised>>

SourceTouch(m) ==
    /\ m \in public
    /\ Q!QueueChange("touch", m)
    /\ UNCHANGED <<regVars, client, connError, pass, public, configured,
                   reconfigs, orphans, initialised>>

(* Time passes for one entry: its next_update is reached.                *)
Elapse(s, m) ==
    /\ \/ \E i \in DOMAIN mounts[s] :
             /\ mounts[s][i].mount = m /\ ~mounts[s][i].due
             /\ mounts' = [mounts EXCEPT ![s][i].due = TRUE]
             /\ UNCHANGED pendMounts
       \/ \E i \in DOMAIN pendMounts[s] :
             /\ pendMounts[s][i].mount = m /\ ~pendMounts[s][i].due
             /\ pendMounts' = [pendMounts EXCEPT ![s][i].due = TRUE]
             /\ UNCHANGED mounts
    /\ UNCHANGED <<queueVars, active, pendingSrv, srvRemove, ypUpdate, counter,
                   client, connError, pass, public, configured, reconfigs,
                   orphans, initialised>>

(* Time reaches ypclient.counter.                                          *)
CounterExpire ==
    /\ counter = "Future"
    /\ counter' = "Due"
    /\ UNCHANGED <<queueVars, active, pendingSrv, srvRemove, mounts,
                   pendMounts, ypUpdate, client, connError, pass, public,
                   configured, reconfigs, orphans, initialised>>
-----------------------------------------------------------------------------
(* Requests of one due entry (do_yp_remove, do_yp_add, do_yp_touch with   *)
(* send_to_yp).  Each yields the entry afterwards, the return value, and  *)
(* whether a positive yp_schedule lowered the counter.  The directory's  *)
(* answer is "transport" (curl_easy_perform failed), "rejected" (no      *)
(* "YPResponse: 1") or "accepted"; an accepted add carries a SID header. *)
Answers == {"transport", "rejected", "accepted"}
(* Mutant: the curl result code is passed up instead of -2 / -1 / 0. *)
RetCurlCode(a) == CASE a = "transport" -> 7 [] a = "rejected" -> -1 [] OTHER -> 0
Ret(a) == CASE a = "transport" -> -2 [] a = "rejected" -> -1 [] OTHER -> 0

Result(e, ret, later) == [e |-> e, ret |-> ret, later |-> later]

(* do_yp_remove: send "remove" only if a sid is held; either way the sid *)
(* is dropped, the entry flagged remove and yp_update set.  A transport  *)
(* failure has already rescheduled it 1200s out and made it an add.      *)
DoYPRemove(e) ==
    IF e.sid
       THEN {Result([e EXCEPT !.sid = FALSE, !.remove = TRUE, !.proc = "add",
                              !.due = (a # "transport" /\ e.due)],
                    Ret(a), a = "transport") : a \in Answers}
       ELSE {Result([e EXCEPT !.remove = TRUE, !.proc = "add"], 0, FALSE)}

(* response_header on an accepted add: a "SID:" header frees the old sid *)
(* and stores the new one, or none when its calloc fails; without the   *)
(* header the entry keeps what it had.                                   *)
AddAccepted(e) ==
    {[e EXCEPT !.sid = TRUE]}
        \cup (IF SidMayBeMissing THEN {e, [e EXCEPT !.sid = FALSE]} ELSE {})

(* do_yp_add: a missing name or a missing mandatory stat reschedules it   *)
(* 600s out without a request; otherwise the add is sent: rejected waits *)
(* 7200s and drops the sid, a transport failure waits 1200s, acceptance  *)
(* stores the SID and moves to touch, first touch in 5s.                 *)
DoYPAdd(e) ==
    {Result([e EXCEPT !.due = FALSE], 0, TRUE),
     Result([e EXCEPT !.due = FALSE], -1, TRUE),
     Result([e EXCEPT !.due = FALSE], -2, TRUE),
     Result([e EXCEPT !.due = FALSE, !.sid = FALSE], -1, TRUE)}
    \cup {Result([e1 EXCEPT !.due = FALSE, !.proc = "touch"], 0, TRUE) :
            e1 \in AddAccepted(e)}

(* Mutant: a rejected touch drops the sid but stays a touch. *)
DoYPTouchStayTouch(e) ==
    {Result([e EXCEPT !.due = FALSE, !.proc = "add"], -2, TRUE),
     Result([e EXCEPT !.due = FALSE, !.sid = FALSE], -1, TRUE),
     Result([e EXCEPT !.due = FALSE], 0, TRUE)}

(* do_yp_touch: without a sid it reschedules in 60s but still sends the  *)
(* touch.  Rejected: back to add, sid dropped, wait max(1200, interval); *)
(* transport failure: back to add keeping the sid, wait 1200s; accepted: *)
(* next touch after touch_interval.                                      *)
DoYPTouch(e) ==
    {Result([e EXCEPT !.due = FALSE, !.proc = "add"], -2, TRUE),
     Result([e EXCEPT !.due = FALSE, !.proc = "add", !.sid = FALSE], -1, TRUE),
     Result([e EXCEPT !.due = FALSE], 0, TRUE)}

(* Mutant: the release flag is not looked at. *)
ProcessYPDataIgnoreRelease(e) ==
    CASE e.proc = "remove" -> DoYPRemove(e)
      [] e.proc = "add"    -> DoYPAdd(e)
      [] e.proc = "touch"  -> DoYPTouch(e)

(* process_ypdata for a due entry: a released entry is switched to        *)
(* do_yp_remove and rescheduled at 0 before its handler runs.             *)
ProcessYPData(e) ==
    LET e1 == IF e.release THEN [e EXCEPT !.proc = "remove", !.due = TRUE]
              ELSE e
    IN CASE e1.proc = "remove" -> DoYPRemove(e1)
         [] e1.proc = "add"    -> DoYPAdd(e1)
         [] e1.proc = "touch"  -> DoYPTouch(e1)

(* The counter after visiting entry e (yp_process_server line 666).     *)
VisitCounter(c, e) ==
    IF e.remove THEN c
    ELSE IF e.due THEN "Due" ELSE IF c = "Never" THEN "Future" ELSE c

-----------------------------------------------------------------------------
(* directory_recheck, called by the worker while the ypclient is linked  *)
(* and CLIENT_ACTIVE.  Only a successful tryrlock does anything; a       *)
(* deferral or a plain reschedule changes no state.  It returns -1, and  *)
(* the worker unlinks the client, on connection.error or when there is   *)
(* neither an active server nor yp_update.  It starts the YP Thread when *)
(* yp_update is set, or the FIRST active server has mounts and the       *)
(* counter is due.                                                       *)
DirectoryRecheck ==
    /\ client.linked > 0 /\ client.active
    /\ ~WriterWaitingOrHeld
    /\ \/ /\ connError \/ (active = <<>> /\ ~ypUpdate)
          /\ client' = [client EXCEPT !.linked = @ - 1]
          /\ UNCHANGED <<counter, pass>>
       \/ /\ ~connError
          /\ \/ ypUpdate
             \/ active # <<>> /\ mounts[Head(active)] # <<>> /\ counter = "Due"
          /\ pass.pc = "idle"
          /\ counter' = "Never"
          /\ client' = [client EXCEPT !.active = FALSE]
          /\ \/ pass' = [pass EXCEPT !.pc = "rlock"]
             \/ CreateMayFail /\ UNCHANGED pass
    /\ UNCHANGED <<queueVars, active, pendingSrv, srvRemove, mounts,
                   pendMounts, ypUpdate, connError, public, configured,
                   reconfigs, orphans, initialised>>

(* yp_update_thread: thread_rwlock_rlock, blocked by a waiting writer.    *)
PassRLock ==
    /\ pass.pc = "rlock"
    /\ ~WriterWaitingOrHeld
    /\ pass' = [pc |-> "server", srv |-> 1, pos |-> 1, error |-> 0,
                limit |-> WithinLimit]
    /\ UNCHANGED <<queueVars, regVars, client, connError, public, configured,
                   reconfigs, orphans, initialised>>

(* One turn of yp_process_server's loop.  After a -2 every later entry is *)
(* made an add and pushed 30..89s out; otherwise the first WithinLimit   *)
(* entries are looked at, due ones processed, and "error" keeps the last *)
(* process_ypdata result.  Every entry then lowers the counter.          *)
PassVisit ==
    /\ pass.pc = "server"
    /\ pass.srv <= Len(active)
    /\ LET s == active[pass.srv]
           e == mounts[s][pass.pos]
       IN /\ pass.pos <= Len(mounts[s])
          /\ \/ /\ pass.error = -2
                /\ LET e1 == [e EXCEPT !.proc = "add", !.due = FALSE]
                   IN /\ mounts' = [mounts EXCEPT ![s][pass.pos] = e1]
                      /\ counter' = VisitCounter(Lowered(counter, FALSE), e1)
                /\ pass' = [pass EXCEPT !.pos = @ + 1]
                /\ UNCHANGED ypUpdate
             \/ /\ pass.error # -2 /\ pass.limit > 0 /\ e.due
                /\ \E r \in ProcessYPData(e) :
                      /\ mounts' = [mounts EXCEPT ![s][pass.pos] = r.e]
                      /\ counter' = VisitCounter(Lowered(Lowered(counter,
                                        e.release), r.later), r.e)
                      /\ ypUpdate' = (ypUpdate \/ r.e.remove)
                      /\ pass' = [pass EXCEPT !.pos = @ + 1, !.error = r.ret,
                                              !.limit = @ - 1]
             \/ /\ pass.error # -2 /\ ~(pass.limit > 0 /\ e.due)
                /\ counter' = VisitCounter(counter, e)
                /\ pass' = [pass EXCEPT !.pos = @ + 1,
                                        !.limit = IF @ > 0 THEN @ - 1 ELSE 0]
                /\ UNCHANGED <<mounts, ypUpdate>>
    /\ UNCHANGED <<queueVars, active, pendingSrv, srvRemove, pendMounts,
                   client, connError, public, configured, reconfigs, orphans, initialised>>

(* End of one server's list: the next server starts with error 0 and a   *)
(* fresh within_limit; after the last one the read lock is released.     *)
PassNextServer ==
    /\ pass.pc = "server"
    /\ IF pass.srv <= Len(active)
          THEN /\ pass.pos > Len(mounts[active[pass.srv]])
               /\ pass' = [pass EXCEPT !.srv = @ + 1, !.pos = 1, !.error = 0,
                                       !.limit = WithinLimit]
          ELSE pass' = [pass EXCEPT !.pc = "update"]
    /\ UNCHANGED <<queueVars, regVars, client, connError, public, configured,
                   reconfigs, orphans, initialised>>

(* "if (yp_update)" is read with no lock held.                            *)
PassCheckUpdate ==
    /\ pass.pc = "update"
    /\ pass' = [pass EXCEPT !.pc = IF ypUpdate THEN "wlock" ELSE "done"]
    /\ UNCHANGED <<queueVars, regVars, client, connError, public, configured,
                   reconfigs, orphans, initialised>>

(* Mutant: the head of the list is never unlinked (server->mounts is not *)
(* updated when the first entry goes).                                   *)
DeleteMarkedKeepHead(l) ==
    IF l = <<>> THEN <<>>
    ELSE <<Head(l)>> \o SelectSeq(Tail(l), LAMBDA e : ~e.remove)

(* delete_marked_yp: unlink and free every entry flagged remove. *)
RECURSIVE DeleteMarked(_)
DeleteMarked(l) ==
    IF l = <<>> THEN <<>>
    ELSE IF Head(l).remove THEN DeleteMarked(Tail(l))
         ELSE <<Head(l)>> \o DeleteMarked(Tail(l))

(* Under the write lock: check_servers destroys flagged servers (with    *)
(* whatever lists they still hold) and activates every pending server,   *)
(* giving it an entry for each public source; then each active server's  *)
(* pending_mounts are spliced in front of its mounts (add_pending_yp)    *)
(* and entries flagged remove unlinked (delete_marked_yp).               *)
(* destroy_yp_server only warns about the lists the server still holds: *)
(* the entries on them that hold a SID stay registered with the          *)
(* directory, and nothing will ever deregister them.                     *)
DestroyYPServer(s) ==
    {<<s, e.mount>> : e \in {x \in ToSet(AllEntries(s)) : x.sid}}

PassCleanup ==
    /\ pass.pc = "wlock"
    /\ drain # "apply"
    /\ LET gone == {s \in ActiveSet : srvRemove[s]}
           fresh == ToSet(pendingSrv)
           active1 == Reverse(pendingSrv) \o SelectSeq(active,
                                                 LAMBDA s : ~srvRemove[s])
       IN \E made \in Created(fresh \X public) :
          LET seeded(s) == LET ms == {x \in public : <<s, x>> \in made}
                           IN [i \in 1..Cardinality(ms) |->
                                 CreateYPEntry(SetToSeq(ms)[i])]
              list1(s) == IF s \in gone THEN <<>>
                          ELSE IF s \in fresh THEN seeded(s) ELSE mounts[s]
              spliced(s) == pendMounts[s] \o list1(s)
          IN
          /\ active' = active1
          /\ pendingSrv' = <<>>
          /\ mounts' = [s \in Servers |->
                          IF s \in ToSet(active1)
                             THEN DeleteMarked(spliced(s))
                             ELSE list1(s)]
          /\ pendMounts' = [s \in Servers |->
                              IF s \in ToSet(active1) \cup gone THEN <<>>
                              ELSE pendMounts[s]]
          /\ srvRemove' = [s \in Servers |-> IF s \in gone THEN FALSE
                                             ELSE srvRemove[s]]
          /\ counter' = IF \E s \in ToSet(active1) : pendMounts[s] # <<>>
                           THEN "Due"
                           ELSE IF made # {}
                                   THEN Lowered(counter, FALSE)
                                   ELSE counter
          /\ orphans' = orphans \cup UNION {DestroyYPServer(s) : s \in gone}
    /\ ypUpdate' = FALSE
    /\ pass' = [pass EXCEPT !.pc = "done"]
    /\ UNCHANGED <<queueVars, client, connError, public, configured,
                   reconfigs, initialised>>

(* Mutant: the thread ends without setting CLIENT_ACTIVE again. *)
PassFinishKeepInactive ==
    /\ pass.pc = "done"
    /\ pass' = [pass EXCEPT !.pc = "idle"]
    /\ UNCHANGED <<queueVars, regVars, client, connError, public, configured,
                   reconfigs, orphans, initialised>>

(* End of yp_update_thread: CLIENT_ACTIVE again and the worker woken.     *)
PassFinish ==
    /\ pass.pc = "done"
    /\ pass' = [pass EXCEPT !.pc = "idle"]
    /\ client' = [client EXCEPT !.active = TRUE]
    /\ UNCHANGED <<queueVars, regVars, connError, public, configured,
                   reconfigs, orphans, initialised>>

PassStep == PassRLock \/ PassVisit \/ PassNextServer \/ PassCheckUpdate
            \/ PassCleanup \/ PassFinish

-----------------------------------------------------------------------------
HostHalt ==
    /\ Q!HostHalt
    /\ UNCHANGED <<regVars, client, connError, pass, public, configured,
                   reconfigs, orphans, initialised>>

(* yp_stop: connection.error set, so no callback runs and the next       *)
(* directory_recheck unlinks the client.                                  *)
YPStop ==
    /\ ~running /\ ~connError
    /\ connError' = TRUE
    /\ UNCHANGED <<queueVars, regVars, client, pass, public, configured,
                   reconfigs, orphans, initialised>>

(* yp_shutdown, called by the host after yp_stop (which only sleeps     *)
(* 60 ms when a drain thread is pending): destroy the locks, free every *)
(* active server with its lists, clear yp_initialised.  Nothing waits    *)
(* for a YP Thread in its pass or a drain thread still applying changes. *)
YPShutdown ==
    /\ initialised /\ connError
    /\ active' = <<>>
    /\ mounts' = [s \in Servers |-> IF s \in ActiveSet THEN <<>> ELSE mounts[s]]
    /\ pendMounts' = [s \in Servers |->
                        IF s \in ActiveSet THEN <<>> ELSE pendMounts[s]]
    /\ initialised' = FALSE
    /\ UNCHANGED <<queueVars, pendingSrv, srvRemove, ypUpdate, counter, client,
                   connError, pass, public, configured, reconfigs, orphans>>

Next ==
    \/ \E cfg \in Configs, fail \in 0..Cardinality(Servers) :
          RecheckConfig(cfg, fail)
    \/ \E m \in Mounts : SourceUp(m) \/ SourceDown(m) \/ SourceTouch(m)
    \/ DrainApply \/ DrainOther
    \/ DirectoryRecheck \/ PassStep
    \/ \E s \in Servers, m \in Mounts : Elapse(s, m)
    \/ CounterExpire
    \/ HostHalt \/ YPStop \/ YPShutdown

(* Fairness.  The worker keeps calling directory_recheck while the client *)
(* is active, the two threads run, and time advances.  The directory     *)
(* answers eventually: a visit that is not a transport failure cannot be *)
(* refused forever.                                                      *)
Fairness ==
    /\ WF_vars(DrainApply) /\ WF_vars(DrainOther)
    /\ WF_vars(DirectoryRecheck)
    /\ WF_vars(PassRLock) /\ WF_vars(PassNextServer)
    /\ WF_vars(PassCheckUpdate) /\ WF_vars(PassCleanup) /\ WF_vars(PassFinish)
    /\ WF_vars(PassVisit)
    /\ SF_vars(PassVisit /\ pass'.error # -2)
    /\ WF_vars(CounterExpire)
    /\ \A s \in Servers, m \in Mounts : WF_vars(Elapse(s, m))

Spec == Init /\ [][Next]_vars /\ Fairness

-----------------------------------------------------------------------------
LiveMounts(s) == {e.mount : e \in {x \in ToSet(AllEntries(s)) : Live(x)}}
LiveCount(s, m) ==
    Cardinality({i \in DOMAIN AllEntries(s) :
                    AllEntries(s)[i].mount = m /\ Live(AllEntries(s)[i])})

TypeOK ==
    /\ Q!TypeOK
    /\ active \in Seq(Servers) /\ pendingSrv \in Seq(Servers)
    /\ srvRemove \in [Servers -> BOOLEAN]
    /\ mounts \in [Servers -> Seq(Entry)]
    /\ pendMounts \in [Servers -> Seq(Entry)]
    /\ ypUpdate \in BOOLEAN
    /\ counter \in {"Never", "Future", "Due"}
    /\ client \in [linked : Nat, active : BOOLEAN]
    /\ connError \in BOOLEAN
    /\ pass \in [pc : PassPc, srv : Nat, pos : Nat, error : {-2, -1, 0},
                 limit : 0..WithinLimit]
    /\ public \subseteq Mounts
    /\ configured \subseteq Servers
    /\ orphans \subseteq Servers \X Mounts
    /\ initialised \in BOOLEAN

(* Single flight: CLIENT_ACTIVE is only set when no YP Thread runs, and  *)
(* the ypclient is linked into the worker at most once, so               *)
(* directory_recheck can never start a second pass over the same curl    *)
(* handles while one is in flight.                                       *)
SinglePass ==
    /\ client.active => pass.pc = "idle"
    /\ client.linked <= 1

(* Between passes no entry flagged remove is still linked: whatever       *)
(* do_yp_remove flagged was unlinked by delete_marked_yp in the same     *)
(* pass, so it is never processed (and re-added) again.                  *)
RemovedUnlinkedByPass ==
    pass.pc \in {"idle", "rlock"} =>
        \A s \in Servers : \A i \in DOMAIN mounts[s] : ~mounts[s][i].remove

(* A directory never lists a mount twice: each active server has at most *)
(* one live entry (not released, not removed) per mount across its       *)
(* active and pending lists (spec.md 4.3: duplicate Adds are no-ops).    *)
OneLiveEntry ==
    \A s \in ActiveSet, m \in Mounts : LiveCount(s, m) <= 1

(* A server struct is only destroyed once nothing it registered is left: *)
(* no mount still holding a sid goes with it (spec.md 4.1 ApplyPending). *)
NoOrphanedListing == orphans = {}

(* An entry released by yp_remove_callback is eventually deregistered    *)
(* and unlinked, unless shutdown begins first (yp_stop then abandons     *)
(* the directories, spec.md 5).                                          *)
ReleasedEventuallyUnlinked ==
    \A s \in Servers, m \in Mounts :
        (\E i \in DOMAIN mounts[s] : mounts[s][i].mount = m /\ mounts[s][i].release)
            ~> \/ ~running
               \/ ~\E i \in DOMAIN mounts[s] : mounts[s][i].mount = m
                                            /\ mounts[s][i].release

(* An entry queued on pending_mounts is eventually spliced into the      *)
(* active list that the pass walks, unless shutdown begins first.        *)
PendingEventuallySpliced ==
    \A s \in Servers : pendMounts[s] # <<>> ~> (~running \/ pendMounts[s] = <<>>)

(* A mount whose source is public is eventually listed by every active  *)
(* directory (a live entry exists for it), unless it is withdrawn again *)
(* or shutdown begins: yp_add must not be lost behind an earlier         *)
(* yp_remove of the same mount.                                          *)
PublicEventuallyListed ==
    \A m \in Mounts :
        m \in public ~> \/ m \notin public \/ ~running
                       \/ \A s \in ActiveSet : m \in LiveMounts(s)

(* A mount whose source has gone is eventually unlisted everywhere,     *)
(* unless it becomes public again or shutdown begins: yp_remove must not *)
(* be lost behind an earlier yp_add that is still on pending_mounts.     *)
WithdrawnEventuallyUnlisted ==
    \A m \in Mounts :
        m \notin public ~> \/ m \in public \/ ~running
                          \/ \A s \in ActiveSet : m \notin LiveMounts(s)

(* The set of directory servers ends up equal to the configured URLs    *)
(* (spec.md 8, first testable property).                                *)
ServersMatchConfig ==
    <>[](ToSet(active) \cup ToSet(pendingSrv) = configured)

(* A reload that still names a server never causes an active server to  *)
(* be destroyed: check_servers only frees servers that                  *)
(* yp_recheck_config left flagged, and it clears the flag of every      *)
(* server the new configuration names.  (yp_shutdown frees them all.)   *)
ConfiguredServerKept ==
    [][initialised' =>
         \A s \in ActiveSet : s \in configured' => s \in ToSet(active')]_vars

(* An entry in the touch state holds a sid: every path that leaves an   *)
(* entry without one (a rejected add or touch, a remove) also makes it  *)
(* an add, so touches always name the listing they refresh.             *)
TouchHasSid ==
    \A s \in Servers : \A i \in DOMAIN AllEntries(s) :
        AllEntries(s)[i].proc = "touch" => AllEntries(s)[i].sid

(* An entry left in the touch state without a sid is eventually made an  *)
(* add again and re-registered (the intent of do_yp_touch's "odd case,  *)
(* go back to add"), unless shutdown begins.                             *)
SidlessTouchReAdded ==
    \A s \in Servers, m \in Mounts :
        LET sidless == \E i \in DOMAIN mounts[s] :
                          /\ mounts[s][i].mount = m
                          /\ mounts[s][i].proc = "touch" /\ ~mounts[s][i].sid
        IN sidless ~> (~sidless \/ ~running)

(* yp_shutdown frees the servers, their curl handles and mount lists and *)
(* destroys yp_lock and yp_pending_lock only once neither a YP Thread    *)
(* nor a drain thread still uses them (spec.md 5: outstanding background *)
(* tasks are allowed to finish).                                          *)
ShutdownAfterTasks == ~initialised => pass.pc = "idle" /\ ~pendingThread

(* directory_recheck clears CLIENT_ACTIVE when it hands the directories  *)
(* to a YP Thread; the client always becomes active again (the thread   *)
(* sets it when it ends), so later changes are still processed, unless  *)
(* shutdown begins.                                                      *)
ClientReactivated == ~client.active ~> (client.active \/ ~running)

(* Every entry on a server's active list that is due is eventually      *)
(* processed by a pass (or unlinked), however many mounts the server   *)
(* lists, unless shutdown begins: within_limit only spreads the work of *)
(* a long list over several passes.                                     *)
DueEntryEventuallyVisited ==
    \A s \in Servers, m \in Mounts :
        LET dueOn == \E i \in DOMAIN mounts[s] :
                        mounts[s][i].mount = m /\ mounts[s][i].due
        IN dueOn ~> (~dueOn \/ ~running)

=============================================================================
