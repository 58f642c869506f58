# TLA+ models of icecast-kh: the directory (YP) client, thread library, buffers, allocation accounting, throttle and Kate codec

This directory holds TLA+ models of the sources under `src/src`:
- `yp.c`, the code that registers public mountpoints with directory ("YP")
  servers, with the parts of `thread/thread.c` it depends on;
- `thread/thread.c`, the thread tree, the library's mutex wrappers and the
  condition variable with its timed wait;
- `refbuf.c`, the reference-counted buffers;
- `global.c`, its `MY_ALLOC` allocation accounting and its send throttle;
- `format_kate.c`, the Ogg Kate header handling.

It has TLC configurations that check the models, and `PROJECT.json`, which
lists the components, runs, mutants, the definition-to-source map, findings
and hazards.

## 1. The system (inventory)

| Part | Source | State it keeps | Operations |
|---|---|---|---|
| Change queue | yp.c 1099-1208 | `yp_changes_head` (a list of `yp_change_t`), the `yp_pending_thread` flag, and the `yp_pending_lock` mutex | `yp_add`, `yp_remove` and `yp_touch` build a change. `yp_queue_change` appends it and starts the "YP change" thread. `yp_pending_update` detaches the list, takes `yp_lock` for writing and runs the callbacks |
| Registry callbacks | yp.c 990-1096 | per server: `mounts` and `pending_mounts` (lists of `ypdata_t`) and `yp_update` | `yp_add_callback` pushes a new entry onto `pending_mounts`. `yp_remove_callback` flags live entries `release`. `yp_touch_callback` stores the song and may pull the next touch forward |
| Server registry / config | yp.c 189-371 | `active_yps`, `pending_yps`, `server->remove` | `yp_initialize`, `yp_recheck_config`, `yp_client_add`, `find_yp_server` |
| Scheduler hook | yp.c 235-265 | `ypclient` (a static client): `counter` (earliest wake), `CLIENT_ACTIVE`, `connection.error` | `directory_recheck`, called by a worker: a tryrlock, then it may start the "YP Thread" |
| Update pass | yp.c 379-881 | the entries' `process` (add/touch/remove), `sid`, `next_update`, `release`, `remove` | `yp_update_thread`, `yp_process_server` (per-server loop, the `error == -2` back-off, `within_limit`), `process_ypdata`, `do_yp_add/touch/remove` with `send_to_yp`, and `check_servers`, `add_pending_yp`, `delete_marked_yp` under the write lock |
| Shutdown | yp.c 1211-1252 | `connection.error`, `yp_initialised` | `yp_stop` (stops callbacks and the client, waits 60 ms), `yp_shutdown` (destroys locks and servers) |
| Locks and threads | thread/thread.c | pthread rwlock created writer-preferring (`PTHREAD_RWLOCK_WRITER_NONRECURSIVE_INITIALIZER_NP`); the AVL tree of `thread_type`s under `_threadtree_mutex`; `cond_t` with its `set` flag | `thread_rwlock_tryrlock/rlock/wlock/unlock`, `thread_initialize`, `thread_create` (may return NULL), `_start_routine`, `thread_self`, `thread_exit`, `thread_join`, `thread_shutdown`, `thread_cond_signal/broadcast/timedwait`, `thread_time_add_ms` |
| Bitrate attribute | yp.c 459-547, 930-988 | `yp->bitrate` (a string, `""` at creation) | `do_yp_add` copies the `bitrate` stat, or `set_bitrate_from_inrate` derives it from `incoming_bitrate`. `add_yp_info` stores it. The request goes out only when the mandatory fields are non-empty |
| Buffers | refbuf.c | `_count`, `next`, `associated` of each `refbuf_t` | `refbuf_new`, `refbuf_addref`, `refbuf_release` (with `refbuf_release_associated`), `refbuf_copy_default` |
| Allocation accounting | global.c 107-201 (`MY_ALLOC`) | `global.alloc_tree` of `alloc_node`s (count, bytes) per call site; an `allocheader` per block | `my_calloc`, `my_free`, `my_realloc`, `my_strdup` |
| Rate throttle | global.c 70-96 | `global.max_rate`, `throttle_sends`, the average of `global.out_bitrate` | `global_getrate_avg`; `global_add_bitrates` and `global_reduce_bitrate_sampling` move the average |
| Kate codec | format_kate.c | `codec->os`, `codec->headers`, `kate->num_headers`, `headers_done`, `ogg_info->error` | `initial_kate_page`, `process_kate_page`, both with and without libkate |

**How the parts interact.** The host calls `yp_add`, `yp_remove` and `yp_touch`
from source threads. These only append to the change queue. The drain thread
is the only place where the callbacks mutate the registry, and it does so under
the write lock. The worker calls `directory_recheck`. When an update is pending,
or the first active server has mounts and the counter is due, it clears
`CLIENT_ACTIVE` and starts the YP Thread. That thread walks every active server
under a read lock and sends the requests. It then reads `yp_update` *without a
lock*. If the flag is set, it takes the write lock to retire flagged servers,
activate pending ones, splice in `pending_mounts` and unlink removed entries.
Finally it sets `CLIENT_ACTIVE` again. `yp_recheck_config` runs on a reload
under a read lock. It flags servers, pushes new ones on `pending_yps` and links
the ypclient into a worker if no server is active yet.

**Hard behaviours.** These are the things a unit test would hardly reach:
- the drain thread drops the mutex while it applies a batch;
- a callback can run between the pass's read section and its write section;
- a writer waiting on the writer-preferring lock makes the recheck's
  tryrlock fail;
- reloads can arrive while a pass runs;
- Add, Remove and Add of one mount can fall between two passes;
- a transport failure skips the rest of a server's entries;
- `thread_create` and `curl_easy_init` can fail;
- shutdown does not join the threads.

## 2. Modules

| Module | Models | Notes |
|---|---|---|
| `ChangeFIFO` | the abstract promise of the change queue: every accepted notification is consumed once, in acceptance order | abstract specification |
| `YPChangeQueue` | `yp_queue_change` and `yp_pending_update`. Each critical section of `yp_pending_lock` is one action, so the mutex is implicit. The drain thread's steps (`DrainCheck`, `DrainWLock`, `DrainApply`, `DrainUnlock`) are separate actions, so notifications interleave with them | refines `ChangeFIFO` with `pending <- batch \o queue` (`FIFOSpec`) |
| `YPDirectory` | the whole directory client. It composes `YPChangeQueue` (`Q == INSTANCE YPChangeQueue`) and conjoins the callback effect to `Q!DrainApply` | lock holders are derived from the program counters |
| `RefBuf` | refbuf.c. `Release` and `ReleaseAssociated` are mutually recursive operators over a record of the counts, links and states, exactly as the C functions recurse; `RefbufRelease` applies one call. Callers are the environment: they hold references (`held`), and `Associate` appends a buffer they solely own to another's associated list | freed buffers are never reused, so a pointer to one is recognisably dangling |
| `MyAlloc` | global.c's `MY_ALLOC` wrappers. Each call runs under the tree's write lock, so it is one action. libc's calloc/realloc may fail (`MallocMayFail`); a NULL dereference sets `crashed` | `MyRealloc` covers its NULL, size-0 and resize forms |
| `GlobalThrottle` | `global_getrate_avg`: `Ratio` is the C integer division, `NewThrottle` the threshold cascade. `load` is what `rate_avg` returns now; the senders' traffic (`AddBitrates`) and reloads of `max_rate` are the environment | `GlobalGetrateAvg` reads `load`, so a call that changes nothing is a stutter step |
| `GlobalState` | global.c as one process: `INSTANCE`s of `MyAlloc` and `GlobalThrottle` whose steps interleave. `AllocCall` is any allocation the server makes, turned into a `my_*` call by global.h's `MY_ALLOC` macros; `GetrateAvg` the periodic throttle update, which stops when the process has crashed | composition; the two parts share no variable |
| `ThreadLib` | thread.c for two created threads and the main thread. Lifecycle: `ThreadCreate` (detached or joinable), `StartRoutine` (the avl_insert of `_start_routine`), `BodyReturn`, `ThreadExit`, `ThreadJoin`, `ThreadShutdown`, with `FreeThread` for `avl_delete` + `_free_thread` and `ThreadSelf` for `thread_self`. Condition variable: `MutexLock`, `TimedWaitEnter` (with the caller's deadline from `thread_time_add_ms`), `Signal`, `Broadcast`, `Reacquire` (the re-wait loop), `MutexUnlock`; `Spurious` and `Timeout` are pthread's | `mem` records each `thread_type` as none, live or freed, and `uaf` that a freed one was used |
| `KateCodec` | format_kate.c for one logical stream. `PacketLoop` is a recursive operator running `KatePacket` (libkate build) or `RawPacket` (raw build) over the packets in `codec->os`; `ProcessKatePage` then routes the page (attached, queued, error, or dropped when the handler returns NULL). The client sends the BOS page, the headers, data and, with `Malformed`, a corrupt page or a short ID header | libkate's `kate_ogg_decode_headerin` is `HeaderIn`. `KateCodecFree` is `kate_codec_free`, called by the Ogg layer at any time once the codec exists |
| `YPBitrate` | the bitrate attribute of `do_yp_add`. `InrateKbit` is `set_bitrate_from_inrate`'s arithmetic: `Margined` is `(long)(v*1.1) + 5`, and the RECURSIVE `Shifted` is the shift loop with its shift-back. `DoYPAddDeclared` and `DoYPAddMeasured` are the two branches of `do_yp_add`; each includes `add_yp_info` (NULL stat, escape failure) and the mandatory check and send (`SendAdd`) | see "Bitrate readings" below |
| `MC_YPChangeQueue`, `MC_YPDirectory`, `MC_RefBuf`, `MC_MyAlloc`, `MC_GlobalState`, `MC_YPBitrate` | model values and constant definitions for TLC | |

**State in `YPDirectory`.**
- Lists are sequences, head first, as in the C linked lists: `active`,
  `pendingSrv`, `mounts[s]`, `pendMounts[s]`.
- An entry is a record `[mount, proc, sid, release, remove, due]`. `sid` says
  whether a SID is held, and `due` says whether `now >= next_update`.
- Time is abstract. `Elapse(s, m)` makes an entry due.
- `counter` is "Never" (`(uint64_t)-1`), "Future" or "Due". `CounterExpire`
  lets a future counter come due. `Lowered` is `yp_schedule`.
- `client` records how many times the static ypclient has been linked into a
  worker, and `CLIENT_ACTIVE`.
- `pass` is the YP Thread's program counter (idle, rlock, server, update,
  wlock, done), with the server index, entry index, `error` and
  `within_limit`.

**History variables** (used only by properties):
- `public` is the set of public mounts, as the host sees them;
- `configured` is the last configuration;
- `orphans` holds the `<<server, mount>>` pairs destroyed while still
  registered.

**Locks.**
- The read lock is held by the pass in pc "server".
- The write lock is held by the drain thread in "apply" and by the pass in
  `PassCleanup`.
- `WriterWaitingOrHeld` is true while the drain thread is in "wlock" or
  "apply", or the pass is in "wlock". When it is true, `DirectoryRecheck`
  (tryrlock), `RecheckConfig` and `PassRLock` are disabled. This follows the
  writer-preferring lock that thread.c creates.
- The drain thread's `DrainWLock` is disabled while the pass holds the read
  lock. `PassCleanup` is disabled while the drain thread applies.

**Shutdown.** `YPStop` sets `connection.error`; `YPShutdown` (enabled once
that is done) empties `active` and the servers' lists and clears
`initialised`, as `yp_shutdown` does, without waiting for the YP Thread or the
drain thread, because the code does not.

**State in `ThreadLib`.** `pc` is each thread's place: none, starting
(created, not yet in the tree), body, and for the wait locked, waiting,
woken, returned; then exited (joinable, awaiting `thread_join`) or finished.
`tree` and `treeLive` are the thread tree and whether `thread_shutdown` has
destroyed it. For the condition variable, `mx` is the mutex holder, `set`
is `cond->set`, and per thread `rc` is the timed wait's result, `wake`
what woke it and `sig` whether a signal arrived while it was in the wait
(a history variable). The main thread is the caller of `ThreadCreate`,
`ThreadJoin`, `ThreadShutdown`, `Signal` and `Broadcast`.

**Directory answers.** Each request's outcome (transport failure, rejected,
accepted) is a nondeterministic choice in `DoYPRemove`, `DoYPAdd` and
`DoYPTouch`. `Ret` gives `send_to_yp`'s return code. The missing-stats path of
`do_yp_add` is one more outcome. With `SidMayBeMissing`, an accepted add may
come back without a usable SID (`AddAccepted`): no SID header, or its calloc
failing after `response_header` freed the old sid.

**Entry creation.** `CreateYPEntry` is `create_yp_entry`: an entry in the
add state, without a SID, not yet due. With `EntryMayFail`, `Created` lets
any of the servers in need get no entry, as when one of its allocations
fails. Both callers, `yp_add_callback` and `check_servers`, then skip the
server, and `yp_update` and the counter move only for the entries made.

**Bitrate readings.**
- `nominal` is the stream's rate in kbit/s. The declared `bitrate` stat, when present, is that rate.
- `inrate` is the last `incoming_bitrate` reading, taken as bit/s. spec.md calls it a byte-rate, but the /1024 kbit conversion only makes sense for bits.
- Successive readings differ by `Step` bit/s and cover `Span` percent around the nominal rate. With `Step = 1` every reading in the band is met once, so the invariants are checked for each of them.
- `Startup` holds readings taken before the rate settles.
- A call whose escaping fails changes no program state, so it leaves the walk where it is.
- `(long)(v*1.1)` is modelled as the floor of 11v/10. For readings below 400000, the double product truncates to exactly that.

**Abstractions.**
- Request text, URL escaping, response headers other than SID and stats
  lookups are left out.
- Concrete times, back-off lengths and the disperse jitter become "due / not
  due".
- The touch debounce in `yp_touch_callback` becomes a choice among keep, now
  and soon.

## 3. Runs

| Run | cfg | Expect | What it shows |
|---|---|---|---|
| queue | `YPChangeQueue.cfg` | pass | The refinement `FIFOSpec` holds with 4 notifications: every notification is applied once, in acceptance order, and none is left behind (the abstract `Consume` is weakly fair), even though the drain loop drops the mutex mid-batch. Order and progress need no separate property: the refinement implies both |
| directory_safety | `YPDirectory.cfg` | pass | One server, two mounts, 3 notifications, YP Thread creation may fail. `TypeOK`; `RemovedUnlinkedByPass` (no entry flagged remove survives a pass, despite the unlocked read of `yp_update`); `TouchHasSid` (no entry is in the touch state without a SID while every accepted add carries one) |
| directory_liveness | `YPDirectory_live.cfg` | pass | One server, one mount, 3 notifications: `ReleasedEventuallyUnlinked`, `PendingEventuallySpliced`, and `ClientReactivated` (CLIENT_ACTIVE comes back after every pass) |
| directory_reconfig | `YPDirectory_reconfig.cfg` | pass | Two servers, one reload, no curl failures: `ConfiguredServerKept`. A server that the new configuration still names is never destroyed while the client is initialised |
| refbuf | `RefBuf.cfg` | pass | Four buffers, up to 2 references each: `NoDanglingPointer`, `NoUseAfterFree` and `NoLeak`. Releasing the last reference frees the owner and its whole associated list and nothing still reachable |
| global_state | `GlobalState.cfg` (`MC_GlobalState`) | pass | Two sites, three blocks, sizes 0..2, failing libc allocations, loads 0 and 2 against limits none and 2: `SiteAccounting` holds until a crash, and `ThrottleLifted`: once the traffic stays below a set limit, `throttle_sends` returns to 0 for good |
| kate_libkate | `KateCodec.cfg` | pass | libkate build, 4 headers, malformed pages, 9 pages: `PageRouting`, `HeaderCount`, `BacklogDrained` |
| thread_lib | `ThreadLib.cfg` | pass | Two threads, detached or joinable, joinable ones ended by returning, `thread_shutdown` once the others are done: `NoThreadUseAfterFree`, `ThreadTreeSound` (every running thread finds itself with `thread_self`), `NoThreadLeak`, `NoSpuriousReturn` (a timed wait returns OK only after a signal), `TimedWaitReturns` and `TimeAddNormalised` |
| yp_bitrate | `YPBitrate.cfg` (`MC_YPBitrate`) | pass | 17 standard rates (8 to 320 kbit/s), every reading within 6% of each, readings of 0, 926 and 927 at startup, failing escapes. `NominalRateRecovered`: every reading within 5% of a standard rate lists exactly that rate. `EstimateBracketsReading`: the listed rate is never above the margined reading and above 4/5 of it. 1.8 million states in about 25 s |
| within_limit_starvation | `YPDirectory_starved.cfg` | violation | `within_limit` scaled to 1 for two mounts: the second entry is never processed (`DueEntryEventuallyVisited`), as entries past the 20th are in the code |
| thread_join_after_exit | `ThreadLib_joinexit.cfg` | violation | A joinable thread that ends with `thread_exit` frees its own `thread_type`; `thread_join` then uses and frees it again (`NoThreadUseAfterFree`) |
| cond_wakeup_lost | `ThreadLib_wakeup.cfg` | violation | `thread_cond_broadcast` does not set `cond->set`, so a timed waiter it wakes goes back to sleep until its deadline (`WakeupNotLost`) |

**Further reproductions.** These cfgs each show one more property violated;
`PROJECT.json` lists what they show among the findings (with the cfg named),
and they are run by hand like the others:

| cfg | Property | What it shows |
|---|---|---|
| `RefBuf_copy.cfg` (`MC_RefBuf`) | `CopyKeepsAssociated` | `refbuf_copy_default` does not give the copy the original's associated list |
| `YPBitrate_zero.cfg` (`MC_YPBitrate`) | `AdvertisedRatePositive` | a reading below 927 bit/s becomes `"0"`, which passes the non-empty check, and the stream is listed at b=0 |
| `YPDirectory_doublelink.cfg` | `SinglePass` | a reload before the first pass links the static ypclient a second time (without reloads, as in the safety run, `SinglePass` cannot fail) |
| `YPDirectory_threadfail.cfg` | `ClientReactivated` | after `thread_create` of the YP Thread fails, CLIENT_ACTIVE is never set again |
| `GlobalThrottle_ratio.cfg` (`GlobalThrottle`) | `ThrottleEngagesNearLimit` | a load of 90% of the limit leaves `throttle_sends` at 0: integer division |
| `ThreadLib_reset.cfg` | `WakeupNotLost` | without broadcasts: a second waiter entering the wait resets `cond->set` and sends the signalled thread back to sleep |
| `ThreadLib_shutdown.cfg` | `NoThreadUseAfterFree` | `thread_shutdown` while a detached thread is starting: it inserts into a destroyed tree |
| `YPChangeQueue_createfail.cfg` (`MC_YPChangeQueue`) | `NoLostChange` | a failed `thread_create` in `yp_queue_change` strands every later notification |
| `YPDirectory_duplicate.cfg` | `OneLiveEntry` | Add, Remove, Add before the splice gives two live entries |
| `YPDirectory_listed.cfg` | `PublicEventuallyListed` | Add after Remove is swallowed by the released entry |
| `YPDirectory_unlisted.cfg` | `WithdrawnEventuallyUnlisted` | Remove while the entry is pending is lost |
| `YPDirectory_pendingdropped.cfg` | `ServersMatchConfig` | a pending server a second reload drops is activated anyway |
| `YPDirectory_curlbreak.cfg` | `ConfiguredServerKept` | `curl_easy_init` failure destroys later, still configured, servers |
| `YPDirectory_orphan.cfg` | `NoOrphanedListing` | a dropped server is destroyed with entries never deregistered |
| `YPDirectory_entryfail.cfg` | `PublicEventuallyListed` | one `yp_add` whose `create_yp_entry` returns NULL leaves the mount unlisted on that server for good |
| `YPDirectory_sidless.cfg` | `SidlessTouchReAdded` | an entry without a SID stays in touch and sends `sid=(null)` |
| `YPDirectory_shutdown.cfg` | `ShutdownAfterTasks` | `yp_shutdown` runs while a pass or the drain thread is still going |
| `MyAlloc_oom.cfg` (`MC_MyAlloc`) | `NoNullDereference` | unchecked calloc/realloc results are dereferenced |
| `GlobalThrottle_unlimited.cfg` | `ThrottleLiftedWhenUnlimited` | with `max_rate` set to 0 the throttle stays at its last level |
| `KateCodec_backlog.cfg` | `BacklogDrained` | without libkate, data packets pile up in `codec->os` |
| `KateCodec_shortid.cfg` | `PageRouting` | without libkate, a short ID header drops the page without an error |

`PROJECT.json` gives one mutant per property of each passing run. Each mutant
is a plausible slip in the mapped code. Examples: applying the last
notification of a batch first, `delete_marked_yp` not unlinking the head, ignoring `release` in
`process_ypdata`, `do_yp_touch` staying in touch without a SID, a lost
`refbuf_addref`, reading `next` after the release, not releasing the
associated list, `my_free` keeping the bytes, a swapped resize, a Kate loop
that does not flag header pages or stops at the first data packet, a
throttle that is kept instead of lowered, a thread freeing itself although
joinable, a tree entry freed but not deleted, `thread_join` not freeing,
`cond->set` not cleared on entering the wait, a re-wait that ignores the
timeout, a `thread_time_add_ms` carrying one nanosecond early, and a
bitrate estimate without the 10% margin or shifted back one place too few. TLC finds
each of them.

**Bounds.**
- `MaxChanges` caps the notifications of a behaviour, `MaxReconfig` the
  reloads; `Servers` and `Mounts` are small sets of model values.
- `WithinLimit` is the code's 20 except in the starvation run, where it is
  scaled to 1 for two mounts (the code's 20 for 21 or more entries).
- Three notifications are the fewest that make Add/Remove/Add interleave with
  a pass. Two servers and one reload are the fewest that exercise flagging,
  pending servers and destruction. The directory safety run reaches about 4.6
  million distinct states in about a minute.
- RefBuf: four buffers allow an owner with a two-element associated list plus
  a copy target; `MaxHeld = 2` lets a buffer be shared. CHECK_DEADLOCK is off
  because the finite memory runs out.
- GlobalState: two sites and three blocks let one site's block be resized
  through another site's realloc. Loads 0 and 2 against the limit 2 give
  ratios 0 and 1, which raise the throttle to 3 and let it fall back. The
  run reaches about 250,000 states in 10 s. CHECK_DEADLOCK is off because a
  crash ends the process.
- ThreadLib: two threads are the fewest for one to wait while the other
  signals, enters the same wait or is joined. The deadlines are 16 edge
  timespecs (`tv_nsec` 0, 1, 999999, 1000000, 500000000, 998999999,
  999000000 and 999999999) by 7 delays (0, 1, 999, 1000, 1001, 1999 and
  2500 ms). The lifecycle ends with `thread_shutdown`, after which the
  process exits, so CHECK_DEADLOCK is off.
- YPBitrate: the rates are MPEG layer III's 32-320 plus 8, 16 and 24. A
  6% band around each takes in both edges of the 5% window, and the three
  startup readings include both sides of the 0 kbit threshold. The walk never
  ends (a call may read the same value again), so no deadlock is reported.
- KateCodec: 4 headers sent one or two per page reach every header path;
  `MaxPages` bounds the stream, which ends there, on rejection, or on error
  (CHECK_DEADLOCK off).

**Fairness** (see `Fairness` in `YPDirectory`):
- The drain thread and the YP Thread are detached pthreads, so each of their
  steps gets weak fairness.
- The worker keeps calling `directory_recheck` while the client is linked and
  active, so `DirectoryRecheck` is weakly fair.
- Time passes, so `Elapse` and `CounterExpire` are weakly fair.
- A due entry is eventually answered with something other than a transport
  failure. This is strong fairness on `PassVisit` with `error # -2`. It is an
  assumption about the directory: without it a permanently unreachable server
  trivially starves everything.
- The host's calls, reloads, halt and `yp_stop` are not required to happen.
- The liveness properties are conditioned on `running`, because spec.md 5
  gives no guarantee once shutdown begins.
- `GlobalThrottle`'s and `GlobalState`'s `Spec` make `global_getrate_avg`
  weakly fair: the statistics code calls it periodically.
- `ThreadLib`'s `Fairness`: `Timeout` and `Reacquire` are strongly fair. A
  deadline that has passed stays passed, even if other threads keep waking
  the waiter first. The mutex is eventually granted to a thread that keeps
  wanting it. A thread that holds the mutex goes on to wait or to unlock
  (weak fairness on `TimedWaitEnter` and `MutexUnlock`). Nothing obliges the
  main thread to signal, create, join or shut down.

## 4. Not modelled

- **Starvation behind the first server.** `directory_recheck` only looks at
  the first server's `mounts` (yp.c:250). Showing it needs two servers, two
  mounts and a reload, beyond a 5-minute run of `YPDirectory`.
- **Concrete entry schedule.** The back-off constants, the `TouchFreq`
  floor, the 30 s touch debounce and the disperse spread are abstracted to
  "due / not due".
- **Entry attributes other than the bitrate, and the request text.** These
  are the strings `create_yp_entry` fills in, the name, genre, type and other
  fields `add_yp_info` copies, and the response headers other than SID. They
  are string and URL composition that the properties do not tell apart. The
  bitrate is modelled (`YPBitrate`), because its derivation is arithmetic.
- **global.c beyond `MY_ALLOC` and the throttle.** `global_shutdown` and
  `global_lock`/`unlock` only free or forward to libraries outside `src/`.
  The bitrate helpers appear only as their effect on the average
  (`AddBitrates`). `free_alloc_node` at shutdown is ordered by the host.
- **Timed lock aborts.** With `lock_problem_abort`, `_mutex_lock_c` and the
  rwlock wrappers give up after 6 or 7 seconds and call `abort`. That needs
  real durations. `MutexLock` models the untimed lock.
- **`kate_codec_free`** only frees.
- **`refbuf_initialize`/`refbuf_shutdown`** are empty.
- **Thread library leftovers.** Left out: spin locks and `thread_sleep`;
  signal masks; `thread_rename`; `thread_mtx_*_callback`, which wrap a mutex
  for a library outside `src/`; and the mutex and rwlock create and destroy
  calls. They have no interleaving of their own beyond what `ThreadLib` and
  `YPDirectory` model.
- **Left out for good.** `flv.h` holds declarations only. Curl I/O is pure
  I/O.
