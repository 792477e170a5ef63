# TLA+ models and proofs of the ADACS job controller client

The client is a daemon that runs beside a compute cluster's scheduler. It keeps
one websocket to the job controller server, receives jobs to submit, cancel and
delete, runs the Python *bundle* that knows how to do so, and answers requests
for files over further websockets. Its database is the server's: every read and
write of a job is a request over the same websocket. It replaces itself when a
newer release is published.

This directory holds specifications of its parts, what TLC checks about them on
small instances and what TLAPS proves about them for every instance.
`PROJECT.json` maps every definition to the lines it models, and lists the
runs, the hazards they are aimed at and the theorems.

## Inventory

| Part | State | Operations | Concurrency and failure | Module |
|---|---|---|---|---|
| Websocket client (`websocket.rs`) | `connection_id`, `connection_closed`, `server_ready`, `reconnectable`, promises of database requests | supervise/connect, reader, writer, scheduler and ping tasks, `handle_disconnect`, `queue_message`, `send_db_request` | every task on its own thread; I/O errors, timeouts, lost notifications | `WebsocketClient` |
| Priority queues (`websocket.rs`) | messages per priority and source, `data_ready` | queue, scan, restart, clear, prune | schedulers of several connections on one `Notify`, locks that are only tried | `Scheduler` |
| Main loop (`main.rs`) | where main stands | wait for the server, tick, reconnect, shutdown | notifications that find main busy | `Client` |
| Process (`main.rs`, `config.rs`, `daemon.rs`, `logging.rs`, `python_interface.rs`) | configuration, token, Python, services, connection | every step of `main`, exits, signals, panic hook | crashes and panics at any step, restarts | `Startup` |
| Update check (`update_check.rs`) | executable and `.update` on disk, releases | ask, download, verify, write, chmod, rename, restart | retries, failing system calls, death between any two | `UpdateCheck` |
| Database bridge (`db_bridge.rs`) | request channel | blocking request with a timeout | timeout around a timeout | `WebsocketClient`, `Bundles`, `BundleCalls` |
| File download (`files/mod.rs`) | `TransferState`, pause flag and permit | connect, handshake, read and send chunks, close | peer messages at every await, changing file, dropped sends | `FileDownload`, `Transfer` |
| File upload (`files/mod.rs`) | open file, sizes | handshake, create, chunks, flush, sync, remove | writes behind, failing I/O, two uploads to one file | `FileUpload`, `FileTree` |
| File listing (`files/mod.rs`) | permits, stack of directories | acquire, resolve, walk, answer | a tree that changes under the walk, I/O errors | `FileList`, `FileTree` |
| Bundles (`bundle_manager.rs`, `bundle_interface.rs`, `python_interface.rs`) | bundle cache, `PYTHON_MUTEX`, GIL, saved main thread state, sub-interpreters | load, run, callback | blocking threads, nested locks, failing loads | `Bundles` |
| Python calls (`bundle_interface.rs`, `bundle_db.rs`, `bundle_logging.rs`, `thread_bundle_map.rs`) | references owned, error indicator, thread-to-bundle map, unfinished log lines | every C-API call, `_bundledb`, `_bundlelogging` | each call may fail | `BundleCalls` |
| Job lifecycle (`jobs/mod.rs`, `db/mod.rs`) | rows and statuses in the database, `SUBMIT_MUTEX`, each handler's copy of the row | submit, check, cancel, delete | one task per message, every database call an await, failing requests | `Jobs` |
| Messages (`messaging.rs`) | byte buffer, read index | push, pop | none | not modelled |

`MC*` modules give the constants of an instance where a `.cfg` cannot;
`*Proofs` modules hold the theorems and lemmas.

## Modules

### WebsocketClient

State and actions follow `TungsteniteWebsocketClient`. Attempts are numbered as
`connection_id` numbers them; `task[c][t]` is where task `t` of connection `c`
stands. `sup` is the supervisor: `start`, `connecting`, `spawn`, `register`
(tasks are spawned, `notified()` not yet called), `waiting`, `notified`,
`stopped`. `handle_disconnect` is five steps, the id check, the swap, the store
of `server_ready`, the clearing and taking, the notification, because other
tasks run between them. A `send_db_request` call is the check, the insertion,
the two steps of `queue_message`, the second check and the wait. Left open, so
that every order is explored, are the scheduler's choice of message and its
wake-ups (see `Scheduler`), and the ping clock. `notify_waiters` is modelled by
what it does: it wakes whoever is registered and is forgotten otherwise. A task
of an outdated connection that waits at its await can only return, so `SupStart`
retires it at once. Each `Requests` element makes one call, so ids are never
reused (the code counts to 2^32). `Scenarios` says which tasks fail and which
calls are made in one behaviour. The missing-configuration exit of
`supervise_connections` is left out: `start_with_token` stores the configuration
before it spawns the supervisor.

`Client` extends it by the main task. A select creates new `notified()`
futures every time round, so `EnterSelect` forgets a shutdown that was
signalled before.

### Scheduler

The complement of `WebsocketClient`: here requests, writer and the inner steps
of `handle_disconnect` are left out, and what takes a message out of the queues
is modelled in full. `queue[p]` maps the known sources of a priority to the
number of messages they have queued. A scheduler registers on `data_ready`
(taking the permit or joining the queue of waiters), checks its connection,
and scans the priorities with its counter (`count`) and `had_data`; after every
message it looks for higher priorities, where a lock that is held counts as
data. `notify_one` wakes the waiter that came first, which may be the scheduler
of an older connection. Of the 20 priorities the code uses three, and passes
over empty ones, so there are three. The taking of the message, its hand-over to
the writer and the count are one step, as they happen under the priority's lock.

### FileDownload and Transfer

The unit is the chunk; chunk *n* is the number *n*. `stage` follows
`run_download_supervisor`, `chunkState` the phases of `run_transfer_loop`, split
where a send is created (`Arming`), has been accepted by the sink (`Armed`), and
where the end of the file was read (`Eof`). `sink` and `wire` are the websocket
library: polling a send hands the message over before it waits for the flush,
and receiving flushes too, so a dropped send may still be transmitted. The file
changes length at any moment until the transfer ends. Peer events are pause,
resume, anything ignored, and terminal (Close, end of stream, error).

`Transfer` is the promise: a size is announced, chunks arrive one after the
other, one outcome is selected for good, and it is clean only when everything
has arrived. `ImplementsTransfer` instantiates it with `expected`, the number of
the last chunk on the wire and `result`.

### FileTree, FileUpload, FileList and FileRequests

`FileTree` is the working directory as the handlers use it: what each name leads
to and, for each file, who wrote each unit of it. A file that lost its name
lives on for whoever has it open. `FileUpload` follows
`handle_file_upload_internal`. `create_dir_all` is one step per missing directory
above the target (`Above`), so it may fail halfway or meet another upload's.
tokio's `File` writes behind, so a chunk is
handed over (`Chunk`), reaches the file later (`WriteBehind`), possibly after the
task has ended, and a failure of it is only reported by the next call. `sole`
remembers which uploads had their target to themselves since they opened it,
`unremoved` which could not remove it. `FileList` follows `handle_file_list`
with the semaphore's queue; the walk reads a directory, then looks at one entry
per step. The set of names a directory holds is read at once, as `readdir` reads a
small directory. `settled` remembers which names stayed as they were since the
walk began: every step of an upload takes those it changes out of it (`Watch`).
`FileRequests` puts both on one tree, as `handle_message`
spawns a task per request.

### Bundles and BundleCalls

Threads of the blocking pool call `run_bundle_*`: read lock and lookup, write
lock and second lookup, `BundleInterface::new` under both the write lock and
`PYTHON_MUTEX`, then the run under `PYTHON_MUTEX` alone. `gil` is Python's lock,
`saved` whether the main thread state is parked. Creating the sub-interpreter,
its thread scope, the import and the run's scope may fail; Python code of
`CallbackBundles` may call back into `bundle_db` while it runs or is imported.

`BundleCalls` extends it by what happens between entering and leaving Python.
`at` is the C-API call about to be made and `ret` the return addresses of the
Rust functions in progress (`json_loads`, `json_dumps`,
`print_last_python_exception`, the methods of `_bundledb`), so that one model of
each serves all of its callers; `Points` are the values of `at`, grouped by the
function they belong to. `refs` are the references owned, by the name of
the variable that owns them; `over` says that one was released twice. `Try`,
`Give` and `CallObject` are the three kinds of call: one that returns new
references or fails, one that takes a reference whether it fails or not, and one
that runs Python code and whose exception is printed. Inside
`print_last_python_exception` a failure is swallowed and the next part of the
report follows (`Format`, `SetItem`); its parts are the operators named after
`extract_type_name`, `extract_value_string`, `log_python_lines` and
`set_exception_value_slot`, and the two formatting calls (`Frames`, `Header`).
The steps of `Bundles` are conjoined, never replaced.

Every reference a Rust function owns from one C-API call to another is named in
`References`. Those that are released or handed on at once are not: what
`swallow_python_error` fetches, the `None` a method returns, and the bundle's
module, which goes into the `BundleInterface` as soon as it is there. Releasing
is counted once per variable, so a reference that is forgotten stays in `refs`;
`LeavePython` then counts it in `left` for the bundle's interpreter. The code
forgets one: `BundleInterface::new` creates the globals dictionary `p_global`,
releases it on every failure, and on success neither stores nor releases it
(bundle_interface.rs:247-275). `left` shows that this is one dictionary per loaded
bundle and never more.

The methods of `_bundledb` report a failure with an exception object of their
bundle, kept in `BUNDLE_DB_ERRORS` (`errors`): `PyInit_bundledb` stores it, and
`get_bundle_db_error` makes one when there is none. If that fails too, the method
returns NULL and sets no error (`GetBundleDbErrorOrAbort`), which Python turns
into a `SystemError`. What becomes of a stored object when its interpreter is gone
is not modelled, and neither are the methods' paths for a bundle that cannot be
loaded (bundle_db.rs:86-123): a bundle that runs is in the cache, and one that
calls back while it is imported waits for the cache its own thread has locked.

### Jobs

One job, several handlers. Each handler is the task of one message or of one
status check, and holds its own copy of the row (`id`, `copy`), as the code
does between awaits. Every database request and bundle call is a step; a
request may fail before or after it took effect. The database is external and
modelled as the handlers use it and as the mock of the tests does: reads return
a stored row, saves write it whole and insert when the id is 0. A row inserted
by a handler is named after it. `Old` is a row from before the client started
(`LeftRows`): absent, running, finished, deleted, or left in the middle of a
submission or a deletion by a client that died. `reports` remembers which updates
were queued, and whether the task that queued one had read a row of the job.
Statuses carry one `what`; archives are left out, because nothing depends on
them.

### UpdateCheck and Startup

`UpdateCheck` has one step per network or system call. A release is a version
and whether it carries a digest; what was downloaded is whole, damaged or empty,
and a file may also be half written. `fs::write` is two steps: it creates or
empties the file and then fills it. `named` says whether the path of the running
image still leads to it. Releases are published and withdrawn at any time.

`Startup` is `main` from the first line, with the update check in its place, then
what start-up and updates see of the connection. `Crash` and `Panic` happen
anywhere; `Exit` forgets the memory and keeps the disk, and `Start` begins again
with whatever executable is there. The crashes are those of the process: what it
has written is there for the next one. `restart_app` executes `current_exe()`, which
is modelled as Linux answers it: a path that was renamed over no longer leads to
the image.

## Runs

| Run | Bounds | States | Shows |
|---|---|---|---|
| `requests` | 1 bridged request, 1 update, 2 attempts; reader fails, or writer and ping fail | 2.3 M | `NoOrphanedRequest`, `NoLeakedPromise`, `AnsweredOnce`, `OneShot` |
| `client` | no request, 3 attempts, reader and ping fail | 51 k | `Reconnects`, `DisconnectIsExit` |
| `scheduler` | 3 priorities, 1 source, 1 queueing thread, 3 connections, a limit of 2 in a row instead of 16, 1 message per source and priority | 219 k | `NotStranded`, `MediumServed` |
| `download` | 2 chunks, 3 peer messages | 132 k | `InOrder`, `CleanIsComplete`, `FailureAnnounced`, `ImplementsTransfer`, `Finishes` |
| `files` | 2 uploads of up to 2 units to one target, or an upload and a listing, or 2 listings with 1 permit instead of 4; 5 names in 3 levels, a count of at most 3 | 270 k | `CompleteIsWhole`, `NoPartialFile`, `ListsSettled`, `PermitsConserved`, `UploadAnswered`, `ListingAnswered` |
| `bundles` | 2 threads, 2 calls in all, 2 bundles, one with callbacks | 121 k | `LoadedOnce`, `GilReleased`, `ReferencesBalanced`, `ErrorsHandled`, `LinesAttributed`, `CallsReturn` |
| `jobs` | 3 handlers, 2 failing requests, limit of 2 submissions | 408 k | `OneSubmission`, `RunningIsSubmitted`, `EndedIsStopped`, `StaysStopped` |
| `startup` | 3 releases, 3 download attempts, a configuration with an LTK, one without, one that is refused | 146 k | `ExecutableSound`, `NeverDowngraded`, `RestartKeepsToken`, `HandlersFindServices`, `ChecksEnd` |

Every run but `client` and `requests` also checks the module's type invariant,
which is where counters and buffers would leave their range.

The bounds let the interesting cases happen. Two attempts are one connection and
its successor, whose tasks overlap; a third lets a reconnect follow a reconnect,
and lets two schedulers of old connections wait at once. All three tasks failing
with a request in flight is beyond a five-minute run, so `requests` has two
scenarios; the theorems cover every combination. One request is enough because
requests share nothing but the map, whose operations on different keys commute
(the theorems cover any number). With one message per source and a limit of two,
the limit is reached only when messages keep arriving during the scan, which is
the case it is for. Two chunks have a first and a last one, and three messages
are a pause, a resume and a second pause or a close. Files of two units are
written in one chunk or in two, so that a write behind overlaps the next chunk.
Two threads and two bundles give a cache miss against a run, a load and a miss
of the same bundle; two calls in all are one of each thread, or a failed load and
its repetition by one thread, with every C-API call of both failing or not. More
calls are beyond a five-minute run; the theorems cover any number. Three handlers give a submission, one that interferes and
one that gives it up: with `MaxSubmitCount` = 2 instead of 60 the second
duplicate does. The status function answers "cancelled" or "complete without
statuses" (`MCAnswers`); the handlers are symmetric, as the properties do not
name one. Three releases let one be withdrawn between two others.
`CHECK_DEADLOCK` is off everywhere: every model ends when its bound is reached
or its component has legitimately stopped.

What the less obvious properties say:

- `NotStranded` excepts, by `owed`, what the code really loses: an old
  connection's scheduler takes one notification for itself before it ends, and
  only the new connection's SERVER_READY makes up for one. After a connection
  that ended before SERVER_READY, or that left messages behind, a message may
  therefore wait until the next one is queued.
- `MediumServed` is the promise of the limit on consecutive messages, for the
  priority right below the highest. The lowest priority has no such promise:
  after every message the scan restarts at the highest.
- `AnsweredOnce` is about the response, the timeouts and the disconnect that race
  to settle one request: once the response has, the others find nothing.
- `ReferencesBalanced` is about every path through the C-API calls, the failures
  of the error reporting included: what is owned is released or given away
  exactly once. It excepts what the code keeps, one globals dictionary for each
  bundle that was loaded, and says that failed, repeated and racing loads keep
  no other.
- `ErrorsHandled` allows a method to return NULL without an error only for a
  bundle that has no exception object when none can be made for it: the code
  then only logs. Once a bundle has one, its failures are exceptions.
- `LinesAttributed` excepts, by `cut`, threads on which a bundle left a line
  unfinished: `LINE_PARTS` belongs to the thread, so that text begins the line of
  the next bundle the thread runs. The code does not prevent it.
- `EndedIsStopped` is about ends reported by a task that had read a row of the
  job. A cancel or delete that overtakes the submission finds none, reports
  CANCELLED or DELETED, and the job runs afterwards; nothing in the code holds
  the submission back.
- `RestartKeepsToken` is about the panic hook, the one restart that succeeds: an
  update's restart does not (see `update_restart` below).
- `ListsSettled` does not promise a snapshot: it promises every entry that did
  not change during the whole walk, whatever happened to the others. Comparing
  the beginning of the walk with its end is not enough: a file that was empty,
  was written and was truncated by another upload looks unchanged, and the walk
  may have met it in between. The proof needs the difference; the run, with two
  requests at a time, does not reach it.
- `CompleteIsWhole` and `NoPartialFile` are for uploads that had their target to
  themselves. Two uploads to one target share one file, and the one that fails
  removes the other's: the code has no protection and claims none.

### Where the code and its documentation disagree

Each of these runs checks one statement of the repository, which TLC refutes.

- `lost_disconnect`: with an LTK the client reconnects (ARCHITECTURE.md:77).
  `notify_waiters` reaches registered waiters only, and `run_connection`
  registers after it spawned the tasks. A connection that fails in between is
  never noticed.
- `lock_inversion`: a callback's load is always a cache hit (bundle_db.rs:8), so
  it should go on. It waits for the cache lock, held by a thread that waits for
  the `PYTHON_MUTEX` the callback holds.
- `lost_submission`: after the report of a submission the row has its scheduler
  id and is not marked as being submitted (tests/job_tests.rs:491). A duplicate
  SUBMIT_JOB that only counts writes back the row it read before.
- `update_restart`: an update replaces the binary and restarts
  (update_check.rs:7). `restart_app` asks for the path of the running executable
  after the rename, and Linux then answers with a path that does not exist; the
  exec fails and the client exits. It runs the new version only once somebody
  starts it again.

Three more disagreements are in the models, without a run of their own; an
earlier state of this development had one for each, and they still follow from
the actions named here.

- Timed-out requests should leave no promise (websocket.rs:907). The timeout of
  `DbBridge` has the same length, is created first and drops the request, so
  nothing removes its promise before the next disconnect. `NoLeakedPromise`
  excepts requests that ended so.
- While paused, nothing should be read (files/mod.rs:1053). A resume while not
  paused leaves a permit that ends the next pause at once (`permit` in
  `FileDownload`).
- A clean end should be after every byte was sent and the sizes are equal
  (files/mod.rs:342). A send dropped after the sink accepted the chunk is
  repeated, and the peer gets more bytes than were announced; `InOrder` allows
  the repetition and `CleanIsComplete` speaks of the last chunk, not of their
  number.

### Fairness

`WebsocketClient!Fairness`: the runtime runs every task that can go on by
itself, that is the supervisor (connecting ends by its timeout), the steps of
`handle_disconnect`, the store of `server_ready`, the end of a scheduler's pass
and the steps of a request. Nothing makes the peer speak, the connection fail or
a request begin.

`ClientFairness` is the same with main's steps: the interval's ticks recur, so a
tick on a closed connection is weakly fair. Main's check of the jobs ends because
every request has a timeout. `Timely` removes, with an LTK, the two delays the
runtime does not exclude (and which `lost_disconnect` shows to matter): a task
that disconnects before the supervisor registers, and one held up inside
`handle_disconnect` or `handle_message` for the whole reconnect delay of at
least a second. Since `Timely` disables a supervisor step while such a task is
underway, the supervisor's fairness is strong: the task finishes and the
supervisor then takes its step.

`Scheduler!FairSpec`: scheduler tasks, the announcement of SERVER_READY and
threads inside `queue_message` run. Nothing makes a thread queue a message or a
connection come up. `Settled`, a guard of `Attempt`, is the same assumption on the
reconnect delay as `Timely`.

`FileDownload!FairSpec`: the supervisor task is polled, setup and cleanup are
bounded by timeouts or local I/O, and the socket transmits what it accepted
unless the send fails. `Finishes` excepts only a peer whose last word
remains a pause for ever.

`FileRequests!FairSpec`: upload and listing tasks run, and file operations end. Nothing
makes a peer send, so `UploadAnswered` excepts an upload that receives for ever.

`Bundles!FairSpec` and `BundleCalls!CallsFairSpec`: threads run and locks are
handed on; the end of a bundle's code is strongly fair because its function
writes and calls back finitely often, and so is the end of the lines of an
exception (`LinesEnd`), because its text is finite. `CallsReturn` is stated for behaviours
without the lock inversion.

`Startup!FairSpec`: `main`, the update check (whose network calls have timeouts)
and the supervisor's reconnect proceed. Nothing makes anybody start the client, publish a
release or accept a connection.

## Proofs

| Module | Theorems | Inductive invariant |
|---|---|---|
| `WebsocketClientProofs` | `TypeCorrect`, `RequestsNotOrphaned`, `PromisesNotLeaked`, `ResponsesSettleOnce`, `OneShotClient` | `IInv`, `AnsweredInv`, `OneShotInv` |
| `SchedulerProofs` | `TypeCorrect`, `NothingStranded` | `IInv` |
| `FileDownloadProofs` | `TypeCorrect`, `ChunksInOrder`, `CleanComplete`, `FailuresAnnounced`, `DownloadImplementsTransfer` | `IInv` |
| `FileRequestsProofs` | `CompletedUploads`, `FailedUploads`, `SettledListed`, `PermitsAlwaysConserved`, `TypeCorrect` | `IInv`, `ListInv`, `Counted` |
| `BundlesProofs` | `TypeCorrect`, `GilNeverLeaked`, `LoadedAtMostOnce` (of `Bundles`); `CallsImplementBundles`, `CallsTypeCorrect`, `ReferencesAlwaysBalanced`, `ErrorsAlwaysHandled`, `LinesAlwaysAttributed` (of `BundleCalls`, with the lemmas of `PythonCallProofs`) | `IInv`, `CallsInv`, `Registry` |
| `JobsProofs` | `TypeCorrect`, `OneSubmissionAtATime`, `RunningWasSubmitted`, `EndIsStop`, `NeverRunsAgain` | `IInv` |
| `StartupProofs` | `TypeCorrect`, `ExecutableAlwaysSound`, `ServicesBeforeMessages`, `NoDowngrade`, `RestartsKeepToken` | `IInv` |

The only assumptions are the named ones on the constants, which TLC evaluates in
the runs. That of `FileTree` says that the names form a tree: every set of names
has one whose directory is outside of it, so no name is below itself.

*WebsocketClient.* `NoOrphanedRequest` is not inductive: it needs to know that a
promise belongs to a request between its insertion and its end (`PromiseHeld`),
that a supervisor which has not connected since an error sees the connection
closed (`DownIsClosed`), and where tasks can be: nothing runs for an attempt that
was not spawned (`Unspawned`), only a call inside `handle_disconnect` owes a
notification (`OwesInside`), the reader's second call follows its first
(`ReaderOrder`). Lemma `Steps` sorts the actions into six kinds by what they
change, and every conjunct is shown once per kind. The heart of the argument: a
request starts to wait only after it saw the connection open with its promise in
place, so whoever closes it afterwards still has the taking ahead. `AnsweredInv` adds that only a request that has inserted its promise can have been
answered, so that none is inserted after the answer. `OneShotInv`
adds that without an LTK the supervisor stands at its start only before the
first attempt.

*Scheduler.* `NotStranded` speaks of a sleeping scheduler; `NothingMissed` adds
the two places where it has passed over a message that has just come: between
its scan and its next wait, and behind the priority it has reached, where the
notification is still ahead or has been left as a permit. That this notification
is not taken by another needs the order of the waiters (`WaitersInOrder`), that
only the current scheduler works (`OldOnesWait`), that, with nothing `owed`, at most one older one
waits and none after SERVER_READY (`OneOld`), and that with an older one waiting
every message still has its notification ahead (`OldTakesOne`). Passing over a
priority means that it is empty because a scan that found nothing has counted
nothing (`Scanning`).

*FileDownload.* `Accounting` ties what was read, the pending chunk, what was
counted, the sink and the last chunk on the wire to the phase of the loop; it is
what makes `InOrder` survive a dropped send. `CleanAtEof` says when a clean
result can be selected, `Untouched` and `Undecided` what holds before the loop.
The refinement follows from the same invariant: every step is an announcement,
a delivery, an outcome or a stutter.

*FileRequests, uploads.* That a file is whole is a claim about its content, so the
invariant says at every stage what it is: exactly what was received and has
been written (`Written`), under the target's name (`Named`), and gone after a
failure (`Removed`). A write or a removal by another upload must not reach it:
nobody else has the target open while `sole` holds (`Alone`), and uploads to
different targets never share a file, because a file only ever has one name
(`Homes`) and a file yet to be created is known to nobody (`Unopened`). `Ends`
carries the comparison of the sizes and the result of `flush` to COMPLETE.
Lemma `MoveKeeps` covers the steps that touch no file, `WriteAtFills` what a
write makes of the content; the steps of listings only read the tree. The
targets, the number of uploads and listings and the sizes are arbitrary.

*FileRequests, listings.* `ListInv` follows a walk (`Task`). `WalkOf` is why
nothing is reported twice: what was reported and what is about to be looked at
are apart, each of these lies in the directory asked for or in one that was
reported, and none lies in a directory that is still on the stack. That a
directory does not come back on the stack is where the names forming a tree is
used (`NoWayBack`: the directory asked for is never met in its own walk).
`CoverOf` is why nothing is missed: a settled entry that is to be reported has
been reported with what it is now, is about to be looked at, or its directory is
still on the stack. Uploads preserve it because `settled` shrinks with what they
change (`UploadsAside`), and an I/O error ends the claim (`spoilt`). `Queued`
says that a task is in the semaphore's queue once and only before its permit,
and `Counted` that the permits that are out are those of the tasks at work; the
cardinality is changed only by one task at a time (`CountIn`, `CountOut`).

*Bundles.* `Ownership` states for each lock exactly where its holder stands;
`SavedUnlessCreating` and `Loading` follow the one thread that loads, and
`Counted` equates the number of sub-interpreters with being cached or being
loaded.

*BundleCalls.* Every step conjoins a step of `Bundles` or leaves its variables
alone, so `CallsSpec` implements `Spec` with the identity as the mapping, and
the theorems about locks and interpreters hold with every C-API call in between.
That the references balance when a thread leaves Python says nothing of the way
there, so the invariant has a table. `Fits` says which stacks of return
addresses are possible at each point: `json_loads` may be at work for `run` or
for `get_job_by_id`, the printing of an exception for any of its callers, and so
on. `Owned` says exactly which references are owned at a point, those of the
functions below on the stack included (`Held`), up to the value and the
traceback an exception may have or not (`MayOwn`). `Errors` says where the
error indicator may be set: on the way back to Python, before it is fetched, or
when a run has ended without looking at it; and that on the way back with NULL it
is set unless the bundle has no exception object (`Unknown`). `PythonCallProofs` shows for every
kind of call that it keeps these three, whichever way it ends; the stack is why
one lemma per function serves all of its callers. `Mode` ties the stack to where
the thread stands in `Bundles` (`Where`), and with it `Stands` says for which
bundle a thread stands in the thread-to-bundle map and `Lines` whose unfinished
line it has. `Registry` counts what threads leave behind in an interpreter: it
changes only when a thread leaves Python, where `Owned` says that a load that
succeeded has the globals dictionary and everybody else nothing, and a load
succeeds once because of `LoadedOnce`'s invariant.

*Jobs.* `Database` says of every row what it may combine (`GoodRow`), `Locals`
what each handler knows of its copy at each point, `Mutex` who holds
`SUBMIT_MUTEX`. As long as no submission was given up, there is one row for the
job, and a row whose end was reported stays stopped in the database *and in
every copy that is still to be saved*; this last part is what whole-row saves make
necessary. Lemmas `SaveKeeps`, `MoveKeeps` and `SaveAndMove` show once what a
save and a change of place preserve, `StepWrites` that no step writes anything
else.

*Startup.* `UpdateIsSound` follows the `.update` file through the steps of the
replacement, so that what is renamed is complete, executable and verified.
`FoundIsNewer` keeps the release that was found above the one on disk, for which
`OneChecker` says that the start and a reconnect never check at once and
`RunsWhatIsThere` that the running program is the one on disk until the rename.
`Prepared` orders the steps of `main`, and `TokenOrLtk` says that a
client with an LTK was given no token.

Model-checked only: liveness (`Reconnects`, `DisconnectIsExit`, `MediumServed`,
`Finishes`, `UploadAnswered`, `ListingAnswered`, `CallsReturn`, `ChecksEnd`),
which is out of the prover's reach. Every invariant, action property and
refinement that a passing run checks is also proved.

## Not modelled

- `messaging.rs`: a sequential codec of byte buffers without shared state. The
  models exchange messages as values, so nothing here depends on the byte layout.
- The ping and pong timestamps: a failed health check is an event that may happen
  at any time. The lengths of delays and timeouts: that they end is fairness.
- The contents of job details, of Python values and of paths; path validation is a
  check that may fail.
- The archive of a finished job, whose failure is only logged, and more than one
  status per check.
- Where log lines go and how they look; of the log module of bundles only which
  bundle a line belongs to.
- A power failure, after which a file that was renamed without fsync may be empty.
- The server, the scheduler behind a bundle and the file system, which are the
  environment and do what the code must expect of them.
