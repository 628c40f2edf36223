# TLA+ models of the biometric bridge

This directory holds TLA+ models of the attendance bridge: the service to
which ZK/eSSL fingerprint readers push punches, and which writes them to the
database of the LMS.  Each module is translated from the code; `PROJECT.json`
lists the lines every definition stands for, the runs, the hazards and the
theorems.

Model-check a run with `tlc -config <run>.cfg <module>.tla` and check the
proofs with `tlapm <module>.tla`.

## The system

One gunicorn worker process (`gunicorn_config.py`): one event loop, the flush
thread of the supervisor, a one-thread executor for contact stamps, and a
thread pool for slow requests (`asyncio.to_thread` and plain `def` endpoints).

| Component | State | Operations | Talks to | What makes it correct |
|---|---|---|---|---|
| `sync/spool.py` | one file of lines, a `.draining` file, a lock per instance | `add`, `drain`, `restore`, `pending` | file system | concurrent appends and drains lose no line |
| `sync/push_ingest.py` | its own spool and database objects | `ingest` | spool, database | an answered punch is stored or on disk; the reader always gets an answer |
| `sync/supervisor.py` | another spool and database, a thread, a stop event | `start`, `_run`, `_flush`, `stop` | spool, database | held punches reach the LMS when it comes back; a stop loses nothing |
| `sync/lms_db.py` | a connection pool made on demand, a lock | `_ensure_pool`, `_connection`, `close`, statements | Postgres | one pool at a time, callers see answers or `LmsUnavailableError`, a new pool after an outage |
| `sync/liveness.py` | last stamp per reader, a task queue | `mark_seen`, `record_traffic_error`, `shutdown` | database | the console is at most a heartbeat behind; errors stay visible; a stop runs every task |
| `router/iclock.py`, traffic | command queue per reader | `cdata`, `getrequest`, `devicecmd` | ingest, liveness | every push is answered; commands go out in order |
| `router/iclock.py`, dashboard | `PUNCH_LOGS`, name cache, event subscribers | list, clear, set name, sync, events | files, readers | the list agrees with what was captured |
| `core/device_migration.py`, `router/migration.py` | none of its own: profiles in the readers, commands queued for them | create, delete, batch delete, fetch, copy, move | readers, command queue | nobody loses a profile or gets another's; readers are left usable |
| `core/employee_service.py`, `router/employees.py` | `employees.json` | transfer, grant, revoke, offboard, delete | device migration | the directory says where a person is stored |
| `core/manager.py`, `main.py` | - | start and stop in order | supervisor, liveness | the supervisor stops before the liveness worker |
| `router/base.py` | - | health | supervisor | reading must not disturb |
| the page served by `router/iclock.py` | its list of punches, an event stream | fetch, connect, receive | dashboard | it shows what reached it |
| `sync/config.py`, `sync/models.py`, `core/settings.py`, `core/logger.py`, `sync/run.py`, `tools/`, `tests/`, deployment | values | - | - | not modelled |

What is hard: two spool objects over one file; the pool's attribute read
without its lock; a punch that arrives once, through crashes, refused rows, lost
replies and disk errors; a throttle that records a write before it happens;
operations over several TCP calls to two readers that each accept one
connection, any of which can fail before or after it took effect; commands that
run when a reader next polls, long after the request that queued them; a JSON
file that is loaded, changed and saved whole by worker threads without a lock;
and names and rows of the dashboard that reach memory and files by several
paths, some of them across an await.

## Modules

| Module | Models |
|---|---|
| `PunchSpool` | the steps of the spool's methods, over files, handles and locks |
| `PunchPipeline` | `ingest` and the flush loop composed over `PunchSpool` and the database |
| `PunchDelivery` | the promise about an answered punch, without threads or files |
| `PunchPipelineProofs` | theorems about `PunchPipeline`, with the refinement of `PunchDelivery` |
| `LmsPool`, `LmsPoolProofs` | the connection pool shared by flush, health checks and `stop()`; theorems |
| `Liveness`, `LivenessProofs` | the throttle, the queue and the shutdown; theorems |
| `Readers`, `ReadersProofs` | what readers store, their one connection, their command queue; lemmas about these that the next two modules' proofs share |
| `DeviceMigration`, `DeviceMigrationProofs` | the operations of `device_migration.py` over `Readers`; theorems |
| `EmployeeDirectory` | `employees.json` and its operations, over `Readers` |
| `EmployeeRegistry` | what it amounts to, without threads or a file: a table changed one record at a time |
| `EmployeeDirectoryProofs` | theorems about it that hold whatever happens |
| `EmployeeAgreementProofs` | theorems about it while requests come one by one, with the refinement of `EmployeeRegistry` |
| `Dashboard`, `DashboardProofs` | punches, names, their two files, reads over TCP and an open page; theorems |
| `MC...` | constants for TLC |

Definitions that begin with a comment "Bug:" are not part of a specification:
each is a mistake one could make in the definition that follows it, used to
check that a property notices.

### PunchSpool and PunchPipeline

A punch is a value; a file is the set of its lines, with the name it has and
whether its last line was cut.  A handle follows its file through the rename
and the unlink of `drain()`: an append through a handle opened before the
rename goes to the staging file, or to no file at all.  `LockOf` says which
lock a thread takes: the service has two `PunchSpool` objects, so `TwoInstances`
is the program and `OneInstance` the sharing the class was written for.

The event loop ("push") goes through `Receive`, the drain steps, `saveHeld`,
`saveReq` or `addReq`, and answers; the flush thread through `Tick`, the drain,
`saveHeld` and `restore`.  `SaveHeld...` and `SaveReq...` are single
transactions that may succeed, fail as `LmsUnavailableError` (with or without a
commit whose reply was lost; a refused row, `Poison`, is one too), or raise
something else, out of the statements or after the commit.  A failing disk may
keep a drain from renaming the file, from reading it (`drain()` then answers that
there is nothing, and unlinks it all the same) or from unlinking it (an `OSError`
leaves `drain()`), and an append from being written.  `Crash` kills the process anywhere, `Stop` and `Exit` are
`stop()` with its join that gives up, and both lead to a reboot over the files
that are left.  The history variable `mishap` names what may have dropped a
punch: threads that overlapped in the spool, a process that ended with punches
in memory, an exception of another kind, a failed disk.

- **Pipeline** (two punches, one of each fault but lost replies and stops):
  `LossNeedsMishap` - an answered punch is stored or held unless one of those
  four happened; `NoLockAcrossDatabase`; and `ImplementsDelivery`, the
  refinement of `PunchDelivery`.
- **PipelineShared** (one lock, lost replies, stops, a refused row):
  `SharedSpoolLosesNothing` - with a shared instance the overlap costs nothing.
- **PipelineLive** (fair): `AckedReachesLms` - if the LMS comes back for good,
  an answered punch is stored in the end; `IngestReturns` even if it never does.
- **BadOverlap** and **BadUnexpected** refute two sentences of the
  documentation: that two threads in the spool lose nothing, and that whatever
  is raised "the punch is safe in the spool either way".

Two punches are enough for a batch and a request, or a held punch and a new one,
which is all the code distinguishes; every fault is needed once, and the
worst traces use one or two of them.

Known limits that the model shows and no run states as a property of its own: a
kill between drain and save loses the batch; a cut line takes the first line of
the next append with it; a failed disk loses a punch that was answered OK; one
refused row holds up every row of its batch; an exception other than
`LmsUnavailableError` ends the flush thread, and a punch on disk then waits for
the next push although the LMS is up.  `AckedReachesLms` is checked without an
exception of that kind, so it says nothing of the dead thread, and
`IngestReturns` takes for granted that each call to the database ends: the code
gives it a connect timeout and TCP keepalive, and no statement timeout.

### LmsPool

Each read of `self._pool` is a step of its own.  Callers run `_connection`;
`Closer` is `stop()`.  The pool is thrown away on any `psycopg2.Error`: `getconn`
at the limit, a server that is away, a row that a live server refuses, and a
connection that ended with the server.  Such connections outlive the outage, in
the pool (`stale`) or in a caller's hands (`broken`), and fail whoever gets them
next.  An exception of another kind (`BodyRaises`) leaves the pool as it is.
`MaxFaults` bounds the refused statements and the other exceptions.

**Pool** (two callers and a stop, a limit of one so that exhaustion happens, two
outages, one refused statement or other exception) checks `NoForgottenPool`,
`ServerConnections`, `CloseReturns` and `Recovers`: a caller that is alone, and
whose statements are no longer refused, gets its answer after an outage, because
the pool with the dead connection is closed (without that `self.close()` the run
finds a caller that is given the dead connection for ever).  A row that is refused
every time is never stored: that is the bound on faults, and a limit named above.
A caller does not always see `LmsUnavailableError`: a `close()` between the two
reads of the finally clause leaves it an `AttributeError`, which the model
follows.  Two callers that both keep failing can throw away each other's pool.
Pool identities stand for objects in memory and are used again; more of them than
threads always leave one for a new pool, and six are enough for three.

### Liveness

Ages instead of clocks: `lastWrite`, `seenAt` and `contact` count up to the
heartbeat, and nothing tells older ones apart.  The executor is a queue whose head
is being run.  A call of a reader that posts data may interleave with other calls
while its body is awaited, and may end in `record_traffic_error`. A write that
ends in an exception of another kind may have been committed, and a note of an
error may fail whatever the LMS does, since every exception of it is suppressed.
**LivenessThrottle** (two readers, queue of two, one exception of another kind)
checks `StampIsFresh`, `ErrorShows`, `ShutdownReturns`, `CallersAreStamped` and
`QuietIsShown`: a reader that has fallen silent is in the end shown as silent,
whatever stamps of it wait in the queue or fail.  Two readers are the least that
share a queue, one unit of time is the least heartbeat, and two tasks the least
that can be reordered; larger heartbeats and queues are covered by the proofs.

### Readers and DeviceMigration

A reader stores a profile per PIN: whose it is, the name shown, and one
fingerprint slot.  It accepts one connection and refuses a second one.  A
request is a job of a worker thread that makes one TCP call per step: `connect`,
`read`, the writes, `verify`, `remove`, and `release`, which is the finally
block.  A call that fails may have been carried out.  `Raise` is the except
block: create and delete fall back on the command queue, the others answer with
an error.  A poll takes the head of a queue; the reader carries the command out
or the reply is lost.  A crash ends the workers and empties the queues.

**Migration** (two readers, four persons of whom one is nameless, ten requests of
eight kinds, three at most and two at a time, one failed call, one crash; 790,000
states):

- `LossNeedsDelete`: a person without any profile was stored at a place a
  deletion named, or was written over, or is known to a reader that carried out a
  queued creation: one that arrives on the source of a move between its read and
  its removal is deleted with it.  Moves, retries, failures and crashes alone
  lose nobody.
- `NamedReplacementNeedsPush`: a session writes over a profile with another name
  only if a queued creation took the PIN after the check.
- `ReaderLeftUsable`: a reader nobody talks to is locked only if a call to it
  failed (`fetch_device_users` disconnects without unlocking after an error).
- `NobodyWaits`: opposite moves cannot wait for each other.
- `OkMeansDone`: a deletion answered "ok" was carried out, with three exceptions:
  a template call whose failure pyzk swallowed, a creation that was queued before
  the session ended, and the batch deletion of templates, which answers "cleared"
  although the call raises for every finger, for the reason the comment in
  `delete_device_user_real` gives.

Three requests are a pair that interferes and one that is harmed or retried; two
readers are what a move needs.  `MaxPin` bounds the PINs: a step that has to
find a free PIN is taken only while there is one (`HasRoom`), as there is on a
reader with room for thousands; with four PINs every request of the run finds
one.

**BadMove** refutes the docstring "verifies employee + fingerprints on target
device": a template read that fails shortens the list, and a move goes on to
delete the source.

Two assumptions about readers come from the code's own account of them: one
connection at a time (`gunicorn_config.py:6-10`), and the exception pyzk raises
for a template deletion with a `user_id` (`device_migration.py:758-760`).

### EmployeeDirectory

A request loads all of `employees.json`, calls readers, changes one record of its
own list in place, opens the file (which truncates it), and writes the list.
These are separate steps of a worker thread, so two requests meet anywhere.  Two
writes at a time may garble the file, a failed write or a kill leaves it empty or
cut, and `load_employees` answers an unreadable file with the stock list, which it
also writes over it.  The stock list itself is a module constant whose records are
changed in place, which `Shared` models.  Migrating or deleting a profile is a
single step here, with its failures; `DeviceMigration` has the same calls one by
one.  A deletion forgets the name of its PIN in `user_names.json`, whether or not
the reader had the PIN, so `known` changes with it.  The action of an offboarding
is any string: "fire_all" is a dismissal, "delete_device" with a reader is about
that reader, and everything else deletes from every reader of the access list and
then drops only the reader it names. Requests are those with `simulate` false.  A
request with `simulate` true moves nobody and edits the list of the real readers
all the same, so with it `EntryWasStored` would not hold; it is not modelled.

History variables make the properties precise.  `excuses` names what has happened
so far that can set the list and the readers at odds: requests that overlapped, a
cache of names that disagrees with the reader, the id taken for the PIN where a
colleague has it, a nameless profile, the stock list written over, an offboarding
that is neither a dismissal nor about one reader, a failure, a kill.  `harmed` are
people whose profile was deleted for somebody else, `orphans` places dropped from
the list on purpose while the profile stays, `dismissed` the people whose
dismissal or removal was answered.

**Directory** (two readers; ann and ben with PIN 1 on a reader each, cal without
a name; twelve requests, two at a time, three in all or two and a failure):

- `EntryWasStored`: in every interleaving and through every failure, an entry of
  the list names a place where a profile was stored; access is never invented.
- `EntryIsOwnProfile` and `EveryProfileListed`: without an excuse the list and
  the readers agree in both directions.
- `OthersUntouched`: without an excuse nobody else's profile is deleted or
  written over.
- `ImplementsRegistry`: as long as the requests that save come one by one and
  nothing is reset, fails or is killed (`Calm`), the directory is an
  `EmployeeRegistry`: loading a list, calling readers, truncating the file and
  writing the list add up to one change of one record, as that record stands at
  that moment.  No change of another request is lost, no removed record comes back,
  and nobody is answered "dismissed" or "removed" who is still in service.  The
  table of the refinement mapping is `InForce`: the file, or the list about to be
  written to it, or the stock list that would replace it.

An excuse is recorded at the step where it happens, and a property that mentions
none holds through all of them.  What an excuse covers is what the code does, and
no property forbids it: of two requests that overlap one is lost; a PIN recorded
before a migration gave another one, a PIN guessed from the id, or a deletion that
failed after its entry was cleared leaves the list wrong.  The agreement
properties say that there is no other way.  Two people with one PIN are what a
wrong guess needs, three requests a pair that overlaps and one that reads what
they left.

**BadWipe** refutes the docstring of `fire_employee_and_wipe_biometrics`: with
one request after the other and no failure, a dismissal empties the access list,
and the removal that follows takes an empty list for "the id is the PIN on every
reader" and deletes a colleague.

### Dashboard

`listed` and `cache` are `PUNCH_LOGS` and `DEVICE_USER_CACHE`, `logsFile` and
`namesFile` the files they are kept in.  A handler of the event loop is a step up
to its next await; announcing a punch to the page and handing it to `ingest` are
steps of their own during which the loop does nothing else (`turn`).  A read over
TCP is a coroutine that starts, waits for `_DEVICE_TCP_LOCK`, reads in a thread
and resumes on the loop (`call`), and anything may happen between those.
`queries` and `asked` follow the USERINFO queries through the command queue to
the reader's answer; `edit` is a worker thread of an enrolment or deletion that
changes the cache and writes its file; `page` is one browser page with its first
fetch and its event stream.

**Dashboard** (one reader with an old and a new punch of one PIN, two reads over
TCP, three requests and failures together, one failure; 525,394 states, about
three minutes):

- `SyncAddsOnce`, `SyncOffersAll`: a sync adds no second row for a PIN and time
  whatever was pushed or synced while it read, and everything it read has been
  handed to `ingest` when it ends, also when a file could not be written; a kill
  is the one exception.
- `NamesShown`, `KnownNameKept`: a row shows the name in the cache, and a read in
  the background does not undo a name learned meanwhile, a failed write included.
- `LogsFollow`, `NamesFollow`: a restart brings back the rows and names in memory
  unless a write failed or was disturbed.
- `PageShowsOwed`: a page loses no row that reached it while it was connected and
  waited for no answer.
- `TcpFreed`, `NameLearned`: the lock is given back, and a PIN without a name gets
  the one its reader has.

Two punches of one PIN, one on each side of the history window, are what the
filters and the comparison by PIN and time distinguish; two reads are the least
that compete for the lock; the worst traces use two requests and a failure.

The model also shows these facts, which the properties make room for.  Two
readers that share a PIN share its name and the key by which rows are compared.
A punch older than thirty days never stays in the list, so every sync announces
and ingests it again.  A name found in the LMS or given by an enrolment does not
rename rows already listed, and names that a reader sends rename rows without
writing `attendance_logs.json`.  A kill between a broadcast and its ingest
leaves a row that no sync offers again.  The worker thread's dump of the names
may meet the loop's.  A page may miss rows between its fetch and its stream or
while it reconnects.

## Fairness

`PunchPipeline`: each thread goes on when it can, and a process told to stop
stops; weak fairness, since no step of a thread is disabled by the other for
ever (locks are released within the same call).  Nothing is assumed about the
LMS or about readers: `AckedReachesLms` states its condition.
`LmsPool`: a call that has begun goes on; a lock that is free again and again is
obtained, which is strong fairness on the two steps that take it.
`Liveness`: the worker runs, time passes, and `shutdown` goes on when the queue
is empty.  `DeviceMigration` needs none: that a request can always go on is the
invariant `NobodyWaits`, and no request has a loop but the one over the PINs of
a batch, which gets shorter with every step.
`Dashboard`: the event loop and the threads go on with what there is to do, each
read over TCP goes on by itself (pyzk has a timeout), and a reader polls every
few seconds and answers what it is asked; weak fairness throughout.
`EmployeeDirectory` states no liveness; that its requests have a bounded number of
steps is a theorem.

`CHECK_DEADLOCK FALSE` is set for the runs of `DeviceMigration`,
`EmployeeDirectory` and `Dashboard`, where a behaviour ends when its bounded
requests are used up.

## Proofs

`PunchPipelineProofs` proves, for any set of punches, locks and faults, type
correctness, `LossNeedsMishap`, `SharedSpoolLosesNothing`,
`NoLockAcrossDatabase` and `ImplementsDelivery`, and of `PunchDelivery` itself that
it keeps its promise.  None is inductive by itself: the argument needs to know
where a thread's punches are at each step.  The invariant is

    TypeOK /\ Placed /\ (mishap = {} => Orderly /\ NothingLost)

`Placed` ties a thread's step to its lock, its handle and its batch.  `Orderly`
says that without mishap the staging file belongs to the one thread that is
draining, and an append goes to the file that has the spool's name.  Each step
then moves punches from one place to another or records a mishap.
`FlushSurvivesOutages` adds what keeps held punches moving: outages, refused rows
and lost replies never end the flush thread, which is gone only after a stop or an
exception of another kind, a failed disk's included.

`LivenessProofs` proves type correctness, `StampIsFresh` and `ErrorShows` for any
readers, heartbeat and bounds, from

    TypeOK /\ Drained /\ \A s \in Serial : Throttled(s) /\ Noted(s)

`Throttled` says that what the throttle remembers is backed by a stamp still
queued or by one at least as new in the LMS, and is less than a heartbeat older
than the last call; `Noted` that the error of a reader whose last call failed is
in the LMS with no stamp queued, or queued behind every stamp; `Drained` that
after the last request nothing is submitted.

`LmsPoolProofs` proves type correctness, `NoForgottenPool` and
`ServerConnections` for any number of callers, closers, connections and outages,
from

    TypeOK /\ Placed /\ NoForgottenPool /\ Limited

`Placed` says who holds the lock and what a thread still refers to at each step,
`Limited` that no pool, closed ones included, hands out more than it may.  The
one assumption beyond types is that there are more pool identities than threads.

`DeviceMigrationProofs` proves type correctness, `ReaderLeftUsable`,
`NamedReplacementNeedsPush`, `LossNeedsDelete` and `OkMeansDone` for any
readers, profiles, requests, workers and faults, from

    TypeOK /\ (\A w : Working(w) /\ Moving(w) /\ Deleted(w))
           /\ QueueOrdered /\ Recorded /\ Kept
           /\ ReaderLeftUsable /\ NamedReplacementNeedsPush

`Working` says which connections and which request a worker has at each step: a
reader's single connection keeps every other worker away, so only queued commands
change what a session has read.  `Moving` says that what is deleted was
asked for, that the source of a migration is still whose it was, that once
written the target has the person, and that what is about to be written over is
free or has the same name, each unless one of the three exceptions happened.
`QueueOrdered` carries the first over to the command queue, `Recorded` says that
`held` misses no stored profile, and `Kept` is `LossNeedsDelete` in a form that
the steps preserve.  `Deleted` says that until a deletion has released its reader,
whatever it was asked to delete and is still there is on the list of what it has
left to do, or its answer is already a failure: other workers are kept away by the
connection, and a command that the reader executes meanwhile adds no templates,
and no profile except by a creation, which is the third exception of
`OkMeansDone`.  TLC checked this invariant on the instance of **Migration**
before the proof; the third exception of `LossNeedsDelete` was found by the proof
and then confirmed by TLC on a run with a creation at the source of a move.

`EmployeeDirectoryProofs` proves what holds through overlapping requests, failed
calls and writes, resets and kills: type correctness and `EntryWasStored`, from

    TypeOK /\ (\A w : Placed(w)) /\ ListsBacked

`Placed` says which step a thread is at and what its request may then be, the
nested removal included.  `ListsBacked` says of every list there is - the stock
list, its changed copy in memory, the file, and what each thread has loaded, its
outer request included - that it names only places where somebody was stored, and
the same of the PIN a thread is about to enter.  No step makes a list out of
anything but another list and such a PIN, so overlaps cost updates but never
invent access.

`EmployeeAgreementProofs` proves the four properties about requests that come one
by one.  `ImplementsRegistry`, and that the dismissed stay out of service
(`OffboardedStays`, which the run leaves out since the refinement says more),
follow from `Calm => Tidy`, where `Calm` says that there was no overlap, reset,
kill or failure, and `Tidy` that one thread writes the file, that what a thread
has loaded is what the file has (`InStep`; a removal that runs inside a dismissal
has written its one employee, and differs nowhere else), and that nobody dismissed
is in service in the file or in the list about to be written.  Every step but two
then leaves `InForce` as it is: `Update` is the registry's change of one record,
and `Write` its answer.  That a registry keeps its own promise is a theorem about
`EmployeeRegistry` alone. `EntryIsOwnProfile`, `EveryProfileListed` and
`OthersUntouched` follow from `excuses = {} => Untouched`: the list agrees with
the readers in both directions, except for what the one request has done to the
readers and not yet written, or will clear from the list and has not yet deleted
(`Agrees`, `Due`). These three assume `StartsInAgreement`, that the list and the
readers agree when the service is first started.  Nothing in the code makes it so
- it is the premise of "nothing went wrong" - and so it is not an assumption of
the module but a hypothesis of the three theorems; `MCEmployeeDirectory` assumes
it as well, so TLC evaluates it on the instance of **Directory**, which satisfies
it.

`DashboardProofs` proves all of `Dashboard` that is not liveness: type correctness,
`NamesShown`, `LogsFollow`, `NamesFollow`, `PageShowsOwed`, and the action
properties `SyncAddsOnce`, `SyncOffersAll` and `KnownNameKept`, from

    Types /\ SavedList /\ NamesFollow /\ NamesKept /\ PageHas /\ Accounted /\ Synced

`Types` includes that no old punch stays in the list or its file and that a read
has brought back only records of its own reader.  `SavedList` is `LogsFollow` of
the file itself; a start may prune it, and does not, since the list was pruned
when it was saved.  `NamesKept` adds to `NamesShown` that a push still under way
has parsed its rows with names the cache has.  `PageHas` says that what the page
is owed is in the list and, when an answer is on its way, in the answer: so an
answer that replaces the page's rows loses none.  `Accounted` says that what is
listed, in memory or on disk, has been handed to ingest or is about to be;
`Synced` that what a sync still has to add has the key of no row and no two of one
key, and that with this it has offered all it read.  The handlers are first shown
to change the lists in one of nine ways, and each part of the invariant is then
shown to survive each of the nine.  That no write of the list is forgotten and
that a sync compares with the rows of after its await are thus facts about every
path.

The invariants of these three modules, too, were checked by TLC on the instances
of **Directory** and **Dashboard** (`Agrees` for the lists that occur there).

### Every call comes to its end

What the liveness properties need beside fairness is proved for every instance: a
number that bounds the steps a call has left, that its own steps lower and nothing
else raises, and that only what is named can hold it up.

- `RequestsEnd` of `DeviceMigrationProofs`: a request has at most ten calls ahead of
  it, and one for each PIN; at each call the guard of one of its steps holds, unless
  the reader has no PIN left, the bound of the model; and no failure, crash, polled
  command or other request takes it back.
- `RequestsEnd` of `EmployeeDirectoryProofs`: at most eleven steps, the loop over the
  readers of an offboarding counted as one, and each turn of that loop takes one
  reader off its list.  A permanent removal counts for more than a dismissal because
  it loads the file once more inside.
- `IngestHeadsForAnswer`: at most nine steps from a push to its answer, whatever the
  LMS does.  Only a spool lock that the flush thread shares can hold it up, and that
  thread then has at most two steps to its release, none of them a call to the LMS.
- `CallsReturn`: a call into the pool has at most ten steps left and waits for
  nothing but the lock; one thread has the lock, and it waits for nobody.
- `ShutdownHeadsForClose`: once the worker of contact stamps is told to stop, no task
  is added, the head of the queue can run, and the close is at most `MaxQueue + 1`
  steps away.
- `QuietHeadsForSilence`: without a call of a reader no stamp of it is queued, each
  task brings those that are one place nearer, and once they are gone the LMS has
  only older news of it.

Three more theorems state no property of a run.  `AloneIsAnswered`: a thread that
has an `LmsDatabase` to itself never sees the `AttributeError` described above;
only calls that share one do.  `MovesVerifyTheEmployee` is the half of the docstring
that **BadMove** does not refute: when a move is about to delete the source profile,
that person is stored on the target, with the exceptions of `LossNeedsDelete`.
`SessionsAreExclusive`: what a reader stores changes only in a step of the request
that holds its connection, or by a command it polled.

### Assumptions, and what is left to TLC

The assumptions are the named `ASSUME`s of the modules, which the runs evaluate.
They say what kind of values the constants are, with these additions: there are
more pool identities than threads, the lists the service is delivered with name
only places where somebody is enrolled, and an unreadable file is neither a table
of names nor a list of rows.

Only model-checked: everything under fairness (`AckedReachesLms`,
`IngestReturns`, `CloseReturns`, `Recovers`, `ShutdownReturns`,
`CallersAreStamped`, `QuietIsShown`, `TcpFreed`, `NameLearned`), since the prover has no rule for
fairness that does not need `ENABLED`, and `NobodyWaits`, which is stated with
`ENABLED`; of `IngestReturns`, `CloseReturns`, `ShutdownReturns`, `QuietIsShown` and
`NobodyWaits` the part that needs neither is proved, as the section above says.  The runs that
expect a violation are counterexamples and have nothing to prove.  Every other
property of every run is a theorem.

## What could follow

1. `EmployeeDirectory` over the steps of `DeviceMigration` in place of its single
   step for a migration.
2. Device migration, the rest: the mirror table and the name caches that
   operations update, and identical names.

## Not modelled, and why

- Health endpoints only read; the threads they add are callers of `LmsPool`.
- Settings, models and logging are values and formatting; the standalone runner
  explains itself and exits; tools are scripts run by hand; tests and deployment
  are read as statements about the program.
- What the page renders, and its tabs for readers and employees.
- The simulated readers, a dictionary without failures, and requests with
  `simulate` true, which edit `employees.json` although no reader was touched; the
  probe and `resolve_target_pin` as requests of their own, which only read.
- Parsing of attendance lines and of user tables: a batch of punches or a table
  of names is an input.
- The text and the columns of SQL statements: `save_punches` is one transaction
  over a set of rows, which succeeds, is refused, or loses its reply.
- Letter case of serials and the number of an ADMS command, which are below the
  level of these models; where that hides a hazard, `PROJECT.json` says so.
