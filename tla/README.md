# Verification of quantum-as-a-service

TLA+ models, TLC runs and TLAPS proofs for the programs of this repository: the
service beside the quantum computer, the accounting database it bills to, and
the two Python clients (`qaas.client`, which polls, and `qheappe_client`, which
listens to events).  Paths below are relative to the repository root.

## 1. The system

A user submits circuits with a client.  The client creates a job in HEAppE (the
HPC middleware), uploads files to the job's directory, and submits it.  HEAppE
runs `run.sh` on the machine beside the quantum computer.  `run.sh` sends one line
over a Unix socket to the backend service and waits.  The service checks the
allocation of the user's project in the internal accounting database, runs the
job on the IQM server, answers `DONE`, and bills the QPU seconds.  The client
learns that the HEAppE job has ended and downloads the results.

| Component | State it keeps | Operations | Talks to |
|---|---|---|---|
| Internal accounting database (`backend_scripts/internal_accounting_table`, `backend_service_consumption.py`) | charges, tasks, one summary per resource | record a job, correct a row, delete a row; the trigger on each | the service; an administrator |
| Backend service (`src/qaas/iqm_backend`) | the connection it works on, usage and object caches | accept, check the allocation, run, answer, bill | `run.sh`, IQM server, LEXIS, the database |
| Event-driven client (`src/qheappe_client/qclient.py`, `qiskit/qbackend.py`) | session, event-loop thread, project-id and cluster caches, last known job status | connect, bind, discover, submit, await, fetch, cancel, close | HEAppE REST and event WebSocket, LEXIS |
| `QProvider` (`qprovider.py`) | cached clients | get a backend or a QPulla, list, clear | event-driven client |
| `QPulla` and `HEAppEExecutor` (`qpulla/`) | record of jobs | submit, look up, fetch artifacts, cancel | event-driven client |
| Polling client (`src/qaas/client`) | authorization, learnt architectures, job data, last status, cancelled flag | log in, create, upload, submit, poll, cancel, close | HEAppE REST, LEXIS |
| Stack compatibility (`iqm_compat/`), result conversion (`qiskit/qbackend_iqm.py`, `utils.py`), token encryption (`cryption_control.py`), deployment scripts | none | pure functions, one-shot I/O | - |

What makes them correct, and what is hard about it:

- **Accounting.** The total the service decides on must be the sum of the charges
  although it is maintained incrementally by a trigger; no job is billed twice.
- **Service.** A user may overdraw by one job at most; is billed for nothing that
  was not delivered; everything delivered is billed.  Hard: clients that give up
  while their job is on the machine, waits that time out, crashes between the
  answer and the bill, database errors that are swallowed.
- **Event-driven client.** A waiter learns of the end of its job.  Hard: the
  snapshot of the state and the subscription to events are two calls.  A session
  is closed once, never under a running call.  Hard: synchronous calls from an
  event loop, views that share a session, failures half way through connecting.
- **Discovery.** The client uses the resource that was meant and knows why a
  backend is unavailable.  Hard: coroutines of all backends and all callers want
  the same project id, any request fails alone, and the client is closed and
  connected to another resource while they wait.
- **Provider and executor.** A QPulla works on the resource it was asked for, and
  what is remembered of a job is true.  Hard: several threads between look and use
  of one cache, lost answers, look-ups that overlap submissions.
- **Polling client.** Only a sound login succeeds; no job starts without its files;
  a call that failed leaves no upload behind; an answer from the service's caches
  is not older than they may be; a wait ends.

`PROJECT.json` lists the hazards one by one with the line where each bites.

## 2. Modules

```
RunningTotal            sums of arrays
  ConsumptionLedger     the accounting database        <- MCConsumptionLedger
    IQMBackendService   the service, run.sh, IQM       <- MCIQMBackendService, IQMBackendServiceProofs (of both)
       |  implements
    Metering            what an allocation's owner is promised

HEAppEStates            the states of a job
  HEAppEJobs            HEAppE: jobs and their event WebSocket (not in the repository)
    QJob                a job's handle in the event-driven client  <- QJobProofs, MCQJob
    PollingJob          a job's handle in the polling client       <- PollingJobProofs, MCPollingJob
       |  both implement
  JobPromise            what a handle may tell its user

QClientSession          connect, close and what they share     <- MCQClientSession, QClientSessionProofs,
                                                                  QClientSessionCarefulProofs
Discovery               resources, clusters, project ids       <- DiscoveryProofs, MCDiscovery
PulseAccess             QProvider and HEAppEExecutor           <- PulseAccessProofs, MCPulseAccess

LegacyLogin             what the polling client's constructor decides
  LegacyClient          its commands, and the service's caches <- LegacyClientProofs, MCLegacyClient
```

A `World` (of `Discovery`, `LegacyClient`, `PulseAccess`) is chosen at `Init` and never
changes: it says what LEXIS and HEAppE may answer and which operations a program
uses, so that one run covers several scenarios, each within bounds of its own.

### ConsumptionLedger

`entities`, `tasks` and `summaries` are the tables of
`internal_accounting_table_pgsql_init.sql`.  A resource is the pair of a location
and a resource name.  A step is a committed transaction.

| Action | Code |
|---|---|
| `RecordConsumption` = `UpdateExistingTask` or `InsertNewTask` | the two scenarios of `record_consumption_to_internal_db` |
| `CorrectEntity`, `DeleteEntity` | the other statements the trigger is declared for; only an administrator issues them |
| `SubtractOld`, `AddNew` | the two halves of `maintain_resource_consumption_summary`, run inside every statement |
| `CurrentConsumption` | `fetch_current_consumption_internal` |

Columns nothing here depends on (collector, user, project, state of a task) and
the `Sessions` table, which no code writes, are left out.  QPU seconds are
naturals in place of doubles: rounding is not modelled.

### IQMBackendService

It extends the ledger with the service, its clients and the IQM server.

| State | Code |
|---|---|
| `client`, `reply` | `run.sh` and the line its `nc` has received |
| `backlog`, `active`, `stage` | the kernel's accept queue, the connection of `handle_connection`, how far it has come |
| `newConsumption`, `seen` | `_new_consumption_cache`; `current_consumption` of the entry of `_consumption_info_cache` |
| `job`, `usage` | the job at the IQM server and its time between `execution_started` and `execution_ended` |
| `saved`, `reported` | `results.pkl` and `job.pkl`; `job.consumpted_resources` |

The handler is cut into steps where it leaves the process (socket, database,
LEXIS, IQM server, disk), because a client, the server and a crash can act
between them.  `Accept`, `Close` are the loop of `start`; `Refuse`,
`GetAccountingInfo`, `PassCheck`, `FailCheck` the part up to the dispatch;
`SubmitJob`, `GiveUpWaiting`, `CollectResult`, `FailAfterRun` are `backend_run` and
`pulla_submit_playlist`; `AnswerDone`, `Bill`, `FailToBill` come after them.  `HangUp`
is the 60 seconds of `nc`, or HEAppE killing the task.  `Crash` loses the caches
and the connections, and `Restart` is systemd.

`Mishaps` says what may go wrong in a run: a client hangs up, the service crashes,
the database fails, a wait times out, a job fails, its timeline has no execution
times, the task's directory cannot be written.

Commands that are not accounted are one step: what they write is pure I/O.  A
HEAppE job has one task and one IQM job, so one identifier stands for the three.

### Metering

The abstract specification: at most one job at a time holds a grant, a grant is
given only while the billed amount is within the allocation, and a grant ends in
one bill of at most `MaxUsage` or in none.  `IQMBackendService!ImplementsMetering`
states the refinement: the bill is the summary in the database, the grant is held
from the consumption check to the bill.

### HEAppEStates, HEAppEJobs

The states are those `HEAppEJobState.readable` names, the terminal ones are
`TERMINAL_JOB_STATES`.  `HEAppEJobs` is HEAppE as the clients see it: a job moves
ahead (`Advance`), ends (`End`; as `CANCELED` only if that was asked for), or has a
cancellation accepted (`AcceptCancel`).  Every change of every job goes to the
WebSocket that is connected at that moment, and to nobody otherwise (`MoveTo`).
It is external: only what `iter_events`, the REST calls and their tests rely on.

### QJob

| State | Code |
|---|---|
| `submittedState` | `_submitted_job["State"]`; `NotFetched` when it or `"Tasks"` is missing |
| `lastKnown`, `cancelRequested` | `_last_known_status`, `_cancel_requested` |
| `artifacts`, `resultCache` | `_artifacts` with `_artifacts_have_measurements`; the keys of `_result_cache` |
| `pc`, `format`, `outcome` | where the running call of `result()` is, its arguments, how the last one ended |
| `connected`, `inFlight` (of `HEAppEJobs`) | the WebSocket of `iter_events` and what it has not delivered |

`result()` is cut where it talks to HEAppE, since the job moves between two
requests: `CallResult` (cache, noted state), `FetchInfo`, `Subscribe`, `SkipEvent`,
`ReceiveEnd`, `FetchArtifacts`, each with its failure.  `Interrupt` is Ctrl-C, which
`except Exception` does not catch.  `Conclude`, `Convert`, `Raise` are the ends of a
call, and `RaiseWaiting` the `except` clause of `qbackend.py:341-344`: whatever fails
while the call asks or waits for the state is raised as "Job N failed", or as "Job N was
canceled" once `cancel()` was called.  The history variable `lost` notes that the last
call ended so.  `Status` is `status()`.  The three booleans of a cache key are two here: the
bit order acts on the cache as the result type does.

### PollingJob

The `QJob` of `qaas.client`: `FirstPoll` and `Poll` are `get_job_status` before and in
the loop, `Check` is the look at the clock and then at the status, `DeadlinePasses` is
time, `CancelAfterTimeout` and `Cancel` are `cancel()` inside and beside the loop,
`FetchFiles` is `get_job_results`.  `result()` and `wait_for_final_state()` are one loop
with two endings (`call.name`).

### JobPromise

The state of a job, whether the user asked to cancel it, what the last call
reported, and whether it lost HEAppE (`lost`).  `Move`, `AskToCancel` and `Tell` may
happen in any order; `MayReport` says which report is allowed in which state.  A result
is only reported of a finished job.  A failure is reported only of a failed job and a
cancellation only of a cancelled one (or of one that failed after `cancel()`), except by
a call that lost HEAppE while it asked or waited for the state: of such a call the event-driven
handle raises the same error as of a job that failed, so there the promise says nothing
(see the known defects).  Both handles implement it although one trusts events and the
other trusts polls (`KeepsPromise` in each); the polling one raises errors of its own
types for failed requests and needs no excuse (`lost` is `FALSE` there).

### QClientSession

The event-driven client as a shared object: who may use its HTTP session, on which
event loop, and until when.

| State | Code |
|---|---|
| `phase`, `queue` | each event loop: how far `_LoopThread._main` is with it, the callbacks scheduled on it; loop 1 is the application's |
| `home`, `open` | `_session_loop` of each `ClientSession` that was made, and which are not closed |
| `loopThread`, `authenticated`, `session`, `resource` | `_loop_thread`, `_authenticated`, `_session`, `_lexis_resource` of the client and of each view |
| `tasks` | the coroutines handed to loops: `_connect`, `aclose`, or any request |
| `call` | where each caller is in `_run`, `run`, `connect` or `close` |

A thread has the synchronous API, a cell (a coroutine of the application) both; a
cell in a synchronous call blocks its loop.  A loop takes callbacks in order: `Start`
makes a task, `Step` is its first turn (`Connect`, `Close`, `Use`), `Cancel` ends it,
`ForwardedRequest` and `ForwardedClose` are what `_on_session_loop` sent from another
loop.  `Stop`, `Drain` and `CloseLoop` are the end of `_main`: a loop that was stopped
cancels its tasks and goes on turning until it is closed.  `Authenticate`,
`FindResource`, `Serve`, `Refuse` and `FinishClosing` are the continuations of a coroutine
when the network answers.

A call is cut where another thread can come between: `Enter` (is there a loop
thread?), `CreateLoop`, `Submit`, `Finish`; `ReadLoop`, `SubmitClose`, `FinishClose`,
`StopLoop`, `Join` for `close()`.  `Interrupt` is Ctrl-C: the call returns at once and the
cancellation of its coroutine follows through the queue.

One request stands for each stage of `_connect` (LEXIS, resource) and for every other
method; clusters that cannot be reached do not fail `_connect`.  Not modelled:
injected sessions, the `atexit` hook, a `join` that takes more than its ten seconds, an
application that ends its loop under the client.

### Discovery

What a client knows of its backends, on top of a session that `QClientSession` takes
care of.

| State | Code |
|---|---|
| `authenticated`, `generation`, `active`, `closed` | `_authenticated`; which `_lexis_resource` (a new one per connection); `_active_cluster`; which life of the client |
| `resource` | the `LEXISResource` of each generation with its `QCluster`s: ids, node type, project id, machine info, `available`, `error` |
| `ids`, `held` | `_heappe_project_ids` and the locks of `_project_locks`, keyed by URL and loop |
| `view` | what `bind()` returned: the fields it copied, caches shared with the client |
| `call` | for each caller: the operation, and for every backend which request it is at |

`Connect`, `Authenticate`, `Authorize`, `Refuse`, `Resolve`, `FailToResolve`, `Load`,
`Connected` are `_connect` with `_verify_token`, the two LEXIS requests and
`_resolve_heappe_instance` for each instance; `Close` is `aclose` with the clearing of
what was learnt.  `TakeLock`, `FindProject`, `FailToFindProject` are
`_project_id_for` under its lock, with the second look; `LearnMachine` and `FailToLearn` are the machine info and what a failure
writes to `error` and `available`.  `Validate`/`Validated` are `get_backend` and `bind`,
`Refresh`, `RefreshAll`, `Submit`, `Finish` the operations named so.  The coroutines
that `gather` runs for the backends of one call proceed independently (`call[t].at`).
`Reassign` is LEXIS: from some connection on it answers differently.

No call starts while a connect is running (that is `QClientSession`'s subject); the
order in which an `asyncio.Lock` is passed on is left open; project names are taken to
be unique within a HEAppE instance; `get_backend` through a view and readers that
change nothing are left out.

### LegacyLogin, LegacyClient

`LegacyLogin` has no state: `Outcome` is what `QClient.__init__` of `qaas.client` decides
(`"ready"`, `"refused"`, or `"crashed"` with an error nobody raised on purpose) and
`Site` what it then works with.  `Trusted` and `Member` are the token and the project,
`Automatic` and `ByName` the two ways to a resource, `Machine` and `Compatible` the
announcement of the backend, `Placement` and `Template` the two-pass search for the
command templates.

| State of `LegacyClient` | Code |
|---|---|
| `login`, `open` | how the constructor ended; `_authenticated` |
| `call` | where the running operation of each program is |
| `learnt` | `_dynamic_quantum_architectures` of the client |
| `jobs` | HEAppE's jobs with the files in their directories |
| `serving`, `store` | the job the service answers; its `TTLCache`s of calibration sets and architectures |
| `now`, `history`, `current` | ticks, the default set at the start of each, the default set |

`RunCircuits`, `InitBackend`, `GetPulla`, `GetCalibrationSet`, `GetDynamicArchitecture`
begin an operation.  `CreateJob`, `UploadToken`, `StartUpload`, `EndUpload`, `Gather`,
`Cancel`, `Raise`, `SubmitJob` are the way every operation to HEAppE takes, in
`submit_quantum_job` with a pool of threads: a failed upload
cancels those that have not begun, `Raise` waits for those that have
(`ThreadPoolExecutor.__exit__`).  `Answer` and `ResultsFailed` end the wait.  `StartJob`
and `Kill` are HEAppE.  `TakeJob`, `LookUp`, `Fetch`, `FailToFetch`, `Save`, `Conclude` are
the handlers of the backend service that use its caches; an entry may expire between
`LookUp` and `Save` (`Tick`).  `Recalibrate` is the computer.  A calibration set is the
number of sets before it, which orders answers by age.  Accounting is
`IQMBackendService`'s; the size limit of the caches is left out.

### PulseAccess

| State | Code |
|---|---|
| `granted` | the quantum resources of the project, as LEXIS has them now |
| `clients`, `cached` | the connected clients; `QProvider._clients` |
| `pullas` | the QPullas handed out, each with `HEAppEExecutor._jobs` |
| `ids`, `stamps` | the run and sweep ids inside a `RunDefinition` object; those drawn so far |
| `heappe` | the jobs at HEAppE with the payload they were given |
| `call` | where the call of each thread is |

`GetPulla`, `Reuse` (or `Open`), `Connect`, `Keep`, `Bind` are `get_pulla` with
`_get_client`: the look into the cache (`Find`), the login (`Connect`) and the write to
the cache (`Keep`) are separate steps, so other threads come between; the two
assignments of the write are one step.  `ClearCache` and `Close` are the program clearing
the cache and closing a client it was given, `Regrant` is LEXIS.  `SubmitJob`,
`Serialize`, `Accept`, `Answer`, `Record` are `submit_job`: fresh ids are stamped into the
caller's object (`Stamp`), which is serialized later; the job is at HEAppE (`Accept`)
before its number has come back (`Answer`), if it comes; then the record is written.
`GetArtifact`, `LookUp`, `Fetch` are `_task_artifact` with `_task_id`: what was read before
the request is stored after it (`RecordOf`).  `Fail` ends a request that fails, and with
it the call.  All views of a client share its loop thread, so a call that waits for a
request when another thread closes the client may be lost (`Lost`, the defect of
`session_call_lost`): `Close` chooses which of the waiting calls are.  A client is not
closed between its login and its first use, as nobody but `_get_client` has it yet.
Station artifacts, `cancel_job` and pure readers are left out, and so is a program
that reconnects a client the cache still holds.

## 3. Runs

| Run | What it shows | Bounds |
|---|---|---|
| `ledger` | the summary is the sum of the charges; tasks and charges one to one | 2 resources, 2 HEAppE and 2 IQM ids, 3 rows, factors 1 and 2: enough to move, re-record, delete and re-insert rows of both resources |
| `service_promise` | the overdraft bound, every delivered job is billed unless the service crashes, the service implements `Metering` | 3 requests for 2 resources with allocations 1 and 3, jobs of up to 2 seconds: the first is exhausted by one job, the second by two; hang-ups, timeouts, one crash |
| `service_delivery` | who is billed got the results and pays for no more than was used; the total in the job is the database's; every connected client is released | 2 requests, all commands, a backlog of 2, everything may fail, one crash |
| `service_unbilled` | *violated*: accounted machine time can stay unbilled | 2 clients, one of which hangs up |
| `qjob` | no end is missed once connected; measurements are not replaced by counts; a connected call returns; `JobPromise`, with its excuse for a call that lost HEAppE | 2 calls in any format, 1 other job on the stream, every failure |
| `qjob_result_returns` | *violated*: `result()` may never return | 1 job, nothing fails |
| `polling` | cancelled means asked; every wait ends; `JobPromise` | 3 calls, every failure, cancellations from elsewhere |
| `session` | a client that says it is authenticated is connected, also after failures and interrupts; nothing is left open; a session is used on its own loop; every call returns; with callers that do not take turns, a session is still closed where it was made | a cell, a thread and a view: 4 calls in turn with failing requests and cancelled coroutines, or with interrupts; 2 calls at once; 4 calls whose `close()` is interrupted |
| `session_call_lost` | *violated*: a call handed to a loop that is being stopped is lost | a cell and a thread, 3 calls at once, nothing fails |
| `discovery` | the resource in use is the one meant; an unavailable backend says why; a failure at one instance stays there; a project is looked up once per connection; a connection's knowledge does not pass to the next; every operation ends | 2 callers on one loop or two, 2 backends on 1 or 2 HEAppE instances, up to 2 connections, 3 or 4 calls, 1 failing request; 6 worlds: a project that moves to another resource, lazy loading, several resources, tokens and projects that expire, clusters that are hidden, absent or bare |
| `legacy` | a client that is let in is sound; a queued job is complete; uploads end with their call; a default set is current, an architecture at most `TTL` old; every call ends | 16 worlds of one login each; 7 worlds of work: 2 programs, 3 files for 2 threads, 2 jobs, 2 failures, 2 calibration sets, entries that live 2 ticks |
| `pulse` | a QPulla is on the resource asked for; a name shares the client chosen automatically; records are true and kept; run ids are fresh; every call ends, unless it was waiting on a client that another thread closed | 7 worlds: 2 threads, 2 resources, up to 4 QPullas, 6 calls, 3 jobs; clients closed, the cache cleared, the project moved, answers lost |

One crash suffices: a crash resets the process to its start with the database and
the IQM jobs as they are, so a second one meets no state the first cannot.  Two calls
of `result()` suffice because a call leaves nothing behind but the caches and the
noted states, and two calls in the four formats reach every combination of those
that a third could start from.  A call that polls leaves less.  Four calls of a client
are connect, bind, close of one and use of the other, or two lives of the client.  Two
callers of `discovery` are one that holds the lock of an instance and one that waits
for it, and a third connection would only repeat the second.  Three files for two
threads make an upload that has not begun when another fails.  The programs stop
when their calls are used up, so these runs do not check deadlock: that every call
ends is a property of its own.

**Fairness** (`FairSpec`): the service's loop and the step it is at
(`WF` of `Accept` and of `Handle(q)`: a process that is up keeps running),
`Restart` (systemd has `Restart=on-failure`), and the IQM server gets to every job
(`ExecuteJob`; without it a `pulla_submit_playlist` waits for ever, the code sets no
limit).  No client is assumed to connect or to hang up.

For the jobs: HEAppE moves every job on and ends it, since each task has a
walltime limit (`WalltimeLimitSecs`); the client takes its next step, but nothing
is forced to fail, so a broken socket is no way out of a wait (`Proceed`).  In the
polling client `Wait` is fair; time need not pass.

For the session: threads, loops and the network do not all stop while one of them
can go on (`SystemStep`; every request has a timeout).  No call, interrupt or
cancellation is assumed.  In `Discovery` and `PulseAccess` a call that is under way takes a
step (`Step`: every request is answered or fails by its timeout, and a loop runs what
is ready).  A call of `PulseAccess` that went to a loop as it was stopped is not under way
any more (`"lost"`): no step is left to it, none is assumed, and `EveryAccessEnds` names
it as the exception.  In `LegacyClient` also the threads of the pool (`Pool`), HEAppE starting what is
queued (`StartJob`) and the service (`Service`) go on; no job is assumed to be killed and
no time to pass.  In none of them is a call assumed to begin.

**Findings.**

- `service_unbilled`: the command is marked as accounted, but `DONE` is sent before
  the bill.  A client that is gone by then makes `sendall` raise, the handler jumps to
  its end, and the job is free of charge.  `run.sh` gives up after 60 seconds of
  silence, the service waits up to 29 minutes.
- `qjob_result_returns`: `result()` waits on events because the state noted at
  submission was a live one; if the job ends before the WebSocket is connected,
  nobody ever tells.  The same happens in every later call in another format, since
  each call starts again from the submitted state.
- `session_call_lost`: a stopped loop collects its tasks, then turns until they and the
  executor are done.  A coroutine submitted in that time is accepted
  (`is_closed()` is still false), and its future is never completed.

**Known defects** that came up while modelling and that no run repeats.  The models
have them as they are unless it says otherwise.

Event-driven client, jobs:

- Whatever fails while `result()` asks or waits for the state is reported as the end of
  the job: "Job N failed", or "was canceled" once `cancel()` was called
  (`qbackend.py:341-344`), though the job may be running and a later call return its
  result.  `docs/api.md:164` and the docstring (`:306`) have `RuntimeError` for a job that
  failed or was cancelled.  `JobPromise` excuses such calls (`lost`) and no others; so a
  `RuntimeError` of `result()` is to be believed only if it has no cause
  (`__cause__`).  Missing measurements and an answer without artifacts are errors with
  messages of their own.
- `status()` makes no query though its docstring says so (`qbackend.py:234`): a handle
  nobody waits on shows the submitted state for ever.
- `QClient.cancel_job` is a coroutine function that `cancel()` calls and drops
  (`qbackend.py:386`); after it `status()` raises (`JobStatus.CANCELED`), and queued jobs are
  shown as errors (both are marked in `tests/qheappe/test_unit.py`).
- `get_job_results` is keyed by task id while `_get_artifacts` looks the job id up in
  it; measurements that were not there yet are noted as downloaded.
- A submission that fails half way leaves its job behind, configuring.

Event-driven client, session and discovery:

- When `aclose()` and `connect()` overlap, or `close()` is interrupted before its
  coroutine had a turn, the client may stay authenticated without a session
  (`Careful` excludes both); a view that is closed and entered again after its
  parent was closed makes a session that no `aclose()` closes.
- A request is forwarded to the loop of the session there is (`_on_session_loop`:
  "Await ``coro`` on the loop the HTTP session is bound to", `qclient.py:528`) and uses
  the session there is when its turn comes (`_require_session`, `:843`).  A `close()` and
  a `connect()` of another thread in between put the session of a new loop thread under
  a request on the old one; so `SessionIsUsedAtHome` is of callers that take turns, and
  `SessionKeepsItsLoop` of all.
- A backend whose refresh failed after it was once loaded is not fetched again by
  `get_backend`, which only looks whether there is machine info.
- `get_backend` that ends after `close()` selects a backend of a closed client; a
  refresh that waits for a project id across `close()` and another `connect()` caches,
  for the new connection, the id of the old resource (`outlived`).
- Two event loops look one project up twice (harmless; `ProjectIsLookedUpOnce` allows it).

Provider and executor:

- "None (auto-selected) and explicit name share one client" (`qprovider.py:185`) is not so
  when the name is asked for first, nor after the shared client was closed.
- A client that is replaced in the cache is not closed.  `list_available_backends` of
  `qheappe_client` never connects and always raises.
- Submitting a `RunDefinition` again changes the payload recorded for the first job,
  which is the same object; two threads that submit it at once may give both jobs
  the same ids, though "fresh run and sweep ids for every submission"
  (`heappe_iqm.py:389`).  `RunIdsAreFresh` excludes worlds that share so.
- A look-up that overlaps the recording of a submission forgets the payload (the
  exception in `PayloadIsKept`).

Polling client and its service:

- The clock is read between the poll and the look at what it brought
  (`backend.py:604`, `:635`): a job that ended in time is given up, or cancelled.
- A first answer without a state leaves `task_ids` empty for the rest of the call
  (`indexError`), and `wait_for_final_state` says "cancelled" on a timeout also when it
  cancelled nothing.
- A failed submission leaves its job behind, configuring.  An undated resource ends
  the constructor with an `AttributeError` (`"crashed"`).
- The service looks a default calibration set up under `None` and stores it under the
  default's key, so a default set is always fetched; an architecture is cached under
  that key, so it may be an hour old, and a Pulla may combine an old one with a new
  set.  An entry that expires between `LookUp` and `Save` fails the job (`KeyError`).
- Not in the models: `get_available_backends` uses a class attribute that only
  instances have; `provider.py` passes a token as the name of a computer;
  `QPullaBackendIQM.run` passes a keyword-only argument by position;
  `provider_token` sets `environment_variables` to something that is not a list.

## 4. Proofs

`IQMBackendServiceProofs` begins with the database and what its trigger relies on: changing one entry
of an array changes its sum by the difference (`SumOfPointUpdate`).  A sum is a
recursive function and the fact needs induction over its length; the induction
theorems of the library take an operator, so the proof goes through a least
counterexample (`LeastElement`, from the well-foundedness of `<` on the naturals).

It then proves that the ledger's invariant is inductive for any
number of rows, resources and ids: `LedgerInv` is the types, `SummaryIsSum` and
`TasksAndChargesOneToOne` together.  The sum needs the types (a charge is a
natural), the tasks need that a fresh charge has no task yet.  
Of the service it proves, for any requests, resources and allocations, the
safety properties and that it implements `Metering`.  `ServiceInv`
adds to the checked invariants what makes them inductive: `CheckIsCurrent` (the total a
job was admitted on is still the database's), `HandledOnce` (a request
is in one place, and unbilled until its `Bill` step), `UsageSettled` (a cached usage
is that of a job that has ended, and is cached only between `CollectResult` and the
end of the connection) and `TotalNoted`.  From `HandledOnce` follows that a recording
is always a first one (`FirstRecording`): the total grows by exactly the job's
usage.  The refinement maps the grant to the span from check to bill
(`GrantKept`, `GrantEnded`); a crash is a release.  `DoneIsAlwaysBilled` needs one
invariant more: who was answered `DONE` is billed or is the active request, at its
recording (`DoneInv`).

`QJobProofs` proves every safety property of the event-driven handle for any number
of jobs, calls and events in flight.  The heart of `JobInv` is that a terminal state, wherever
it is noted (in an event, in the submitted job, in the handle), is the state the job
is in (`EventsAreTrue`, `SubmittedIsTrue`, `KnownOutcomeIsTrue`), which holds as no job
leaves such a state (a call that lost HEAppE notes no state, only `lost`); and that artifacts are only fetched of finished jobs
(`ArtifactsOfFinished`).  `PollingJobProofs` follows the same line with what was
polled in place of events (`PolledIsTrue`).  Each proves `KeepsPromise`.

`PulseAccessProofs` has four invariants, one on top of the other, for any threads,
resources, names, clients, QPullas, jobs and worlds.  `ExecutorInv` is the types, what a
call has in hand at each of its steps (`InHand`: the record it read is true of the job
it names, the job it was answered is one of HEAppE's), and `RecordsAreTrue`;
`PayloadIsKept` follows from it.  `ProviderInv` says that what the cache holds under a
name, and what a call holds to keep or bind for one, is a client on that resource
(`OnItsResource`), and that a client made with arguments of its own is in no cache and
in one hand (`Isolated`).  `FreshIds` says, for worlds whose threads do not share a
definition, that a definition is in one call at a time, and that the id stamped into
it is no job's until this call has sent it.  `SharedInv` is for the promise that an
automatic choice and its name share a client.  As long as nothing was closed or
cleared and one thread asks (`Undisturbed`: once lost, never regained), what the thread
found in the cache is still there when it has logged in and writes (`FoundIsCached`), so an entry is
never overwritten: there is one automatic choice (`ChosenIsOne`), and its client is
also under the name of its resource (`ChosenHasItsName`).

`LegacyClientProofs` proves what the pool of uploads keeps, for any number of programs,
files, threads, jobs and failures: no job is queued without its files, and no upload
outlives its call.  `SubmissionInv` adds that a program has the job it created to
itself until it is submitted (`OwnedByOne`: a number is fresh because the jobs are
numbered without a gap, `Numbered`), what is in the directory at each step of the call
(`InHand`, by `HandOK`), that every upload under way belongs to such a call (`Owned`), and
what a job that was begun has (`Fine`).  Every action is one of three moves: of a call, of
a job, or of both (`CallMoves`, `JobMoves`, `CallAndJobMove`).  The types need `ServedOK`: the
service is only at jobs that were begun, and has a set at hand when it answers one.

How old an answer may be needs a second invariant on top, `FreshInv`.  Of the default
entry of each cache it says that some tick `t` is `TTL` before its end and that what it
holds is no older than the default set at `t` (`EntriesOK`); of an operation, that the
set and the tick it began with are in the past (`Past`) and that its job asks for what
it asked for (`ArgKept`); and of the answer that awaits it, that it is at least what the
operation is owed (`Owed`: the default set of its beginning, or, of an architecture, the
oldest a cached one may be).  A live entry is then fresh enough (`LiveIsFresh`, which is
where the order of the ticks is used, `Ascending`).  `SavingOK` carries this over the
one place where the service holds a value that it has not stored yet.

The login is a search through lists, each for its first element of a kind; what such
a search finds is in the list and of the kind (`FoundIsIn`).  `ReadyIsSound` follows it
through resources, assignments, clusters, node types and projects, and `LoginIsSound`
from it, as who is `ready` is so by the answers (`LetIn`).

`DiscoveryProofs` proves every safety property of discovery for any callers, loops,
backends, instances, reconnections and answers.  `Placed` says where each coroutine may
be: which connection it works for, which lock it holds (`Owned`), what it knows of its
cluster at each step (`CoroutineFits`), and that a `connect()` is alone with what it
resolves (`Alone`).  On top of it stand three invariants that do not need each other.
`Explained` says of each cluster why it is as it is, or which coroutine is about to say
so (`Pending`).  `LookupsOK` bounds the look-ups of a project by the coroutines that are at
one: those hold the locks of different loops (`Few`), and an id, once cached, is never
asked for again.  `Linkage` is an existence: as long as nothing outlived its client,
the connections can be numbered such that every call, cache and selection belongs to
one of them (`Linked`).  `ResourceIsAlwaysTheOneMeant`, an action property, follows from
`Placed` and what `_authorize_lexis_resource` picks (`FirstAt`).  `FailuresAreIsolated`
follows from `Explained`, with the world's excuses (`Excused`).

`QClientSessionProofs` proves the types and `SessionKeepsItsLoop` for any callers and
views, and for callers that do what they like: `Kept` does not assume that they take
turns, or that nothing is interrupted.  It says what a callback finds when its turn
comes: that a coroutine is started once, on its loop (`StartsOnce`, `CallbackFits`), that
what was forwarded is of another loop and either still asking or over, that a session
to be closed is at its home here; and of a coroutine, that it is nowhere but on its own
loop until its first turn, and that a request made in place, or a closing, is at the
home of its session (`TaskFits`).  Every step is a change of one coroutine along `Moves`
(`Advances` for all of them), a longer list of homes (`Extends`), or a callback more or
less (`QueueTakes`, `QueueRests`); each keeps `CallbackFits`, so one lemma per action
remains.  `Drain`, which cancels all coroutines of a loop at once, is why `Advances` is
stated of all of them.

`AuthenticatedIsConnected`, `NothingIsLeaked` and `SessionIsUsedAtHome` hold of callers
that take turns (`Careful`), whatever fails, is interrupted or is cancelled.  They
are proved for any callers, views and calls from seven invariants, each
`Spec => [](Careful => ...)`.  The first four each rest on `Kept` and on those before,
the last three on these four, and `ConnectOK` on `OpenOK` too.  `TurnsOK`, `RunsOK` and
`SyncOK` are in `QClientSessionProofs`, the others in `QClientSessionCarefulProofs`:

1. `TurnsOK`: one call at most is under way; what its handle, its loop and the client's
   loop thread are at each `pc` (`CallerFits`); and every loop is running for the
   client, closed, or being ended by the `close()` that took it (`LoopFits`).
2. `RunsOK`: the call waits for the last coroutine that was handed over, of the kind its
   operation makes, and no cancellation of it is scheduled (`OwnTask`); a coroutine that
   has not begun has its `start` in the queue of its loop (`Awaited`); one on the
   application's loop is awaited by a cell (`OnApp`).
3. `SyncOK`: the session of a synchronous call of a cell is not the application's,
   from `_check_sync_allowed` to the end of the call.  With this an interrupted
   `connect()` is always followed by a `close()` that is let through.
4. `LeftOK`: a coroutine that nobody waits for was interrupted, and its cancellation is
   scheduled, or will be when it starts (`LeftOver`); on one loop that comes before the
   first step of whatever was handed over later (`InOrder`, an order of callbacks,
   `Precedes`); a `connect()` so left is being undone by the call under way (`Undoes`); a loop
   is stopped when nothing else is on it (`Clears`).
5. `HomeOK`: what was sent is at the home of its session, and a request that was
   forwarded waits on the loop where the session of its connection is, if there is
   one (`HomeFits`); so one that connects anew in the meantime must do so there.
6. `OpenOK`: an open session is referred to (`Referred`), the client's is on a running
   loop (`HomeRuns`), a coroutine that closes it has stopped the client being
   authenticated and, once sent, has closed it (`ClosesFit`), a forwarded `session.close()`
   is waited for or has nothing to close (`CloseFits`), and a `close()` that comes to
   stop its loop has left the client without a session (`Gone`).
7. `ConnectOK`: a `connect()` asks on the client's session (`Connecting`), and an
   authenticated client is connected, or the call under way is a `connect()` that may still
   fail or a `close()` on the way to do its work (`WillClose`).

Steps are of two kinds.  In one a coroutine goes on, and calls and loops are left alone
(`GoOnStep`): such a step takes at most one callback and forwards at most one
(`GoesOnBy`), and changes one coroutine in one of six ways (`Fate`, by `HowItGoes`: it
ends, asks, connects anew, begins to close, closes elsewhere, or has closed).  All other
steps leave the sessions and what asks on them alone (`Stays`, by `OtherStays`).
The last three invariants are proved of these two kinds and not action by action.
That nothing but requests is under way while a coroutine closes the client
(`OnlyAclose`), from `LeftOK`, is what rules out the races that `Careful` callers do not
have: no `connect()` of the client is still waiting for its answer when its session
is closed.

Proved from `LedgerAssumption`, `ServiceAssumption`, `QJobAssumption`,
`PollingAssumption`, `PulseAssumption`, `LegacyAssumption`, `DiscoveryAssumption` and
`SessionAssumption`, which say what the constants are.  `DiscoveryAssumption` has the
sets of callers and backends finite, since look-ups are counted, and `None` apart from
names, URLs and project ids; `LegacyAssumption` has `None` apart from files and numbers of
sets, and says of the answers of LEXIS and HEAppE that they are lists where the code
loops over them, and of a version that it is one of numbers or missing (`AnswerOK`);
`PulseAssumption` has the set of threads finite, since the property counts those at
work.  The type invariants of the ledger, the service, the handles, `PulseAccess` and
`LegacyClient`, and `CheckIsCurrent`, `OutcomeIsTrue`, `KnownOutcomeIsTrue`,
`SocketIsClosed`, `AloneIsIsolated`, are proved and not model-checked besides.

Only model-checked:

- liveness (`EveryClientIsReleased`, `ListenerReturns`, `WaitEnds`,
  `EveryCarefulCallReturns`, `EveryOperationEnds`, `EveryCallEnds`, `EveryAccessEnds`), which
  the prover cannot do: a run checks each, on its small instance.

Every safety property of a passing run is proved.

## 5. Not modelled

Doubles and their rounding; the CYCLOPS and Kafka paths, whose calls are commented
out; the cryptography of tokens and files beyond its outcome; the contents of
circuits, results and pickles, and the conversions of results; stack resolution
(two stacks, no state); `update_from_remotejob`, which copies whatever attributes a
pickled IQM job has; station settings and their cache; `get_available_backends` of
the polling client, which always fails; the readers that change nothing; the
deployment scripts and the standalone runner.

## 6. Plan

In order of importance:

1. (done) accounting database; backend service; `Metering`.
2. (done) both job handles and `JobPromise`.
3. (done) `QClient` lifecycle: loop thread, connect, close, bound views, sync calls.
   Next: injected sessions.
4. (done) Discovery: resource authorization, project-id cache and its locks,
   clusters, validation, refresh.
5. (done) The polling client's login and submissions; calibration and architecture
   caches of the service.
6. (done) `QProvider` and `HEAppEExecutor`.  Next: reconnecting a cached client, station
   artifacts.
7. Pure algorithms against reference definitions: billing months of
   `_generate_month_intervals`, result bit order, command parsing.

Theorems worth proving next: every safety property of the runs has its theorem, so the
next are those of the modules still to come (5 to 7 above).
