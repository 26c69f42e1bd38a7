# A formal model of the sandbox server

This directory holds TLA+ modules for the Python sandbox of this repository
(`src/sandbox`): a FastAPI server that gives each client *session* a private
directory and a long-lived Python interpreter (the *runner*), executes code
blocks, shell commands and file edits in it, limits it and cleans up after it.
TLC checks the modules on small instances, TLAPS proves the main invariants for
every instance. All paths below are relative to the repository's root, `src/`
in the map of `PROJECT.json`.

Contents: 1 inventory, 2 plan, 3 what is modelled, 4 what the runs show,
5 fairness, 6 what is proved, 7 disagreements and surprises, 8 what is not
modelled, 9 how to run it.

## 1. Inventory

### 1.1 Components

| component | state it keeps | operations | talks to |
|---|---|---|---|
| **RunnerProcess** `sandbox/runner_pool.py` | `_proc` (the subprocess or None), `_lock` (an asyncio.Lock) | `start`, `stop`, `execute`, with `_read_until_done`, `_drain_partial_stdout`, `_classify_signal_exit` | the child through stdin and stdout, the child watcher, the tasks of the event loop |
| **SessionManager** `sandbox/sessions.py` | `_sessions`, per session the directories, `created_at`, `last_activity_at`, the runner | `create`, `get`, `destroy`, `reap_idle`, `shutdown`, `Session.touch`, `is_expired` | RunnerProcess (`stop`), the file system |
| **HTTP server** `sandbox/exec_server.py` | `app.state.manager`, the task `_gc_loop` | `POST`/`GET`/`DELETE /sessions`, `POST /exec`, the file handlers, `lifespan` | SessionManager, RunnerProcess, bash, text editor, files, platform tools |
| **REPL child** `sandbox/runner.py` | the interpreter's globals | `run`: read a length and a block, execute it, write stdout, stderr, result and done frames | RunnerProcess through pipes |
| **Limits** `sandbox/limits.py` | none in the server; rlimits in the child | `apply_runner_rlimits`, `truncate_output`, `default_limits` | RunnerProcess (`preexec_fn`), bash |
| **Bash tool** `sandbox/bash.py` | `os.environ`, set and put back around an await | `run_bash` | subprocesses |
| **Text editor** `sandbox/text_editor.py` | per session an undo stack for each path | `view`, `create`, `str_replace`, `insert`, `undo_edit` | the file system |
| **Files API** `sandbox/files.py` | none | `upload_file`, `read_file`, `list_workspace`, `_resolve` | the file system |
| **Tool stubs** `sandbox/platform_tools.py` | a generated Python file | `generate_module_source`, `install_stubs`, `clear_stubs` | the REPL child, which imports it |
| **Wire models** `sandbox/models.py` | none | validation | the HTTP server |
| **Telemetry, logging** `sandbox/telemetry.py`, `logging_config.py` | exporters | set-up | nothing that changes what the sandbox does |

### 1.2 How they interact

The server is one process with one asyncio event loop. A task keeps the loop
until it awaits something that is not ready, so code between two awaits is
atomic with respect to every other task. Concurrency comes from

* **tasks**: one per request, `_gc_loop`, and the lifespan. They share
  `SessionManager._sessions` and every session's `_proc` without any lock that
  covers both (`execute` holds `_lock`; `stop`, called by `destroy`, does not);
* **subprocesses**: they exit, write and create directories when they like. That
  a process has exited is seen by the server as three separate facts, in no
  fixed order: end-of-file on its stdout, `returncode` set by the child watcher,
  and the wake-up of a task in `wait()`;
* **timers**: the deadline of `execute`, 2 s in `stop` before SIGKILL, 0.5 s for
  the exit code after end-of-file, the collector's interval.

### 1.3 What is hard here, and what correctness means

`PROJECT.json` lists 40 hazards with their lines. In short:

* *RunnerProcess.* An answer must reach the call that asked for it, although
  calls time out with the answer half read, runners die at any moment, and a
  teardown sets `_proc = None` under a call's hands. At most one runner may run
  per session; none may be dropped while it runs; a teardown must end although user
  code ignores SIGTERM, and so must a call that no unbounded wait holds.
* *SessionManager.* The cap must hold under racing creations; a session must be
  torn down by one task only, never be found without its directory, expire at
  its lifetime, and leave neither directory nor interpreter behind that nobody answers
  for, although commands and what user code starts know nothing of the registry.
* *HTTP server.* Handlers use a session after an await; the lifespan cancels the
  collector wherever it is.
* *REPL child and protocol.* Frames must stay in step with the reader, whatever the
  block prints, writes past `sys.stdout`, or leaves running behind it; what was
  printed must come back whole; no wait may be one that user code can prolong.
* *Bash.* The server has one environment for all sessions; a bash must run in its
  own session's workspace and the environment be put back whatever the order calls
  end in; a call must end, with all output that it reports as all.
* *Text editor, files, stubs.* The undo history must stay in step with edits although
  other tools and the session's own processes change, remove and recreate the file;
  a request that is refused must not have written; the REPL must not import a stub
  that is half written or stale without that being known.
* *Limits.* A limit is reported only for a runner that hit one; caps must be caps.

## 2. Plan

In the order of importance for the system; all modules are written.

| # | module | what it models | abstract specification / composition | theorems |
|---|---|---|---|---|
| 1 | `ExecService` | what `execute` promises: FIFO, each call ends once, with its own answer or a failure | is the abstract specification | |
| 2 | `RunnerProcess` | one session's runner, its lock, subprocesses, concurrent calls, creation and teardown | implements `ExecService` | types, own answers, one exchange, one runner, honest limits and restarts, quiet teardown, safety part of the refinement |
| 3 | `SessionManager` | registry, collector, shutdown, requests, directories and runners from outside | uses that a `stop()` ends, shown by 2 | types, cap, exclusive teardown, lookup, leaks |
| 4 | `RunnerProtocol` | the lines on the pipe between `execute` and `run`, user code that writes there too, truncation, timeout and drain | the inside of one exchange of 2 | types, bounded output, own answers, faithful output, partial output |
| 5 | `BashExec` | bash calls over the one environment of the server, timeout, descendants that keep the pipes | | types, own workspace, environment restored, complete output, final outcomes |
| 6 | `SessionFiles` | editor, uploads and stub registration against the session's own processes | each edit against what it was asked for and what it overwrote, kept as history | types, undo history, true replies, inserts behind the line, stub imports |

Still worth doing: `RunnerProcess` with several answers' worth of pipe, which would let
4 be shown to implement the pipe of 2.

The modules are written to be proved about: parameters are CONSTANTS with named
assumptions, there is one action per stretch of code between two awaits, and no
RECURSIVE operator is used anywhere. Some definitions were reworded for the sake of
proofs, and TLC finds the same states as before: `Status` of `RunnerProcess` was a CASE
whose guards overlap; `Size` of `RunnerProtocol` was a fold where a length and a
cardinality say the same; `ReadText`, `Lines` and `Insert` of `SessionFiles` were
filters and folds of the community modules, which are recursive, and now count
positions (`Nth`, `Ends`, `End`); `Over` names the case of a file that is still empty.

## 3. What is modelled

### 3.1 `RunnerProcess`: one session's runner

State and code: `procRef` is `RunnerProcess._proc`, `lockQ` is `_lock` (its head
holds it, the rest are its waiters in FIFO order), `inDict` and `dirExists` are
the session's entry in `_sessions` and its directory tree. `os`, `code`, `sig`,
`inbox` and `pipe` are the subprocesses: their life from fork through exit to
reaping, how they ended, the strongest signal sent, code blocks written and not
run, answers written and not read. `pc[t]` is the await task `t` is suspended in,
`on[t]` the subprocess that await is about, `after[t]` the outcome `execute`
returns once its own `stop()` is over. `log` and `atDestroy` are history.

A subprocess is named for the task that forks it: no task forks twice, so the
names are enough and "the one the current call started" is visible.

| await | `pc` | actions that leave it |
|---|---|---|
| `create_subprocess_exec` in `start` | `spawn` | `CreateReturns`, `Spawned` |
| `_lock` | `queued` | `Acquire` |
| `stdin.drain` | `send` | `Sent`, `SendFails` |
| `readline` / `readexactly` | `read` | `ReadAnswer`, `ReadEof`, `TimeOut` |
| `wait_for(proc.wait(), 0.5)` | `eof_wait` | `EofWaited`, `TimeOut` |
| `_drain_partial_stdout` | `drain` | `Drained` |
| `wait_for(proc.wait(), 2)` in `stop` | `term_wait` | `TermWaited`, `TermTimedOut`, `TimeOut` |
| `wait()` after `kill` | `kill_wait` | `KillWaited`, `TimeOut` |

Points where the model follows the code closely because a property depends on it:

* `stop()` re-reads `self._proc` after each await and ends in `_proc = None`
  whatever it refers to by then (`Forget`, `TermTimedOut`); if another task
  cleared it, the `kill()` raises (`StopRaises`).
* The deadline also covers the `stop()` in the end-of-file branch, because that
  is awaited inside `wait_for(_read_until_done())` (`Reading`).
* `create` publishes the session before its runner is started, so a teardown can
  come in between; a client's calls, however, need the id that only the 201 tells.
* The child makes its workspace directory, also when it was removed meanwhile.
* An exit is classified by the signal number only (`Classify`), so any SIGKILL
  counts as the memory limit.

Abstracted: the text of code and output; an answer is the call it belongs to and
whether it is torn, that is, whether the parser gives it up before its last line
(`RunnerProtocol` shows what makes it so). An answer is written all at once. A block
that does not fit in the pipe is one of a call in `Big`: its `drain()` may last for
ever. `Drained` may never come either, as a runner may write without a pause. `ReadEof`
is end-of-file on stdout, of a dead runner or of a live one whose block has closed
it. A block leaves `inbox` when it has run to its end. `SelfExit`,
`IdleCrash`, `TornFrame` and `SpawnMayFail` say which faults a run lets happen.
`Endings` has SIGKILL twice, from the OOM killer and from the kernel at a CPU limit
whose soft and hard values are equal (`limits.py:185-187`); "crash" stands for every
exit without a limit signal.
Each call arrives at most once, which bounds the number of subprocesses and the
length of every queue; no other bound is needed.

### 3.2 `ExecService`: what `execute` promises

Calls are served in arrival order, one at a time, and each ends once: answered,
failed, or turned away. `RunnerProcess` implements it with `lockQ` as the queue
and a status taken from `log` in which an answer counts as such only if it is the
caller's own (`GotOwnAnswer`). The refinement has the abstract fairness in it: the
head of the queue completes unless it is `held`, which is to be in one of the two
waits that nothing bounds (`HeldBy`).

### 3.3 `SessionManager`: registry, collector and shutdown

`sessions` is `_sessions`, `known` the ids whose 201 was sent, `dirs` the
directory trees. `runner[s]` is the session's `_proc` from outside (none, being
forked, running, running and signalled by a teardown); `stray` are sessions with a
live subprocess no `_proc` refers to, `booting` subprocesses that have yet to make
their workspace. `idle` and `age` are the two timestamps, counted in ticks up to
one past the limit. `rest[t]` is what a loop over `destroy` has still to do.

The bodies under the manager's own lock await nothing, so that lock is never
contended and create's check and registration, the scan of `reap_idle` and the
pop of `destroy` are each part of one step. The loops of `reap_idle` and
`shutdown` and the single `destroy` of a DELETE are the same operator
(`Destroying`): from one await to the next they skip ids that somebody else popped,
finish at once the sessions with no runner to wait for, and stop at the first
runner that must be waited for. The order of that loop is left open, since dicts
and sets of ids have an order no property depends on.

`CancelGc` is the lifespan after its `yield`: uvicorn has let the requests finish,
the collector is cancelled wherever it waits, and `CancelledError` passes the
`except Exception` of `destroy`, so the rest of that teardown is lost.

User code acts behind the registry's back. A bash command (`BashBegins`, `BashEnds`)
runs without a lock and in a process that `destroy` does not stop, since that stops
`session.runner` and nothing else; and whatever user code runs, in a runner or a bash,
may start a process and detach it (`LeavesHeir`), which outlives `stop()` and the
session. As long as any of it runs (`UserCode`) it can make the directory tree again
(`UserWrites`). `heirs` only grows: a process that has ended is one that does nothing.

Abstracted: `execute` is "queued, perhaps fork, running, over"; that a `stop()`
ends is what `RunnerProcess` shows. Uploads are the one file operation with an
await between `get()` and its effect. User code that removes its own tree is left out. A tick ages registered sessions only, and
`uuid4` gives no id twice. Bounds: the number of ids (each used once) and the
ticks up to the limit.

### 3.4 `RunnerProtocol`: the lines on the pipe

The server's side is `execute` and `_read_until_done`: `phase` is its await, `sect`,
`buf` and `text` are `in_section`, `section_buf` and the two texts. The runner's side
is `run`: `at` is where it is in its loop, `said` its two StringIOs, `chunks` the
`os.write` calls that `_write_frame` and `_write_done` have yet to make; it can die
between any two of them. `wire` is the pipe. Calls come one after another, as the lock
makes them; the interleavings with other tasks are in `RunnerProcess`.

The pipe carries tokens: a character, one of three bytes, one that UTF-8 cannot
encode, a run over the stream limit, a newline, a return code, and the five sentinels.
A line is a sentinel only if it is nothing else, except for the DONE line, of which
`startswith` is asked (`Is`, `ReadLine`). User code may print any of these (kept in
the StringIO until the block ends), or write them raw: `os.write`, `os.system`, a
thread, a process it leaves behind (`helper`), which goes on writing during later
calls and keeps the pipe open after the runner's death. Each token knows the block it
is from, which only the properties read.

`ReadOverlong` has the two ways `readline` drops an overlong line: to its newline if
that is in the buffer, else what is in the buffer, so that the rest of the line comes
as a line of its own. `BeginCall` starts a new runner if there is none or the death of
the old one is known (`at = "dead"` and seen; the watcher may be late, hence the second
disjunct). `WaitsForPipes` says whether `Process.wait()` of asyncio waits for the
pipes too, as it does in the Python versions with issue gh-119710; `RunnerProcess`
has the other behaviour in `KillWaited`.

`Flood` is user code that writes without a pause during the drain: the block itself,
which is killed only after it, or a helper. `Truncate` appends the marker to what is
kept, and `ReadEof` puts the note of a runner's end on stderr before truncation; both are
tokens of their own (`Added`).

Abstracted: stderr of the process (nobody reads it; a block that fills it is one that
does not end); how much of a large write is on the pipe; the header's number, unless it
cannot be read, which is a death of the runner. Bounds: calls, and writes of user code.

### 3.5 `BashExec`: bash calls over one environment

`environ` is the server's `SANDBOX_WORKSPACE`, `prev` the value a call will put back,
`pc` the await it is in (the fork, the first `communicate`, the one after the kill).
`Begin` saves and sets the variable; `Fork` is `run_bash`, which reads it for the cwd
and forks a bash that inherits it. Between the two there is no await, so no other task
of the event loop moves until the fork (`LoopFree`, a guard of every action of a task):
that is all that keeps another session's value out, and the mutant that lets the loop go
violates `OwnWorkspace`. The `finally` is part of every action that ends a call
(`Return`). Output is counted in writes: on the pipe,
taken by the running `communicate`, or lost with a cancelled one. `heirs[c]` is a
descendant of bash that holds the pipes: SIGKILL goes to bash alone, and both
`communicate` calls wait for end-of-file. `TimeOutTooLate` is the deadline that
passes when bash has gone: `kill()` raises `ProcessLookupError`, a 500, through the
same `finally`. `open` and `crossed` are history: whether calls ended in the reverse
of the order they began in.

### 3.6 `SessionFiles`: editor, uploads, stubs

`doc` are files of one directory, `history` is `Session.undo_stack`, `stub` the
generated module and `loaded` what the REPL has in `sys.modules`. A handler of the
server has no await between reading and writing, so handlers do not interleave with
one another; the REPL and any bash are other processes, and what they do to the files
(`ForeignWrite`, `ForeignRemove`, `ForeignRmdir`, `ForeignChmod`) may come between the handler's
read, its `open()`, which truncates, and its write. `busy` is that write in progress;
`busy.linked` that the file opened is still the one of that name. `ReadText` and
`Lines` are `read_text` with its universal newlines and `splitlines`, since the undo
history holds what they return and not what the file held. The k-th line is the stretch
up to the k-th line end, `End(t, k)`, and `Insert` puts the payload there; that the
lines are then the old ones with the new one in its place is `InsertedAfterLine`.

`locked` are files that user code has made read-only, or whose directory it has: the
server runs as the same user and its `open()` raises PermissionError (`OpenFails`), after
`_push_undo` has pushed or `undo_edit` has popped.

History variables: `over` is what each edit that was not undone overwrote, taken when
its file is open; `spoiled` the files that an edit or an undo failed to open, which are
out of step from then on; `reply` how the last request ended, with the content the file
should then have.

Abstracted: `view`, downloads and listings (they read); separators of `splitlines`
other than LF; targets that are directories and files that do not decode (refused, or
a 500, before anything is written); `_resolve` (it refuses too); a disk that fills in
the middle of a write (the file is left empty); the REPL's import caches for
directories, and user code that changes its own stub directory. The image sets
`PYTHONDONTWRITEBYTECODE`, so no bytecode of an old stub is kept.

### 3.7 MC modules

`MCRunnerProcess` and `MCSessionManager` add the symmetry sets (calls; ids and
clients). Symmetry is used in runs without liveness properties only: no call, id
or client is named in any definition, and the FIFO queue treats them alike.
`MCRunnerProtocol` and `MCSessionFiles` define the texts of their instances.

## 4. What the runs show

`CHECK_DEADLOCK FALSE` is set everywhere: a state in which every call has ended
and the session is gone, or in which the application is down, has no next step and
is where the program is meant to stop. That nothing stops earlier is what the
liveness properties say.

| run | bounds | properties | shows |
|---|---|---|---|
| `runner_safety` | 2 calls, creation, teardown; SIGKILL at the CPU limit and SIGXFSZ, also between calls; forks may fail | `TypeOK`, `ResponseAttribution`, `OneExchange`, `SingleRunner`, `LimitIsReal`, `QuietDestroyIsClean`, `NoSilentRestart`, `NeverForgetsLiveRunner` | own answers only, one exchange at a time, one runner, none forgotten alive, limits reported only for runners that hit one, a quiet teardown leaves nothing, and a REPL state is lost unreported only by a death between calls |
| `runner_live` | 2 calls, one of a big block, SIGXCPU | `EveryCallEnds`, `DestroyEnds`, `ImplementsService` | even with a runner that ignores SIGTERM every teardown ends, and every call unless one is held in a drain; `execute` is an `ExecService` |
| `manager_safety` | 2 ids, 3 clients, cap 1, limits of 1 tick, uploads, commands, failing forks | `TypeOK`, `CapHolds`, `OneTeardown`, `RegisteredHasDir`, `NothingElseLeaks` | the cap under racing creations, one teardown each, leaks only of requests at work and of what user code left behind |
| `manager_live` | 2 ids, 1 client, cap 2, idle 1, lifetime 2, commands | `NothingElseLeaks`, `SessionsExpire`, `ShutdownEnds` | touching does not keep a session for ever; the shutdown ends with an empty registry; loops over several sessions leave nothing |
| `protocol` | 2 calls, 2 writes of 8 texts, printed or raw, cap of 2 bytes | `TypeOK`, `OwnAnswer`, `FaithfulOutput`, `OutputBounded`, `PartialOutputIsRaw`, `CallEnds` | forged section sentinels and noise never put an answer out of step, only a DONE or an overlong line does; printed text comes back whole; streams keep to the cap; three waits, and no others, can hold a call |
| `bash` | 2 calls, 2 sessions, 2 writes each, failing forks | `TypeOK`, `OwnWorkspace`, `EnvironRestored`, `CompleteOutput`, `OutcomeIsFinal`, `EveryCallEnds` | own workspace although the environment is shared; what an outcome may lack; only descendants that keep the pipes hold a call |
| `files` | 1 file, 4 requests, 2 foreign operations (chmod among them), texts of two lines | `TypeOK`, `HistoryIsFaithful`, `ReplyIsTrue`, `InsertedAfterLine`, `LoadedIsLatest` | the undo stack is in step with the edits that could open the file, a reply says what happened to the file, a refused request wrote nothing, the REPL holds the newest stub or is known not to |
| `runner_delete`, `runner_torn`, `manager_touch`, `manager_shutdown`, `protocol_partial` | smaller | one each | the disagreements of section 7 |

Why these bounds are enough. In `RunnerProcess` a hazard needs a call, the next
call that could suffer from what the first left behind, and the teardown. Each call forks
at most one subprocess, so two calls and the creation make three subprocesses,
one more than can be confused with "the old and the new one". In `SessionManager`
a cap of one with two ids lets creations race for the last slot and be refused; three
clients let two requests be at work in a session that the third deletes, with the
collector and the shutdown as further parties. A loop over two sessions, one of which is
torn down while the other waits, needs both registered: that is `manager_live`, with a
cap of two. Timers matter only by being over or not: one tick each
side of a limit suffices, and the lifetime is longer than the idle time where it
must be the one that bites. `RunnerProtocol` needs a call that leaves something on the
pipe and one that reads it; two writes are one to disturb a frame and one to be
disturbed, or a helper and what it writes, and the cap of two bytes is smaller than a
character of three. In `BashExec` two calls are the fewest that cross; the proofs cover
any number. `SessionFiles` needs two edits, an undo and a fourth request that removes
the ground under it, and a foreign operation on either side of a read.

Every property of a passing run has a mutant in `PROJECT.json`: a form of one
definition with a plausible bug (the operators marked `Fault:` in the modules)
under which TLC finds the property violated.

## 5. Fairness

Runs without a liveness property take `Spec`, without fairness. `LiveSpec` of `RunnerProcess` assumes weak fairness of

* the event loop: a task whose await is satisfied runs on;
* the timers: `TimeOut`, `TermTimedOut`;
* the operating system: a fork returns, SIGKILL kills, the watcher reaps;
* the pipe: it takes a block that is not big (`Sent` of a call not in `Big`).

Nothing is assumed of user code: a runner need never answer, never boot, never
obey SIGTERM, nor read a big block or stop writing, and no client need send or delete
anything. So two waits may last for ever, the `drain()` of a big block and the drain of
partial output, since the code bounds neither: `EveryCallEnds` says that a call that
never ends is behind a call held in one of them (`HeldBy`), and `ExecService` owes a head
of the queue nothing while it is. That `wait()` returns once the process is reaped, and
does not wait for its pipes, is part of `KillWaited`; `RunnerProtocol` has the other case.

`LiveSpec` of `RunnerProtocol` assumes weak fairness of `execute`'s own steps
(`Sent`, `SendFails`, `TimeOut`, `Stopped`), of a runner at the top of its loop, which
reads what is on its stdin, and strong fairness of `Drained`: a pause of 50 ms that comes
again and again is not missed for ever. Nothing is assumed of a block or of what it leaves
behind. `CallEnds` then says that a call that does not end is held (`Held`) by
`drain()` on stdin, by a block or a helper that writes without a pause while partial
output is collected, or by a helper that keeps the pipes open in `wait()`. Reading a line needs no fairness, the timeout ends a call that does not.

`LiveSpec` of `BashExec` assumes weak fairness of the server's steps and of SIGKILL,
nothing of commands and their descendants.

`LiveSpec` of `SessionManager` assumes weak fairness of the clock, the
collector's scan, the shutdown once begun, and the end of the `stop()` the
collector or the lifespan waits for, which is `DestroyEnds` of `RunnerProcess`.
Clients and subprocesses owe nothing.

## 6. What is proved

Proofs hold for any set of calls, ids, clients, texts, paths and tool lists and any
bounds, from the named assumptions of the modules: tasks are distinct from one another
and from `None` (`TasksAssumption`, `ManagerTasks`), fault switches are Booleans and
ways to end are the known ones (`FaultsAssumption`), limits are positive
(`ManagerBounds`), the image's workspace is no session's (`BashBounds`), an absent
file is neither a path nor a content (`AbsentIsNoText`), and texts are sequences of
characters (`TextsAreTexts`). `Sid` and `Client` may be infinite: that
the registry itself is finite is part of the invariant. Four theorems, named below,
have the hypothesis `~TornFrame`, which the run `runner_torn` shows to be needed; no
other theorem has one.

| module | theorem | property | inductive invariant |
|---|---|---|---|
| `RunnerProcess_proofs` | `TypesCorrect` | `TypeOK` | `TypeInv` |
| | `AnswersAreOwn`, `ExchangesAreSerial` | `ResponseAttribution`, `OneExchange` | `FlowInv`, under `~TornFrame` |
| `RunnerLife_proofs` | `OneRunnerAtATime`, `LiveRunnerIsKept`, `QuietTeardownLeavesNothing` | `SingleRunner`, `NeverForgetsLiveRunner`, `QuietDestroyIsClean` | `LifeInv` |
| `RunnerCalls_proofs` | `LimitsAreReal` | `LimitIsReal` | `CallsInv` |
| | `RestartsAreTold` | `NoSilentRestart` | `RestartInv`, under `~TornFrame` |
| `RunnerService_proofs` | `ServedOneByOne` | safety part of `ImplementsService` | the four above, under `~TornFrame` |
| `SessionManager_proofs` | `ManagerTypes`, `CapIsNeverExceeded`, `TeardownIsExclusive`, `LookupFindsDirectory`, `LeaksAreAccountedFor` | `TypeOK`, `CapHolds`, `OneTeardown`, `RegisteredHasDir`, `NothingElseLeaks` | `RegistryInv`, `LeakInv` |
| `RunnerProtocol_proofs` | `TypeCorrect` | `TypeOK` | `Typed` |
| | `OutputIsBounded` | `OutputBounded` | `BoundedInv` |
| | `PartialOutputIsNotPrinted` | `PartialOutputIsRaw` | `OrderInv`, `PartialInv` |
| | `AnswerIsItsOwn` | `OwnAnswer` | `StepInv`, `OwnInv` |
| | `PrintedTextComesBack` | `FaithfulOutput` | `FaithInv` |
| `BashExec_proofs` | `TypeCorrect`, `RunsInOwnWorkspace`, `RestoresEnviron`, `OutputComplete`, `NothingWritesLater` | `TypeOK`, `OwnWorkspace`, `EnvironRestored`, `CompleteOutput`, `OutcomeIsFinal` | `Inv` |
| `SessionFiles_proofs` | `UndoStackIsFaithful`, `RepliesAreTrue`, `ImportIsCurrent` | `HistoryIsFaithful`, `ReplyIsTrue`, `LoadedIsLatest` | `FilesInv` |
| | `TypeCorrect` | `TypeOK` | `TypeInv`, with `FilesInv` |
| | `InsertsBehindTheLine` | `InsertedAfterLine` | `FilesInv`, `TypeInv` |

Each property, and each invariant that is not mere bookkeeping, was checked with TLC
before it was proved.

**The runner.** Types alone are not inductive, since a call that pops the head of
`lockQ` must find one there: `TypeInv` adds that a task past its acquisition is at the
head of the queue and that an await is about a subprocess. For own answers, `FlowInv`
says that whatever is in the inbox or the pipe of a subprocess `_proc` refers to
belongs to the call that holds the lock, is past its write and waits on that very
subprocess; a runner that a call leaves with a block under way is one `_proc` lets go
of before the lock is released. Ends of calls therefore leave a `_proc` that is
either None, dead, or empty.

`LifeInv` is about which subprocess runs. `SingleRunner` is not inductive: while the
session is registered the one that runs is `_proc` or the one being forked, a fork is
under way only when `_proc` is gone, and whatever a call awaits is `_proc`
(`RegisteredInv`; the eager start of `create_session` is a case of it, by `CreateInv`).
Once the teardown has begun all of that may fail, which is the run `runner_delete`;
`QuietInv` keeps it for a teardown that found no task using the session.

`CallsInv` ties what was reported to what happened: an exit code is looked up on
`_proc`, which only the holder of the lock signals, and only on its way to an end
(`SignalInv`); so a code found by a call that has not signalled is the runner's own
death, and it stays true because a reaped subprocess does not change (`VerdictInv`).
`RestartInv` reads the log: every answer since an answer of `_proc` is `_proc`'s, and a
runner that was let go of had nothing left to run or a failure separates its last
answer from any of another runner. That a failure is logged before the next call can be
served is where the lock comes in, hence `QueueInv`.

`ServedOneByOne`: under the mapping of `Service` an initial state is one of
`ExecService`, and a step is `Submit`, `Answer`, `Fail`, `Reject` or changes nothing the
service knows. Each action of a call is first shown to be one of five shapes
(`CallStep`: it submits, waits on, is turned away, fails at once, completes), and each
shape to be a step of the service. What is left of `ImplementsService`, that the
service's fairness follows from the fairness of the code, is TLC's.

**The registry.** One inductive invariant with two parts. `RegistryInv` has the
properties of the registry and "an id registered once and gone is popped"
(`OncePopped`), without which an id could be registered under a teardown. `LeakInv`
ties each directory and subprocess to the task that answers for it: a task at work in a
session whose entry is gone has that session in `inUse` (`BusyInv`), a fork in progress
belongs to a task (`SpawnInv`), a subprocess that has yet to boot, or is signalled, has
a teardown that waits for it or is counted as left behind (`LateInv`). User code that
makes a directory again is in a runner, a bash or a process left behind, and the first
two are already answered for.

**The line protocol.** Texts are of any length, so every fact about them is one about
all positions. The prover has no induction over data; where an argument needs a least
position (the first newline, how much truncation drops), `LeastNat` takes it from the
well-foundedness of `<` on the naturals.

* `OutputIsBounded`: truncation keeps the longest beginning that fits and then a
  character that was cut, which is two bytes at most, and puts one marker behind. That the
  marker is the only one rests on `Unmarked`: before truncation no text holds one.
* `PartialOutputIsNotPrinted` rests on the order of the pipe (`OrderInv`): a token on it
  is a raw write, or is of a block before the one that runs, because a block's frame
  is made when it has ended.
* `AnswerIsItsOwn`: unless user code has a DONE line or an overlong line among its output,
  printed or written past `sys.stdout` (`tear`; a printed DONE line ends the answer early
  just as well, `runner_pool.py:346`), the two ends take turns (`TurnInv`): between calls nothing is on the pipe
  but what helpers write, and a DONE on it is the runner's, followed by the code of the
  call in progress and by nothing else (`WireInv`). Forged section sentinels change
  where text goes, never whose answer it is in.
* `PrintedTextComesBack`: `FlowInv` follows an answer through the pipe. For some number p
  of tokens read, the rest of the answer is on the wire or in the chunks the runner has
  still to write, cut anywhere (`Delivers`), and the reader has what the first p tokens
  give (`ReaderAt`). A line read moves p on; at the DONE line the sections are whole,
  less one newline each. `StillInv` says where p starts: nothing is on the pipe until a
  block has ended.

**Bash.** `Inv` has, for each call, that every unit written is on the pipe, taken or
lost (without it the types are not inductive, because sums could exceed what was
written), that an outcome leaves nothing unread and nobody to write, and, until calls
cross, `Nested`: the calls in progress stand in `open` in the order they began, each
`prev` is what the one before it had set, and the variable is what the last one set.
`RestoresEnviron` is `Nested` with an empty `open`. `RunsInOwnWorkspace` rests on the one
task between `Begin` and `Fork`: it is alone there, and the variable is its session's.

**Files.** The properties speak of moments when no request is in progress, so `FilesInv`
says what holds in between. `HistoryInv`: the undo stack is one longer than the edits
not undone exactly while the handler of an edit has pushed and not yet opened its file,
one shorter while that of an undo has popped, and what it has pushed is what the file holds unless another process came between.
`WriteInv`: a write nobody disturbs has its file empty and linked, and the right data to
put into it. `ReplyInv` carries that over to the reply, `StubInv` does the same for the
stub module, which is torn while it is written. In these, `ReadText`, `Replace` and
`Insert` are some values; nothing about what they compute is used.

The other two are about what they compute. Positions are counted with `Cardinality`:
the count of a set of positions up to i grows by at most one as i does, so that some
least i has the count k (`LeastNat`), and that is `Nth` (`NthIs`). From it: the text that
`read_text` returns is one without a carriage return (`ReadType`); a text falls in two
at the end of a line and its lines fall in two with it (`CutLines`); the lines of a text
behind one whose last line has ended are those of both (`JoinedLines`). Together they
give the lines of `Insert` (`InsertLines`), where the payload always ends a line and only
the text before it may not. `TypeInv` adds to the types that the number an insert
carries is that of a line of the text it carries (`Asked`), which the property cannot do
without; what the file then holds is `ReplyInv` of `FilesInv`.

**Only model-checked.** Every invariant and action property of a passing run is stated
by a theorem. What is left to TLC:

* All liveness: `EveryCallEnds`, `DestroyEnds`, the fairness of `ImplementsService`,
  `CallEnds`, `SessionsExpire`, `ShutdownEnds`, with ENABLED out of the prover's reach.
* The properties of the five runs that expect a violation, of course, are not theorems.

## 7. Disagreements and surprises

Each of the first list is a run in which TLC violates a property taken from a sentence
of the repository; `PROJECT.json` quotes the sentences.

1. `runner_delete`: a DELETE while `execute` forks a new runner finds no `_proc`
   to stop. Directory and runner outlive the session.
2. `runner_torn`: a line over 16 MiB raises in `readline`, or a DONE line of the user's
   own ends the answer early; the runner is kept, and the next call reads the rest of
   the frame as its own answer.
3. `protocol_partial`: a call that times out returns nothing of what its block printed,
   because that is in a StringIO of the runner, flushed or not.
4. `manager_touch`: the collector reaps a session that was touched after its scan.
5. `manager_shutdown`: a collector cancelled inside `destroy` leaves a directory
   that the shutdown does not know of any more.

The second list is behaviour that a passing property describes exactly, exceptions
included, because the exception is what the code does:

* A runner that dies between two calls is replaced without any failing return code,
  against `runner_pool.py:11-12` (`NoSilentRestart`, second disjunct).
* A runner killed at the CPU limit is reported as out of memory, and the seconds are
  those of its life and not of "one execution" as `limits.py:58-61` has it (`LimitIsReal`).
* One newline at the end of the output is dropped, the user's own if there is one, while
  `runner_pool.py:330-331` speaks of the one the runner adds (`FaithfulOutput`, `Chop`).
* A truncated stream is over the cap by the marker, as `test_limits.py` allows, and may be
  two bytes over it before the marker (`OutputBounded`).
* A block that writes to its stdout without a pause holds its call past the deadline, for
  as long as it likes: it is killed only after the drain (`CallEnds`, `EveryCallEnds`).
* Bash calls that overlap without being nested leave a session's directory in the
  server's environment (`EnvironRestored`, under `~crossed`). No bash and no runner runs
  in the wrong place for it: both get a value of their own.
* A bash call that times out returns only what came after the cancelled `communicate`,
  against `bash.py:4-6` (`OutcomeIsFinal`, `lost`), and not before the last
  descendant has closed the pipes (`EveryCallEnds`).
* `insert` after a last line without a newline continues that line, against
  `text_editor.py:8` (`InsertedAfterLine`, second disjunct).
* An edit of a file that user code has made read-only fails with its entry on the undo
  stack (`text_editor.py:126-127`, `:145-148`): the next `undo_edit` "restores" what was
  there all along, and the ones after it are one behind. An undo that cannot open the file
  has lost the version (`:161-162`). `HistoryIsFaithful` is of the other files (`spoiled`).
* An edit turns CRLF into LF in the whole file and undo does not bring it back; an undo
  whose write fails has lost the version; what the REPL wrote between the editor's read
  and its write is in no history (`HistoryIsFaithful`, `ReplyIsTrue`).
* A REPL that has imported the stub keeps the tools it has seen, and one that imports it
  during a registration may get a module cut off (`LoadedIsLatest`). A tool name with a
  newline at its end is accepted and makes the module a SyntaxError (`Valid`, `Import`).
* What user code has started and detached survives the session: `stop()` and the kill of
  a bash reach the process that the server forked and no other, so that it can make the
  directory of a session again that was torn down long ago, and a bash command goes on
  after a DELETE (`NothingElseLeaks`, `heirs` and `inUse`; `README.md:16-17` says that
  state is wiped).

## 8. What is not modelled, and why

* How long the processes live that user code leaves behind, and what they do but write
  to the pipes (`RunnerProtocol`, `BashExec`), change files (`SessionFiles`) and make
  the directory again (`SessionManager`). `RunnerProcess` speaks of runners only.
* Files that the server cannot read (a refusal), and directories that user code removes
  under a registered session, except in `SessionFiles`.
* The source text of the stub module and what its functions do over HTTP: it leaves the
  sandbox. Names that replace what the module itself uses (`json`, `_call`) are a
  hazard without a property.
* `_resolve`, `view`, downloads and listings: they read, or refuse; a property of path
  strings character by character is one for unit tests.
* The amounts of the rlimits and the environment variables they come from.
* Wire models, `/health`, result blocks, telemetry and logging: no state and no
  control that another part depends on.
* The disk, `rmtree` that fails half-way (ignored by the code), wall clocks that
  jump, and a crash of the server itself: nothing is persisted and a restart
  starts from an empty registry.

## 9. How to run it

    tlc -config MCRunnerSafety.cfg MCRunnerProcess
    tlc -config MCManagerSafety.cfg MCSessionManager
    tlc -config MCProtocol.cfg MCRunnerProtocol
    tlc -config MCBash.cfg MCBashExec
    tlc -config MCFiles.cfg MCSessionFiles
    tlapm RunnerProcess_proofs.tla
    tlapm RunnerLife_proofs.tla
    tlapm RunnerCalls_proofs.tla
    tlapm RunnerService_proofs.tla
    tlapm RunnerProtocol_proofs.tla
    tlapm SessionManager_proofs.tla
    tlapm BashExec_proofs.tla
    tlapm SessionFiles_proofs.tla

The other configurations are run the same way; `PROJECT.json` names the module of
each. All runs end within about two minutes on two cores.
