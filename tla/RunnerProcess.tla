--------------------------- MODULE RunnerProcess ---------------------------
(* One session's RunnerProcess (sandbox/runner_pool.py): the reference      *)
(* `_proc`, the lock that serialises execute(), the Python subprocesses it  *)
(* forks one after another, and the tasks of the event loop that use it: the*)
(* create_session handler, the execute() calls, and the one task that tears *)
(* the session down (SessionManager.destroy, for DELETE, the GC or shutdown)*)
(*                                                                          *)
(* The event loop runs one task at a time and switches only at an await, so *)
(* an action is the code from one suspension point to the next and pc names *)
(* the await a task is suspended in.  When a subprocess exits, its          *)
(* end-of-file, the child watcher's notice and the wake-ups of the tasks    *)
(* that wait for them come in no particular order.                          *)
EXTENDS Naturals, Sequences, FiniteSets

CONSTANTS
  Caller,         \* execute() calls; each arrives at most once
  Create,         \* the task of the POST /sessions handler
  Destroy,        \* the task that pops the session and tears it down
  None,           \* Python's None, and "no task"
  SelfExit,       \* the ways a runner may end by itself (see Endings)
  IdleCrash,      \* may it also end while it runs no code?
  TornFrame,      \* may the parser give up an answer before its last line?
  Big,            \* calls whose code overfills the pipe to a runner that reads nothing
  SpawnMayFail    \* may the operating system refuse to fork?

ASSUME TasksAssumption ==
  /\ Create \notin Caller /\ Destroy \notin Caller /\ Create # Destroy
  /\ None \notin Caller \cup {Create, Destroy}

\* SIGKILL by the OOM killer or by the kernel at a CPU limit whose soft and hard
\* values are equal; SIGXCPU (a runner that lowers its own soft limit); SIGXFSZ;
\* any other signal or exit code.
Endings == {"oom", "cpu_kill", "xcpu", "xfsz", "crash"}

ASSUME FaultsAssumption ==
  /\ SelfExit \subseteq Endings
  /\ Big \subseteq Caller
  /\ {IdleCrash, TornFrame, SpawnMayFail} \subseteq BOOLEAN

Task == Caller \cup {Create, Destroy}
Proc == Caller \cup {Create}    \* a subprocess, named for the task that forks it

VARIABLES
  inDict,      \* is the session in SessionManager._sessions?
  dirExists,   \* does its directory tree exist?
  procRef,     \* RunnerProcess._proc
  lockQ,       \* the asyncio.Lock: its head holds it, the others wait in order
  os,          \* "none", "boot" (before its read loop), "live", "exited", "reaped"
  code,        \* how a subprocess ended: a SelfExit, or the signal stop() sent
  sig,         \* strongest signal it was sent: "none", "term" or "kill"
  inbox,       \* code blocks written to its stdin and not run to their end
  pipe,        \* answers on its stdout and not yet read
  pc,          \* the await each task is suspended in
  on,          \* the subprocess that await is about
  after,       \* the outcome execute() returns once its stop() is over
  log,         \* history: outcomes of the calls in the order they ended
  atDestroy    \* history: tasks in progress when the session was popped

procVars == <<os, code, sig, inbox, pipe>>
taskVars == <<pc, on, after>>
vars == <<inDict, dirExists, procRef, lockQ, procVars, taskVars, log, atDestroy>>

PCs == {"new", "queued", "spawn", "send", "read", "eof_wait", "drain",
        "term_wait", "kill_wait", "done", "failed"}
Limits == {"none", "memory", "cpu", "file_size", "wall_clock"}
Kinds == {"answered", "pipe_closed", "timed_out", "exited", "error"}
Outcome == [kind : Kinds, limit : Limits, from : Caller \cup {None},
            repl : Proc \cup {None}]

Failure(kind, limit, repl) ==
  [kind |-> kind, limit |-> limit, from |-> None, repl |-> repl]
HttpError == Failure("error", "none", None)   \* an exception leaves execute(): 500
TimedOut == Failure("timed_out", "wall_clock", None)
AnswerOf(answer, p) ==
  [kind |-> "answered", limit |-> "none", from |-> answer.from, repl |-> p]

\* returncode of a subprocess is None until the child watcher has reaped it.
Reaped(p) == os[p] = "reaped"
Running(p) == os[p] \in {"boot", "live"}
InProgress(t) == pc[t] \notin {"new", "done", "failed"}

\* Fault: every death is put down to the memory limit.
ClassifyAllMemory(how) == "memory"

\* Fault: the raw exit status is handed on.
ClassifyRaw(how) == how

\* runner_pool.py:84-96.  SIGKILL is taken for the memory limit, whoever sent it.
Classify(how) == CASE how \in {"oom", "cpu_kill", "kill"} -> "memory"
                   [] how = "xcpu" -> "cpu"
                   [] how = "xfsz" -> "file_size"
                   [] OTHER -> "none"

Init ==
  /\ inDict = FALSE /\ dirExists = FALSE
  /\ procRef = None /\ lockQ = <<>>
  /\ os = [p \in Proc |-> "none"]
  /\ code = [p \in Proc |-> "none"]
  /\ sig = [p \in Proc |-> "none"]
  /\ inbox = [p \in Proc |-> <<>>] /\ pipe = [p \in Proc |-> <<>>]
  /\ pc = [t \in Task |-> "new"]
  /\ on = [t \in Task |-> None]
  /\ after = [t \in Task |-> HttpError]
  /\ log = <<>> /\ atDestroy = {}

----------------------------------------------------------------------------
(* Pieces of the handlers.  Each names every variable it changes.          *)

\* The task waits in `where`, for something of subprocess p.
Suspend(t, where, p) == /\ pc' = [pc EXCEPT ![t] = where]
                        /\ on' = [on EXCEPT ![t] = p]

\* execute() ends with outcome o: the lock, held in queue q, is released.
Return(c, o, q) == /\ Suspend(c, "done", None)
                   /\ lockQ' = Tail(q)
                   /\ log' = Append(log, [caller |-> c, outcome |-> o])

\* create_subprocess_exec forks at once and returns when the pipes are set up.
Fork(t) == /\ os' = [os EXCEPT ![t] = "boot"]
           /\ Suspend(t, "spawn", t)

\* The code block goes to the stdin of p; a dead process loses it.
Write(c, p) ==
  inbox' = IF Running(p) THEN [inbox EXCEPT ![p] = Append(@, c)] ELSE inbox

\* What follows a stop(): execute() returns, destroy() removes the directories.
AfterStop(t, o) ==
  IF t = Destroy
    THEN /\ Suspend(t, "done", None)
         /\ dirExists' = FALSE
         /\ UNCHANGED <<lockQ, log>>
    ELSE Return(t, o, lockQ) /\ UNCHANGED dirExists

\* An exception leaves stop(): destroy() logs it and removes the directories,
\* execute() lets it out.
StopRaises(t) == AfterStop(t, HttpError) /\ UNCHANGED procRef

\* The last line of stop(), whatever `_proc` refers to by now.
Forget(t, o) == procRef' = None /\ AfterStop(t, o)

\* Fault: stop() sends SIGTERM and does not wait.
BeginStopNoWait(t, o) ==
  /\ Forget(t, o)
  /\ sig' = [p \in Proc |-> IF p = procRef THEN "term" ELSE sig[p]]
  /\ UNCHANGED after

\* stop() up to its first await.  A subprocess that is gone but not reaped
\* may take the signal in silence or raise ProcessLookupError.
BeginStop(t, o) ==
  \/ /\ procRef = None \/ (procRef # None /\ os[procRef] \in {"exited", "reaped"})
     /\ Forget(t, o)
     /\ UNCHANGED <<sig, after>>
  \/ /\ procRef # None /\ ~Reaped(procRef)
     /\ Suspend(t, "term_wait", procRef)
     /\ sig' = [sig EXCEPT ![procRef] = IF @ = "none" THEN "term" ELSE @]
     /\ after' = [after EXCEPT ![t] = o]
     /\ UNCHANGED <<procRef, lockQ, log, dirExists>>

----------------------------------------------------------------------------
(* The handler of POST /sessions.                                          *)

\* SessionManager.create publishes the session and create_session starts the
\* runner with no await in between (exec_server.py:209-216).
CreateSession ==
  /\ pc[Create] = "new"
  /\ inDict' = TRUE /\ dirExists' = TRUE
  /\ \/ Fork(Create)
     \/ SpawnMayFail /\ Suspend(Create, "failed", None) /\ UNCHANGED os
  /\ UNCHANGED <<procRef, lockQ, code, sig, inbox, pipe, after, log, atDestroy>>

\* start() returns to create_session: the client gets its 201.
CreateReturns ==
  /\ pc[Create] = "spawn"
  /\ procRef' = Create
  /\ Suspend(Create, "done", None)
  /\ UNCHANGED <<inDict, dirExists, lockQ, procVars, after, log, atDestroy>>

----------------------------------------------------------------------------
(* execute().                                                              *)

\* Fault: start() lacks the guard that keeps a live runner.
EnterAlwaysForks(c, q) ==
  /\ Fork(c)
  /\ lockQ' = q
  /\ UNCHANGED <<inbox, log>>

\* From the acquired lock to the first await: start()'s guard, then either the
\* fork (in a working directory that must exist) or the write to the runner.
Enter(c, q) ==
  IF procRef # None /\ ~Reaped(procRef)
    THEN /\ Write(c, procRef)
         /\ Suspend(c, "send", procRef)
         /\ lockQ' = q
         /\ UNCHANGED <<os, log>>
    ELSE \/ /\ dirExists
            /\ Fork(c)
            /\ lockQ' = q
            /\ UNCHANGED <<inbox, log>>
         \/ /\ ~dirExists \/ SpawnMayFail
            /\ Return(c, HttpError, q)
            /\ UNCHANGED <<os, inbox>>

\* The client knows the session's id once create_session has answered.  get,
\* touch, dispatch and the first look at the lock are one step (exec_tool).
Arrive(c) ==
  /\ pc[c] = "new" /\ pc[Create] = "done"
  /\ CASE ~inDict -> /\ Suspend(c, "done", None)
                     /\ UNCHANGED <<lockQ, os, inbox, log>>
       [] inDict /\ lockQ = <<>> -> Enter(c, <<c>>)
       [] OTHER -> /\ lockQ' = Append(lockQ, c)
                   /\ Suspend(c, "queued", None)
                   /\ UNCHANGED <<os, inbox, log>>
  /\ UNCHANGED <<inDict, dirExists, procRef, code, sig, pipe, after, atDestroy>>

\* The lock passes to the task that waited longest.
Acquire(c) ==
  /\ pc[c] = "queued" /\ lockQ # <<>> /\ Head(lockQ) = c
  /\ Enter(c, lockQ)
  /\ UNCHANGED <<inDict, dirExists, procRef, code, sig, pipe, after, atDestroy>>

\* start() returns to execute(), which writes to the new runner.
Spawned(c) ==
  /\ pc[c] = "spawn"
  /\ procRef' = c
  /\ Write(c, c)
  /\ Suspend(c, "send", c)
  /\ UNCHANGED <<inDict, dirExists, lockQ, os, code, sig, pipe, after, log, atDestroy>>

\* drain() returns and _read_until_done begins, asserting that _proc is set.
Sent(c) ==
  /\ pc[c] = "send"
  /\ \/ procRef = None /\ Return(c, HttpError, lockQ)
     \/ procRef # None /\ Suspend(c, "read", procRef) /\ UNCHANGED <<lockQ, log>>
  /\ UNCHANGED <<inDict, dirExists, procRef, procVars, after, atDestroy>>

\* Fault: a broken pipe is answered by a silent retry on a new runner.
SendFailsRetry(c) ==
  /\ pc[c] = "send" /\ Reaped(on[c])
  /\ procRef' = None
  /\ Suspend(c, "queued", None)
  /\ UNCHANGED <<inDict, dirExists, lockQ, procVars, after, log, atDestroy>>

\* drain() finds the pipe broken.
SendFails(c) ==
  /\ pc[c] = "send" /\ ~Running(on[c])
  /\ BeginStop(c, Failure("pipe_closed", "none", on[c]))
  /\ UNCHANGED <<inDict, os, code, inbox, pipe, atDestroy>>

\* The answer on the pipe is parsed, line by line through self._proc.  A torn
\* one has a line over the stream limit (readline raises ValueError and drops
\* it) or, in its output, a line that looks like the last: the rest of the
\* frame, perhaps with more such lines, stays on the pipe.
ReadAnswer(c) ==
  /\ pc[c] = "read" /\ pipe[on[c]] # <<>>
  /\ LET answer == Head(pipe[on[c]])
         rest == Tail(pipe[on[c]])
     IN CASE procRef = None ->
               /\ Return(c, HttpError, lockQ)
               /\ UNCHANGED pipe
          [] procRef # None /\ answer.torn ->
               /\ \E o \in {HttpError, AnswerOf(answer, on[c])} : Return(c, o, lockQ)
               /\ \E more \in BOOLEAN :
                    pipe' = [pipe EXCEPT ![on[c]] =
                               <<[answer EXCEPT !.torn = more]>> \o rest]
          [] OTHER ->
               /\ Return(c, AnswerOf(answer, on[c]), lockQ)
               /\ pipe' = [pipe EXCEPT ![on[c]] = rest]
  /\ UNCHANGED <<inDict, dirExists, procRef, os, code, sig, inbox, after, atDestroy>>

\* The exit code is looked up through self._proc, gone if destroy() was faster.
EndOfRunner(c) ==
  IF procRef = None
    THEN /\ Return(c, HttpError, lockQ)
         /\ UNCHANGED <<procRef, sig, after, dirExists>>
    ELSE LET limit == IF Reaped(procRef) THEN Classify(code[procRef]) ELSE "none"
         IN BeginStop(c, Failure("exited", limit, procRef))

\* readline() reports end-of-file: the runner is gone, or a block it runs has
\* closed its stdout.  An unknown exit code is awaited for 0.5 s.
ReadEof(c) ==
  /\ pc[c] = "read" /\ pipe[on[c]] = <<>>
  /\ os[on[c]] \in {"boot", "live"} => os[on[c]] = "live" /\ inbox[on[c]] # <<>>
  /\ IF procRef # None /\ ~Reaped(procRef)
       THEN /\ Suspend(c, "eof_wait", procRef)
            /\ UNCHANGED <<procRef, lockQ, sig, after, log, dirExists>>
       ELSE EndOfRunner(c)
  /\ UNCHANGED <<inDict, os, code, inbox, pipe, atDestroy>>

EofWaited(c) ==
  /\ pc[c] = "eof_wait"
  /\ EndOfRunner(c)
  /\ UNCHANGED <<inDict, os, code, inbox, pipe, atDestroy>>

\* Is wait_for(_read_until_done()) pending?  The stop() of its end-of-file
\* branch runs inside it too.
Reading(c) == \/ pc[c] \in {"read", "eof_wait"}
              \/ pc[c] \in {"term_wait", "kill_wait"} /\ after[c].kind = "exited"

\* timeout_seconds have passed: _read_until_done is cancelled where it waits.
TimeOut(c) ==
  /\ Reading(c)
  /\ IF procRef # None /\ ~Reaped(procRef)
       THEN /\ Suspend(c, "drain", procRef)
            /\ UNCHANGED <<procRef, lockQ, sig, after, log, dirExists>>
       ELSE BeginStop(c, TimedOut)
  /\ UNCHANGED <<inDict, os, code, inbox, pipe, atDestroy>>

\* Fault: a call that timed out leaves its runner in place.
DrainedKeepsRunner(c) ==
  /\ pc[c] = "drain"
  /\ pipe' = [pipe EXCEPT ![on[c]] = <<>>]
  /\ Return(c, TimedOut, lockQ)
  /\ UNCHANGED <<inDict, dirExists, procRef, os, code, sig, inbox, after, atDestroy>>

\* _drain_partial_stdout has taken what was on the pipe (50 ms of silence).
Drained(c) ==
  /\ pc[c] = "drain"
  /\ pipe' = [pipe EXCEPT ![on[c]] = <<>>]
  /\ BeginStop(c, TimedOut)
  /\ UNCHANGED <<inDict, os, code, inbox, atDestroy>>

----------------------------------------------------------------------------
(* stop() from its first await on, in execute() or in destroy().           *)

TermWaited(t) ==
  /\ pc[t] = "term_wait" /\ Reaped(on[t])
  /\ Forget(t, after[t])
  /\ UNCHANGED <<inDict, procVars, after, atDestroy>>

\* Fault: after two seconds stop() gives up without SIGKILL.
TermTimedOutGivesUp(t) ==
  /\ pc[t] = "term_wait"
  /\ Forget(t, after[t])
  /\ UNCHANGED <<inDict, procVars, after, atDestroy>>

\* Fault: stop() waits for SIGTERM to work, however long.
TermNeverTimesOut(t) == FALSE

\* Two seconds after SIGTERM: kill() and wait() go through self._proc again.
TermTimedOut(t) ==
  /\ pc[t] = "term_wait"
  /\ \/ /\ procRef = None
        /\ StopRaises(t)
        /\ UNCHANGED sig
     \/ /\ procRef # None /\ ~Running(procRef)
        /\ Forget(t, after[t])
        /\ UNCHANGED sig
     \/ /\ procRef # None /\ ~Reaped(procRef)
        /\ sig' = [sig EXCEPT ![procRef] = "kill"]
        /\ Suspend(t, "kill_wait", procRef)
        /\ UNCHANGED <<procRef, lockQ, log, dirExists>>
  /\ UNCHANGED <<inDict, os, code, inbox, pipe, after, atDestroy>>

KillWaited(t) ==
  /\ pc[t] = "kill_wait" /\ Reaped(on[t])
  /\ Forget(t, after[t])
  /\ UNCHANGED <<inDict, procVars, after, atDestroy>>

----------------------------------------------------------------------------
(* SessionManager.destroy: pop, then stop() the runner (sessions.py:167-178). *)

DestroySession ==
  /\ pc[Destroy] = "new" /\ inDict
  /\ inDict' = FALSE
  /\ atDestroy' = {t \in Task : InProgress(t)}
  /\ BeginStop(Destroy, HttpError)
  /\ UNCHANGED <<os, code, inbox, pipe>>

----------------------------------------------------------------------------
(* The subprocesses.                                                       *)

\* runner.run makes its workspace directory, even one removed meanwhile.
Boot(p) ==
  /\ os[p] = "boot"
  /\ os' = [os EXCEPT ![p] = "live"]
  /\ dirExists' = TRUE
  /\ UNCHANGED <<inDict, procRef, lockQ, code, sig, inbox, pipe, taskVars, log, atDestroy>>

\* A code block has run to its end and its frames are written, all at once.
Answer(p) ==
  /\ os[p] = "live" /\ inbox[p] # <<>>
  /\ \E torn \in {FALSE, TornFrame} :
       pipe' = [pipe EXCEPT ![p] = Append(@, [from |-> Head(inbox[p]), torn |-> torn])]
  /\ inbox' = [inbox EXCEPT ![p] = Tail(@)]
  /\ UNCHANGED <<inDict, dirExists, procRef, lockQ, os, code, sig, taskVars, log, atDestroy>>

Exit(p, how) ==
  /\ os' = [os EXCEPT ![p] = "exited"]
  /\ code' = [code EXCEPT ![p] = how]
  /\ UNCHANGED <<inDict, dirExists, procRef, lockQ, sig, inbox, pipe, taskVars, log, atDestroy>>

\* The runner ends by itself: a limit, the OOM killer, a fault of its code.
Crash(p) ==
  /\ Running(p)
  /\ IdleCrash \/ inbox[p] # <<>>
  /\ \E how \in SelfExit : Exit(p, how)

\* SIGTERM ends a runner unless its code handles the signal.
ObeyTerm(p) == Running(p) /\ sig[p] = "term" /\ Exit(p, "term")

ObeyKill(p) == Running(p) /\ sig[p] = "kill" /\ Exit(p, "kill")

\* The child watcher sets returncode.
Reap(p) ==
  /\ os[p] = "exited"
  /\ os' = [os EXCEPT ![p] = "reaped"]
  /\ UNCHANGED <<inDict, dirExists, procRef, lockQ, code, sig, inbox, pipe,
                 taskVars, log, atDestroy>>

----------------------------------------------------------------------------
ExecStep(c) == \/ Arrive(c) \/ Acquire(c) \/ Spawned(c) \/ Sent(c) \/ SendFails(c)
               \/ ReadAnswer(c) \/ ReadEof(c) \/ EofWaited(c)
               \/ TimeOut(c) \/ Drained(c)

StopStep(t) == TermWaited(t) \/ TermTimedOut(t) \/ KillWaited(t)

ProcStep(p) == Boot(p) \/ Answer(p) \/ Crash(p) \/ ObeyTerm(p) \/ ObeyKill(p) \/ Reap(p)

Next == \/ CreateSession \/ CreateReturns \/ DestroySession
        \/ \E c \in Caller : ExecStep(c)
        \/ \E t \in Caller \cup {Destroy} : StopStep(t)
        \/ \E p \in Proc : ProcStep(p)

Spec == Init /\ [][Next]_vars

\* Tasks run when what they await is there, timers fire, the watcher reaps and
\* SIGKILL kills.  Nothing makes a runner answer, read its stdin, fall silent or
\* obey SIGTERM: the two drains, which have no timeout, may never return.
\* drain() of a code block that the transport's buffer takes returns at once.
Fairness ==
  /\ WF_vars(CreateReturns)
  /\ \A c \in Caller :
       /\ WF_vars(Acquire(c)) /\ WF_vars(Spawned(c)) /\ WF_vars(TimeOut(c))
       /\ c \notin Big => WF_vars(Sent(c))
  /\ \A t \in Caller \cup {Destroy} : WF_vars(TermTimedOut(t)) /\ WF_vars(KillWaited(t))
  /\ \A p \in Proc : WF_vars(ObeyKill(p)) /\ WF_vars(Reap(p))

LiveSpec == Spec /\ Fairness

----------------------------------------------------------------------------
TypeOK ==
  /\ inDict \in BOOLEAN /\ dirExists \in BOOLEAN
  /\ procRef \in Proc \cup {None}
  /\ lockQ \in Seq(Caller)
  /\ os \in [Proc -> {"none", "boot", "live", "exited", "reaped"}]
  /\ code \in [Proc -> Endings \cup {"none", "term", "kill"}]
  /\ sig \in [Proc -> {"none", "term", "kill"}]
  /\ inbox \in [Proc -> Seq(Caller)]
  /\ pipe \in [Proc -> Seq([from : Caller, torn : BOOLEAN])]
  /\ pc \in [Task -> PCs]
  /\ on \in [Task -> Proc \cup {None}]
  /\ after \in [Task -> Outcome]
  /\ log \in Seq([caller : Caller, outcome : Outcome])
  /\ atDestroy \subseteq Task

Answered(i) == log[i].outcome.kind = "answered"

\* An answer that execute() returns is the answer to its own code block: what a
\* timed-out or failed call leaves behind never reaches a later call.
ResponseAttribution ==
  \A i \in 1..Len(log) : Answered(i) => log[i].outcome.from = log[i].caller

\* Request and response are never multiplexed: between `_proc` and its client at
\* most one code block is under way, and it is that of the call that holds the
\* lock and is past its write (runner_pool.py:14-16).
HolderOf(p) == /\ lockQ # <<>>
               /\ pc[Head(lockQ)] \in {"send", "read", "eof_wait", "drain",
                                       "term_wait", "kill_wait"}
               /\ \A i \in 1..Len(inbox[p]) : inbox[p][i] = Head(lockQ)
               /\ \A i \in 1..Len(pipe[p]) : pipe[p][i].from = Head(lockQ)

OneExchange ==
  \A p \in Proc : procRef = p =>
    /\ Len(inbox[p]) + Len(pipe[p]) <= 1
    /\ inbox[p] # <<>> \/ pipe[p] # <<>> => HolderOf(p)

\* While the session is registered, at most one subprocess of it is running: a
\* respawn waits for the death of the runner it replaces, and the eager start of
\* create_session never races an execute().
SingleRunner ==
  inDict => \A p, q \in Proc : Running(p) /\ Running(q) => p = q

\* A memory, CPU or file size limit is reported only for a runner that died of
\* a limit, though one killed at its CPU limit is put down to memory.  A
\* concurrent teardown is the one exception: its SIGKILL looks the same.
LimitIsReal ==
  \A i \in 1..Len(log) :
    LET o == log[i].outcome
    IN o.kind = "exited" /\ o.limit # "none" /\ inDict =>
         <<o.limit, code[o.repl]>>
           \in {<<"memory", "oom">>, <<"memory", "cpu_kill">>,
                <<"cpu", "xcpu">>, <<"file_size", "xfsz">>}

\* Between two answers from different runners some call has reported a failure,
\* or the first runner died between calls, with no code to run: only then does
\* the REPL state disappear without the client being told.
NoSilentRestart ==
  inDict => \A i, j \in 1..Len(log) :
              /\ i < j /\ Answered(i) /\ Answered(j)
              /\ log[i].outcome.repl # log[j].outcome.repl
              => \/ \E k \in i..j : ~Answered(k)
                 \/ inbox[log[i].outcome.repl] = <<>>

NothingLeft == ~dirExists /\ \A p \in Proc : ~Running(p)

\* Tearing down a session that no task is using leaves no subprocess and no
\* directory behind.
QuietDestroyIsClean ==
  pc[Destroy] = "done" /\ atDestroy = {} => NothingLeft

\* Once a session whose creation was answered is torn down and its last call has
\* returned, no subprocess and no directory is left, whatever calls were in
\* progress ("Tear down a session: stop the runner and remove its directories",
\* sessions.py:166).
DestroyIsClean ==
  /\ pc[Destroy] = "done" /\ Create \notin atDestroy
  /\ \A t \in Task : ~InProgress(t)
  => NothingLeft

\* While the session is registered, `_proc` never lets go of a runner that is
\* still running.
NeverForgetsLiveRunner ==
  [][inDict /\ procRef # None /\ procRef' # procRef => ~Running(procRef)]_vars

\* May whatever reads the stdin of c's runner, or writes to its stdout, keep c
\* where it is?  The write of a big code block (runner_pool.py:228) and the drain
\* of partial output (runner_pool.py:376) are the awaits without a timeout.
HeldBy(c) == pc[c] = "drain" \/ (pc[c] = "send" /\ c \in Big)

\* A call that never ends, waiting for the lock or holding it, is behind a call
\* that is held in one of the two drains: nothing else keeps execute() for ever,
\* even if the runner neither answers nor obeys SIGTERM and the session is torn
\* down meanwhile.  (wait() is taken to return once the process is reaped.)
EveryCallEnds ==
  \A c \in Caller : <>[]InProgress(c) => \E d \in Caller : <>[]HeldBy(d)

\* A session that was popped is torn down to the end.
DestroyEnds == pc[Destroy] \in {"term_wait", "kill_wait"} ~> pc[Destroy] = "done"

----------------------------------------------------------------------------
(* Refinement: seen through the outcomes, execute() is an ExecService.     *)

GotOwnAnswer(c) ==
  \E i \in 1..Len(log) : log[i].caller = c /\ Answered(i) /\ log[i].outcome.from = c
GotFailure(c) == \E i \in 1..Len(log) : log[i].caller = c /\ ~Answered(i)

Status(c) == IF pc[c] = "new" THEN "new"
             ELSE IF pc[c] # "done" THEN "waiting"
             ELSE IF GotOwnAnswer(c) THEN "answered"
             ELSE IF GotFailure(c) THEN "failed"
             ELSE "rejected"

Service == INSTANCE ExecService WITH
             status <- [c \in Caller |-> Status(c)], queue <- lockQ,
             held <- lockQ # <<>> /\ HeldBy(Head(lockQ))

\* Calls are served one at a time in arrival order and each ends at most once,
\* and the one that is served does end unless it is held in one of the drains.
ImplementsService == Service!Spec
=============================================================================
