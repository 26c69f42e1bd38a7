--------------------------- MODULE SessionManager ---------------------------
(* The registry of sessions (sandbox/sessions.py) and the tasks that use it *)
(* (sandbox/exec_server.py): request handlers, the garbage collector of     *)
(* _gc_loop and the lifespan task that ends it and tears everything down.   *)
(*                                                                          *)
(* No body of `async with self._lock` in SessionManager awaits anything, so *)
(* the manager's lock is free whenever a task looks at it, taking it never  *)
(* suspends, and create, the scan of reap_idle and the pop of destroy are   *)
(* each part of the step they occur in.  A session's runner is seen from    *)
(* the outside: absent, being spawned, or up; RunnerProcess has the detail. *)
EXTENDS Naturals, FiniteSets

CONSTANTS
  Sid,          \* session ids; uuid4 never gives one twice
  Client,       \* HTTP clients, each making one request after another
  Gc, Main,     \* the _gc_loop task and the lifespan task
  None,
  MaxSessions,  \* SessionManager._max_sessions
  IdleTimeout, MaxLifetime,  \* of every session, in ticks
  Uploads,      \* may clients upload files?
  Commands,     \* may clients run bash, and user code leave processes behind?
  SpawnMayFail  \* may the operating system refuse to fork a runner?

ASSUME ManagerTasks ==
  /\ Gc \notin Client /\ Main \notin Client /\ Gc # Main
  /\ None \notin Client \cup Sid \cup {Gc, Main}
ASSUME ManagerBounds ==
  /\ {MaxSessions, IdleTimeout, MaxLifetime} \subseteq Nat \ {0}
  /\ {Uploads, Commands, SpawnMayFail} \subseteq BOOLEAN

Task == Client \cup {Gc, Main}

VARIABLES
  sessions,   \* ids registered in SessionManager._sessions
  known,      \* ids whose creation was answered: what clients can name
  dirs,       \* ids whose directory tree exists
  runner,     \* where `_proc` stands: "none", "spawning", "up" or "stopping"
  stray,      \* sessions with a live subprocess that `_proc` does not refer to
  booting,    \* subprocesses that have not made their workspace directory yet
  heirs,      \* sessions whose user code has left a process of its own behind
  idle, age,  \* ticks since last_activity_at and created_at, up to limit + 1
  pc,         \* the await each task is suspended in
  on,         \* the session a task works on
  rest,       \* what a loop over destroy() has still to do
  popped,     \* history: ids that were registered once
  inUse,      \* history: sessions popped while Busy
  abandoned   \* history: sessions whose destroy() was cancelled

clocks == <<idle, age>>
tasks == <<pc, on, rest>>
history == <<popped, inUse, abandoned>>
procs == <<runner, stray, booting, heirs>>
vars == <<sessions, known, dirs, procs, clocks, tasks, history>>

Init ==
  /\ sessions = {} /\ known = {} /\ dirs = {} /\ booting = {} /\ stray = {} /\ heirs = {}
  /\ runner = [s \in Sid |-> "none"]
  /\ idle = [s \in Sid |-> 0] /\ age = [s \in Sid |-> 0]
  /\ pc = [t \in Task |-> CASE t = Gc -> "sleep" [] t = Main -> "serving"
                            [] OTHER -> "ready"]
  /\ on = [t \in Task |-> None] /\ rest = [t \in Task |-> {}]
  /\ popped = {} /\ inUse = {} /\ abandoned = {}

Serving == pc[Main] = "serving"

\* Fault: the lifetime is not looked at.
StaleIdleOnly(s) == idle[s] > IdleTimeout

\* sessions.py:92-100: both comparisons are strict.
Stale(s) == idle[s] > IdleTimeout \/ age[s] > MaxLifetime

Suspend(t, where, s) == /\ pc' = [pc EXCEPT ![t] = where]
                        /\ on' = [on EXCEPT ![t] = s]

\* A request has yet to fork, write or wait for the lock of the session: it is
\* past get() and will go on.  A bash command does not know of the teardown; a block
\* that runs already has nothing more to make, as stop() ends it.
Busy(s) == \E c \in Client : on[c] = s /\ pc[c] # "running"

----------------------------------------------------------------------------
(* destroy(), as a DELETE runs it once and reap_idle and shutdown in a loop. *)

\* Fault: the collector makes one round and ends.
AtRestGcEnds(t) == CASE t = Gc -> "ended" [] t = Main -> "down" [] OTHER -> "ready"

\* Where a task is once its loop over destroy() is over.
AtRest(t) == CASE t = Gc -> "sleep" [] t = Main -> "down" [] OTHER -> "ready"

\* The Session objects popped are dropped, timestamps and all.
Drop ==
  /\ idle' = [s \in Sid |-> IF s \in sessions' THEN idle[s] ELSE 0]
  /\ age' = [s \in Sid |-> IF s \in sessions' THEN age[s] ELSE 0]
  /\ popped' = popped \cup (sessions \ sessions')
  /\ inUse' = inUse \cup {s \in sessions \ sessions' : Busy(s)}

\* Fault: a session that stop() has to wait for is looked up and not popped.
DestroyEachGet(todo, gone, waitsFor) ==
  /\ sessions' = sessions \ (todo \ waitsFor)
  /\ dirs' = dirs \ (gone \cup ((todo \ waitsFor) \cap sessions))
  /\ Drop

\* Fault: destroy() returns early when the session has no runner to stop.
DestroyEachIfRunning(todo, gone, waitsFor) ==
  /\ sessions' = sessions \ todo
  /\ dirs' = dirs \ gone
  /\ Drop

\* Fault: nothing comes after the await of stop().
DestroyEachEndsThere(todo, gone, waitsFor) ==
  /\ sessions' = sessions \ todo
  /\ dirs' = dirs \ ((todo \ waitsFor) \cap sessions)
  /\ Drop

\* The ids of `todo` are popped, and the directories removed of those whose
\* stop() has nothing to wait for.
DestroyEach(todo, gone, waitsFor) ==
  /\ sessions' = sessions \ todo
  /\ dirs' = dirs \ (gone \cup ((todo \ waitsFor) \cap sessions))
  /\ Drop

\* From one await to the next, task t goes through `todo`: ids another task has
\* popped are skipped, sessions without a running `_proc` are done with on the
\* spot, until stop() signals a runner and waits for it or nothing is left.
\* The step starts from runners r, and with the removal of directory `gone`.
Destroying(t, todo, gone, r) ==
  \E quick \in SUBSET todo :
    /\ \A s \in quick : s \notin sessions \/ r[s] # "up"
    /\ \/ /\ quick = todo
          /\ DestroyEach(quick, gone, {})
          /\ runner' = r
          /\ Suspend(t, AtRest(t), None)
          /\ rest' = [rest EXCEPT ![t] = {}]
       \/ \E s \in (todo \ quick) \cap sessions :
            /\ r[s] = "up"
            /\ DestroyEach(quick \cup {s}, gone, {s})
            /\ runner' = [r EXCEPT ![s] = "stopping"]
            /\ Suspend(t, "teardown", s)
            /\ rest' = [rest EXCEPT ![t] = todo \ (quick \cup {s})]

\* stop() is over and the directory goes.  The runner it waited for is dead; a
\* newer one, started by a request still at work, loses its reference.
StopEnds(t) ==
  /\ pc[t] = "teardown"
  /\ LET s == on[t]
     IN /\ Destroying(t, rest[t], {s},
             [runner EXCEPT ![s] = IF @ \in {"stopping", "up"} THEN "none" ELSE @])
        /\ stray' = IF runner[s] = "up" THEN stray \cup {s} ELSE stray
        /\ booting' = IF runner[s] = "stopping" THEN booting \ {s} ELSE booting
  /\ UNCHANGED <<known, heirs, abandoned>>

----------------------------------------------------------------------------
(* Request handlers.                                                       *)

\* Fault: the cap is off by one.
HasRoomOffByOne == Cardinality(sessions) <= MaxSessions

\* sessions.py:140
HasRoom == Cardinality(sessions) < MaxSessions

\* POST /sessions: refused with 503 at the cap, otherwise the directories are
\* made, the session is registered and its runner forked, all in one step.
CreateSession(c, s) ==
  /\ Serving /\ pc[c] = "ready"
  /\ s \notin sessions \cup popped
  /\ HasRoom
  /\ sessions' = sessions \cup {s} /\ dirs' = dirs \cup {s}
  /\ \/ /\ runner' = [runner EXCEPT ![s] = "spawning"]
        /\ booting' = booting \cup {s}
        /\ Suspend(c, "create", s)
     \/ SpawnMayFail /\ UNCHANGED <<runner, booting, pc, on>>
  /\ UNCHANGED <<known, stray, heirs, clocks, rest, history>>

\* The 201 that tells the client its id.
CreateReturns(c) ==
  /\ pc[c] = "create"
  /\ runner' = [runner EXCEPT ![on[c]] = "up"]
  /\ known' = known \cup {on[c]}
  /\ Suspend(c, "ready", None)
  /\ UNCHANGED <<sessions, dirs, stray, booting, heirs, clocks, rest, history>>

\* _require_session and touch(), at the head of every handler but GET and DELETE.
Touch(c, s) ==
  /\ Serving /\ pc[c] = "ready" /\ s \in known \cap sessions
  /\ idle' = [idle EXCEPT ![s] = 0]

\* exec with the text editor, a download, a listing or a registration of tools
\* does not suspend: to the registry it is a touch.
ShortRequest(c, s) ==
  /\ Touch(c, s)
  /\ UNCHANGED <<sessions, known, dirs, procs, age, tasks, history>>

\* POST /exec with code, up to the lock of execute().
ExecBegins(c, s) ==
  /\ Touch(c, s)
  /\ Suspend(c, "queued", s)
  /\ UNCHANGED <<sessions, known, dirs, procs, age, rest, history>>

\* execute() gets the lock: `on[c]` is in nobody else's hands.
Locks(c) == /\ pc[c] = "queued"
            /\ \A d \in Client : on[d] = on[c] => pc[d] \notin {"respawn", "running"}

\* start() finds a running `_proc`, which stop() may have signalled already ...
ExecRuns(c) ==
  /\ Locks(c) /\ runner[on[c]] \in {"up", "stopping"}
  /\ Suspend(c, "running", on[c])
  /\ UNCHANGED <<sessions, known, dirs, procs, clocks, rest, history>>

\* ... or none, and forks one if the working directory is there.
ExecSpawns(c) ==
  /\ Locks(c) /\ runner[on[c]] = "none" /\ on[c] \in dirs
  /\ runner' = [runner EXCEPT ![on[c]] = "spawning"]
  /\ booting' = booting \cup {on[c]}
  /\ Suspend(c, "respawn", on[c])
  /\ UNCHANGED <<sessions, known, dirs, stray, heirs, clocks, rest, history>>

ExecSpawned(c) ==
  /\ pc[c] = "respawn"
  /\ runner' = [runner EXCEPT ![on[c]] = "up"]
  /\ Suspend(c, "running", on[c])
  /\ UNCHANGED <<sessions, known, dirs, stray, booting, heirs, clocks, rest, history>>

\* execute() returns or raises.
ExecEnds(c) ==
  /\ pc[c] \in {"queued", "running"}
  /\ Suspend(c, "ready", None)
  /\ UNCHANGED <<sessions, known, dirs, procs, clocks, rest, history>>

\* POST /exec with a bash command: it runs without a lock, in a process that the
\* registry knows nothing of.
BashBegins(c, s) ==
  /\ Commands /\ Touch(c, s)
  /\ Suspend(c, "bash", s)
  /\ UNCHANGED <<sessions, known, dirs, procs, age, rest, history>>

\* The command ends or is killed; without its directory it does not even start.
BashEnds(c) ==
  /\ pc[c] = "bash"
  /\ Suspend(c, "ready", None)
  /\ UNCHANGED <<sessions, known, dirs, procs, clocks, rest, history>>

\* POST /files: the upload is read, then written; parents are made as needed.
UploadBegins(c, s) ==
  /\ Uploads /\ Touch(c, s)
  /\ Suspend(c, "upload", s)
  /\ UNCHANGED <<sessions, known, dirs, procs, age, rest, history>>

UploadEnds(c) ==
  /\ pc[c] = "upload"
  /\ dirs' = dirs \cup {on[c]}
  /\ Suspend(c, "ready", None)
  /\ UNCHANGED <<sessions, known, procs, clocks, rest, history>>

\* DELETE /sessions/{id}: an id that is not registered is none of its business.
DeleteSession(c, s) ==
  /\ Serving /\ pc[c] = "ready" /\ s \in known
  /\ Destroying(c, {s}, {}, runner)
  /\ UNCHANGED <<known, stray, booting, heirs, abandoned>>

----------------------------------------------------------------------------
(* Background tasks, subprocesses and time.                                *)

\* reap_idle: scan, then destroy what the scan found.
GcScans ==
  /\ pc[Gc] = "sleep"
  /\ Destroying(Gc, {s \in sessions : Stale(s)}, {}, runner)
  /\ UNCHANGED <<known, stray, booting, heirs, abandoned>>

\* uvicorn ends the lifespan once the last request is answered.  The collector
\* is cancelled wherever it waits: CancelledError is no Exception, so a
\* destroy() it was in removes nothing any more.
CancelGc ==
  /\ Serving /\ \A c \in Client : pc[c] = "ready"
  /\ pc' = [pc EXCEPT ![Gc] = "cancelled", ![Main] = "joining"]
  /\ on' = [on EXCEPT ![Gc] = None]
  /\ rest' = [rest EXCEPT ![Gc] = {}]
  /\ abandoned' = abandoned \cup {s \in Sid : on[Gc] = s}
  /\ UNCHANGED <<sessions, known, dirs, procs, clocks, popped, inUse>>

\* Fault: the shutdown leaves the sessions whose time has come to the collector.
DoomedFreshOnly == {s \in sessions : ~Stale(s)}

\* list_ids(), the snapshot shutdown() goes through.
Doomed == sessions

Shutdown ==
  /\ pc[Main] = "joining"
  /\ Destroying(Main, Doomed, {}, runner)
  /\ UNCHANGED <<known, stray, booting, heirs, abandoned>>

\* A subprocess makes its workspace directory before its read loop.
Boot(s) ==
  /\ s \in booting
  /\ booting' = booting \ {s}
  /\ dirs' = dirs \cup {s}
  /\ UNCHANGED <<sessions, known, runner, stray, heirs, clocks, tasks, history>>

\* A subprocess ends: by itself, by a limit, or killed by a call's own stop().
RunnerDies(s) ==
  /\ runner[s] \in {"up", "stopping"}
  /\ runner' = [runner EXCEPT ![s] = "none"]
  /\ booting' = booting \ {s}
  /\ UNCHANGED <<sessions, known, dirs, stray, heirs, clocks, tasks, history>>

RunsBash(s) == \E c \in Client : pc[c] = "bash" /\ on[c] = s

\* User code of the session runs: in its runner, in a stray one, in a bash or in
\* what these have left behind.
UserCode(s) ==
  runner[s] \in {"up", "stopping"} \/ s \in stray \cup heirs \/ RunsBash(s)

\* It makes the workspace again.
UserWrites(s) ==
  /\ UserCode(s) /\ s \notin dirs
  /\ dirs' = dirs \cup {s}
  /\ UNCHANGED <<sessions, known, procs, clocks, tasks, history>>

\* It starts a process and detaches it: neither stop() nor the kill at a timeout
\* reaches any but the process that the server has forked.
LeavesHeir(s) ==
  /\ Commands /\ UserCode(s)
  /\ heirs' = heirs \cup {s}
  /\ UNCHANGED <<sessions, known, dirs, runner, stray, booting, clocks, tasks, history>>

\* Time only matters to registered sessions, and not beyond their limits.
Tick ==
  /\ idle' = [s \in Sid |-> IF s \in sessions /\ idle[s] <= IdleTimeout
                            THEN idle[s] + 1 ELSE idle[s]]
  /\ age' = [s \in Sid |-> IF s \in sessions /\ age[s] <= MaxLifetime
                           THEN age[s] + 1 ELSE age[s]]
  /\ UNCHANGED <<sessions, known, dirs, procs, tasks, history>>

Request(c) ==
  \/ CreateReturns(c) \/ ExecRuns(c) \/ ExecEnds(c) \/ ExecSpawns(c) \/ ExecSpawned(c)
  \/ BashEnds(c) \/ UploadEnds(c)
  \/ \E s \in Sid : CreateSession(c, s) \/ ShortRequest(c, s) \/ ExecBegins(c, s)
                      \/ BashBegins(c, s) \/ UploadBegins(c, s) \/ DeleteSession(c, s)

Next ==
  \/ \E c \in Client : Request(c)
  \/ \E t \in Task : StopEnds(t)
  \/ GcScans \/ CancelGc \/ Shutdown \/ Tick
  \/ \E s \in Sid : Boot(s) \/ RunnerDies(s) \/ UserWrites(s) \/ LeavesHeir(s)

Spec == Init /\ [][Next]_vars

\* The loop's timers fire, a stop() ends (RunnerProcess shows why), and the
\* lifespan task runs on.  Nothing is asked of clients or of subprocesses.
Fairness ==
  /\ WF_vars(Tick) /\ WF_vars(GcScans) /\ WF_vars(Shutdown)
  /\ WF_vars(StopEnds(Gc)) /\ WF_vars(StopEnds(Main))

LiveSpec == Spec /\ Fairness

----------------------------------------------------------------------------
(* Properties.                                                             *)

PCs == {"ready", "create", "queued", "respawn", "running", "bash", "upload",
        "teardown", "sleep", "cancelled", "serving", "joining", "down"}

TypeOK ==
  /\ sessions \subseteq Sid /\ known \subseteq Sid /\ dirs \subseteq Sid
  /\ runner \in [Sid -> {"none", "spawning", "up", "stopping"}]
  /\ stray \subseteq Sid /\ booting \subseteq Sid /\ heirs \subseteq Sid
  /\ idle \in [Sid -> 0..IdleTimeout + 1] /\ age \in [Sid -> 0..MaxLifetime + 1]
  /\ pc \in [Task -> PCs]
  /\ on \in [Task -> Sid \cup {None}] /\ rest \in [Task -> SUBSET Sid]
  /\ popped \subseteq Sid /\ inUse \subseteq Sid /\ abandoned \subseteq Sid

\* The cap of create() holds although its callers race: the check and the
\* registration are not separated by an await (sessions.py:140-161).
CapHolds == Cardinality(sessions) <= MaxSessions

\* DELETE, the collector and the shutdown may all want the same session; the
\* pop under the lock lets one of them tear it down (sessions.py:167-170).
OneTeardown ==
  \A t, u \in Task : pc[t] = "teardown" /\ pc[u] = "teardown" /\ on[t] = on[u] => t = u

\* A session that get() hands to a handler has its directory: nobody can look a
\* session up whose tree is already gone (sessions.py:168 before 179).
RegisteredHasDir == sessions \subseteq dirs

BeingTornDown(s) == \E t \in Task : pc[t] = "teardown" /\ on[t] = s

\* Every directory, every runner that lives and every bash under way belongs to a
\* session that is registered or being torn down, unless it was popped under the
\* hands of a request or its teardown was cancelled; and a directory, unless user
\* code has left a process behind that can make it again.  Whatever order DELETEs,
\* collector, commands, restarts and failed creations come in, nothing else is left.
NothingElseLeaks ==
  \A s \in Sid \ sessions : ~BeingTornDown(s) =>
    /\ s \in stray \/ runner[s] # "none" \/ RunsBash(s) => s \in inUse \cup abandoned
    /\ s \in dirs => s \in inUse \cup abandoned \cup heirs

\* sessions.py:89, "Mark the session as active so the GC does not reap it": the
\* collector only pops sessions that are over a limit when it pops them.
GcReapsOnlyStale ==
  [][GcScans \/ StopEnds(Gc) => \A s \in sessions \ sessions' : Stale(s)]_vars

\* sessions.py:218, "Destroy every session": when the application is down no
\* directory is left, but those of sessions popped under a request's hands or whose
\* user code has left a process behind.
ShutdownIsClean == pc[Main] = "down" => dirs \subseteq inUse \cup heirs

\* Requests cannot keep a session alive: even one that is touched again and
\* again is unregistered, at its lifetime at the latest (sessions.py:97-100).
SessionsExpire == \A s \in Sid : s \in sessions ~> s \notin sessions

\* Once uvicorn has ended the lifespan, every session is destroyed and the
\* lifespan task returns, wherever the collector was (exec_server.py:130-134).
ShutdownEnds == pc[Main] = "joining" ~> (pc[Main] = "down" /\ sessions = {})
=============================================================================
