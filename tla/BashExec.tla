------------------------------ MODULE BashExec ------------------------------
(* bash_code_execution: _run_bash_execution (sandbox/exec_server.py) sets    *)
(* SANDBOX_WORKSPACE in the one environment of the exec server, awaits       *)
(* run_bash (sandbox/bash.py) and puts the old value back; calls of several  *)
(* sessions interleave at the awaits.  No lock serialises them: what keeps   *)
(* one call's setting from another is that the loop runs a task up to its    *)
(* next await, so the setting and what reads it are steps of their own here. *)
(*                                                                           *)
(* A call has a bash of its own and perhaps descendants of it that outlive   *)
(* it with its pipes open.  Output is counted, in units of one write: on the *)
(* pipe (and in the StreamReader), or taken by a communicate() that runs.    *)
EXTENDS Naturals, Sequences

CONSTANTS
  Call,         \* requests, each made at most once
  Session,      \* the sessions they may be for
  Image,        \* what SANDBOX_WORKSPACE is (or is not) set to in the image
  MaxWrites,    \* bound: writes by one bash and its descendants
  SpawnMayFail  \* may the fork, or the chdir of the child, be refused?

ASSUME BashBounds ==
  /\ Image \notin Session /\ MaxWrites \in Nat /\ SpawnMayFail \in BOOLEAN

VARIABLES
  environ,  \* os.environ["SANDBOX_WORKSPACE"] of the exec server
  pc,       \* "new", "fork" (it runs), the await it is in, or how it ended
  session,  \* whose call it is
  prev,     \* the value it will put back
  bash,     \* "none", "run", "killed" (SIGKILL is on its way) or "exited"
  cwd,      \* the directory bash was started in, and its SANDBOX_WORKSPACE
  heirs,    \* does a descendant of bash hold the pipes?
  wrote, pipe, taken,  \* units written in all, not yet read, read
  lost,     \* units taken by a communicate() that was cancelled
  crossed,  \* history: has a call ended before one that began after it?
  open      \* history: until then, the calls in progress as they began

output == <<wrote, pipe, taken, lost>>
child == <<bash, cwd, heirs>>
vars == <<environ, pc, session, prev, child, output, open, crossed>>

Init ==
  /\ environ = Image /\ open = <<>> /\ crossed = FALSE
  /\ pc = [c \in Call |-> "new"]
  /\ session = [c \in Call |-> Image] /\ prev = [c \in Call |-> Image]
  /\ bash = [c \in Call |-> "none"] /\ cwd = [c \in Call |-> <<Image, Image>>]
  /\ heirs = [c \in Call |-> FALSE]
  /\ wrote = [c \in Call |-> 0] /\ pipe = [c \in Call |-> 0]
  /\ taken = [c \in Call |-> 0] /\ lost = [c \in Call |-> 0]

InProgress(c) == pc[c] \in {"fork", "spawn", "read", "again"}

\* Fault: something is awaited between the setting of the variable and the fork.
LoopAlwaysFree == TRUE

\* May the event loop go on with another task?  The one that has set the variable
\* reaches the fork first: nothing is awaited in between (exec_server.py:304-309,
\* bash.py:19-20).
LoopFree == \A c \in Call : pc[c] # "fork"

\* _run_bash_execution sets the variable and calls run_bash.
Begin(c, s) ==
  /\ LoopFree /\ pc[c] = "new"
  /\ session' = [session EXCEPT ![c] = s]
  /\ prev' = [prev EXCEPT ![c] = environ]
  /\ environ' = s
  /\ pc' = [pc EXCEPT ![c] = "fork"]
  /\ open' = IF crossed THEN <<>> ELSE Append(open, c)
  /\ UNCHANGED <<child, output, crossed>>

\* run_bash reads the variable for cwd and forks; the child inherits it.  Then
\* create_subprocess_exec suspends.
Fork(c) ==
  /\ pc[c] = "fork"
  /\ bash' = [bash EXCEPT ![c] = "run"]
  /\ cwd' = [cwd EXCEPT ![c] = <<environ, environ>>]
  /\ pc' = [pc EXCEPT ![c] = "spawn"]
  /\ UNCHANGED <<environ, session, prev, heirs, output, open, crossed>>

\* create_subprocess_exec returns, communicate() begins.
Spawned(c) ==
  /\ LoopFree /\ pc[c] = "spawn"
  /\ pc' = [pc EXCEPT ![c] = "read"]
  /\ UNCHANGED <<environ, session, prev, child, output, open, crossed>>

\* Fault: what was read stays to be read again.
TakeKeeps(c) ==
  /\ pc[c] \in {"read", "again"} /\ pipe[c] > 0
  /\ taken' = [taken EXCEPT ![c] = @ + pipe[c]]
  /\ UNCHANGED <<environ, pc, session, prev, child, wrote, pipe, lost, open, crossed>>

\* communicate() takes what is there.
Take(c) ==
  /\ LoopFree /\ pc[c] \in {"read", "again"} /\ pipe[c] > 0
  /\ taken' = [taken EXCEPT ![c] = @ + pipe[c]]
  /\ pipe' = [pipe EXCEPT ![c] = 0]
  /\ UNCHANGED <<environ, pc, session, prev, child, wrote, lost, open, crossed>>

\* Fault: communicate() would end with bash.
EofOfBash(c) == bash[c] = "exited" /\ pipe[c] = 0

\* Every holder of the pipes is gone and they are read to the end.
Eof(c) == bash[c] = "exited" /\ ~heirs[c] /\ pipe[c] = 0

\* Fault: without a `finally`, a call that timed out leaves the variable alone.
PutBackInTime(c) == environ' = IF pc[c] = "read" THEN prev[c] ELSE environ

\* The `finally` of _run_bash_execution.
PutBack(c) == environ' = prev[c]

Return(c, how) ==
  /\ pc' = [pc EXCEPT ![c] = how]
  /\ PutBack(c)
  /\ crossed' = (crossed \/ open[Len(open)] # c)
  /\ open' = IF crossed' THEN <<>> ELSE SubSeq(open, 1, Len(open) - 1)

\* create_subprocess_exec raises.
ForkFails(c) ==
  /\ SpawnMayFail /\ pc[c] = "fork"
  /\ Return(c, "failed")
  /\ UNCHANGED <<session, prev, child, output>>

\* communicate() returns, the first in time or the one that follows the kill.
CallEnds(c) ==
  /\ LoopFree /\ pc[c] \in {"read", "again"} /\ Eof(c)
  /\ Return(c, IF pc[c] = "read" THEN "done" ELSE "timed_out")
  /\ UNCHANGED <<session, prev, child, output>>

\* Fault: bash is asked to end, which it may ignore.
TimeOutTerm(c) ==
  /\ pc[c] = "read"
  /\ pc' = [pc EXCEPT ![c] = "again"]
  /\ UNCHANGED <<environ, session, prev, child, output, open, crossed>>

\* timeout_seconds have passed: communicate() is cancelled, and what it had read
\* is gone with it; bash is killed, perhaps after it has exited and before the
\* server has learnt of it, and communicate() called again, without a timeout.
TimeOut(c) ==
  /\ LoopFree /\ pc[c] = "read"
  /\ pc' = [pc EXCEPT ![c] = "again"]
  /\ bash' = [bash EXCEPT ![c] = IF @ = "run" THEN "killed" ELSE @]
  /\ lost' = [lost EXCEPT ![c] = taken[c]]
  /\ taken' = [taken EXCEPT ![c] = 0]
  /\ UNCHANGED <<environ, session, prev, cwd, heirs, wrote, pipe, open, crossed>>

\* The deadline passes just when it has learnt of it: the transport is closed,
\* with output still in its StreamReader perhaps, kill() raises
\* ProcessLookupError and the call ends with a 500.
TimeOutTooLate(c) ==
  /\ LoopFree /\ pc[c] = "read" /\ bash[c] = "exited" /\ ~heirs[c]
  /\ Return(c, "failed")
  /\ UNCHANGED <<session, prev, child, output>>

----------------------------------------------------------------------------
(* The command.                                                            *)

Write(c) ==
  /\ bash[c] \in {"run", "killed"} \/ heirs[c]
  /\ wrote[c] < MaxWrites
  /\ wrote' = [wrote EXCEPT ![c] = @ + 1]
  /\ pipe' = [pipe EXCEPT ![c] = @ + 1]
  /\ UNCHANGED <<environ, pc, session, prev, child, taken, lost, open, crossed>>

StartHeir(c) ==
  /\ bash[c] = "run" /\ ~heirs[c]
  /\ heirs' = [heirs EXCEPT ![c] = TRUE]
  /\ UNCHANGED <<environ, pc, session, prev, bash, cwd, output, open, crossed>>

HeirEnds(c) ==
  /\ heirs[c]
  /\ heirs' = [heirs EXCEPT ![c] = FALSE]
  /\ UNCHANGED <<environ, pc, session, prev, bash, cwd, output, open, crossed>>

BashEnds(c) ==
  /\ bash[c] = "run"
  /\ bash' = [bash EXCEPT ![c] = "exited"]
  /\ UNCHANGED <<environ, pc, session, prev, cwd, heirs, output, open, crossed>>

BashDies(c) ==
  /\ bash[c] = "killed"
  /\ bash' = [bash EXCEPT ![c] = "exited"]
  /\ UNCHANGED <<environ, pc, session, prev, cwd, heirs, output, open, crossed>>

Serve(c) == \/ \E s \in Session : Begin(c, s)
            \/ Fork(c) \/ ForkFails(c) \/ Spawned(c) \/ Take(c) \/ CallEnds(c) \/ TimeOut(c) \/ TimeOutTooLate(c)
Command(c) == Write(c) \/ StartHeir(c) \/ HeirEnds(c) \/ BashEnds(c) \/ BashDies(c)

Next == \E c \in Call : Serve(c) \/ Command(c)

Spec == Init /\ [][Next]_vars

\* The event loop runs what is ready, timers fire, SIGKILL kills.  Nothing makes
\* a command end.
Fairness == \A c \in Call :
  /\ WF_vars(Fork(c) \/ ForkFails(c)) /\ WF_vars(Spawned(c)) /\ WF_vars(Take(c))
  /\ WF_vars(CallEnds(c)) /\ WF_vars(TimeOut(c)) /\ WF_vars(BashDies(c))

LiveSpec == Spec /\ Fairness

----------------------------------------------------------------------------
TypeOK ==
  /\ environ \in Session \cup {Image}
  /\ pc \in [Call -> {"new", "fork", "spawn", "read", "again", "done", "timed_out", "failed"}]
  /\ session \in [Call -> Session \cup {Image}] /\ prev \in [Call -> Session \cup {Image}]
  /\ open \in Seq(Call) /\ crossed \in BOOLEAN
  /\ bash \in [Call -> {"none", "run", "killed", "exited"}]
  /\ cwd \in [Call -> (Session \cup {Image}) \X (Session \cup {Image})]
  /\ heirs \in [Call -> BOOLEAN]
  /\ wrote \in [Call -> 0..MaxWrites] /\ pipe \in [Call -> 0..MaxWrites]
  /\ taken \in [Call -> 0..MaxWrites] /\ lost \in [Call -> 0..MaxWrites]

\* "set per-call so concurrent sessions stay isolated" (exec_server.py:304-305):
\* although the variable is the server's only one, and other calls set it and put
\* it back whenever this one awaits, what run_bash and the child read of it is the
\* workspace of their own session.
OwnWorkspace ==
  \A c \in Call : bash[c] # "none" => cwd[c] = <<session[c], session[c]>>

\* The `finally` leaves the server's environment as it was, as long as no call
\* ended before one that began after it (exec_server.py:306-314): overlapping
\* calls may leave the directory of a session in it for good.
EnvironRestored ==
  ~crossed /\ (\A c \in Call : ~InProgress(c)) => environ = Image

\* A call that ends in time returns all that bash and its descendants will ever
\* have written.
CompleteOutput ==
  \A c \in Call : pc[c] = "done" => taken[c] = wrote[c]

\* Once a call has returned, timed out or not, nothing of it is left that could
\* write to it, and what its outcome lacks is what the cancelled communicate()
\* had read.
OutcomeIsFinal ==
  \A c \in Call : pc[c] \in {"done", "timed_out"} =>
    bash[c] = "exited" /\ ~heirs[c] /\ taken[c] + lost[c] = wrote[c]

\* A call that does not end, whatever its timeout_seconds, is held by descendants
\* of its bash that keep the pipes open; nothing else can hold it (bash.py:29-38).
EveryCallEnds ==
  \A c \in Call : <>[]InProgress(c) => <>[](heirs[c])
=============================================================================
