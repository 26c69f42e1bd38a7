------------------------- MODULE RunnerCalls_proofs -------------------------
(* Proofs about the outcomes execute() returns: that a limit is reported    *)
(* only for a runner that hit it, that a lost REPL is never hidden, and that*)
(* the calls are served as ExecService says.                                *)
EXTENDS RunnerLife_proofs

-----------------------------------------------------------------------------
(* What a step of a call may do to the lock's queue and to the log.         *)

(* The call ends with outcome o.  It is an answer only when the call was    *)
(* reading, and names a limit only when the exit code of `_proc` was known. *)
Records(c, o) ==
  /\ o \in Outcome /\ log' = Append(log, [caller |-> c, outcome |-> o])
  /\ pc' = [pc EXCEPT ![c] = "done"]
  /\ o.kind = "answered" =>
       pc[c] = "read" /\ procRef # None /\ procRef' = procRef /\ o.repl = on[c]
  /\ o.kind = "exited" /\ o.limit # "none" =>
       /\ pc[c] \in {"read", "eof_wait"}
       /\ procRef # None /\ Reaped(procRef)
       /\ o.repl = procRef /\ o.limit = Classify(code[procRef])

(* The call goes on without ending; `_proc` changes only if it is adopted.  *)
GoesOn(c) == /\ log' = log /\ InProgress(c)'
             /\ \E where \in PCs : pc' = [pc EXCEPT ![c] = where]
             /\ procRef' = procRef \/ (pc[c] = "spawn" /\ procRef' = c)

Submits(c) == pc[c] = "new" /\ lockQ' = Append(lockQ, c) /\ GoesOn(c)

Waits(c) == InProgress(c) /\ lockQ' = lockQ /\ GoesOn(c)

TurnedAway(c) == /\ pc[c] = "new" /\ pc' = [pc EXCEPT ![c] = "done"]
                 /\ UNCHANGED <<procRef, lockQ, log>>

FailsAtOnce(c, o) == /\ pc[c] = "new" /\ lockQ = <<>> /\ lockQ' = <<>>
                     /\ procRef' = procRef /\ o.kind # "answered" /\ Records(c, o)

Completes(c, o) == /\ InProgress(c) /\ lockQ # <<>> /\ Head(lockQ) = c /\ lockQ' = Tail(lockQ)
                   /\ procRef' \in {procRef, None} /\ Records(c, o)

CallStep(c) == \/ Submits(c) \/ Waits(c) \/ TurnedAway(c)
               \/ \E o \in Outcome : FailsAtOnce(c, o) \/ Completes(c, o)

(* What a call returns after its stop() is no answer, and names no limit: an*)
(* exit code that is known leaves nothing to stop.                          *)
PendingInv == \A t \in Task : /\ after[t].kind # "answered"
                              /\ after[t].kind = "exited" => after[t].limit = "none"

(* An outcome that may wait for the end of a stop().                        *)
Plain(o) == /\ o \in Outcome /\ o.kind # "answered"
            /\ o.kind = "exited" => o.limit = "none"

\* Such are a server error, a timeout, a closed pipe and an exit without a limit.
LEMMA PlainFailures ==
  /\ Plain(HttpError) /\ Plain(TimedOut)
  /\ \A p \in Proc \cup {None} :
       Plain(Failure("pipe_closed", "none", p)) /\ Plain(Failure("exited", "none", p))
  <1>1. HttpError \in Outcome /\ TimedOut \in Outcome
    BY FailureType DEF HttpError, TimedOut, Kinds, Limits
  <1>2. \A p \in Proc \cup {None} : /\ Failure("pipe_closed", "none", p) \in Outcome
                                    /\ Failure("exited", "none", p) \in Outcome
    BY FailureType DEF Kinds, Limits
  <1>3. QED
    BY <1>1, <1>2 DEF Plain, HttpError, TimedOut, Failure

\* A call that ends while it holds the lock passes the lock on.
LEMMA ReturnRecords ==
  ASSUME TypeInv, NEW c \in Caller, pc[c] \in Holding, NEW o, Plain(o),
         Return(c, o, lockQ), procRef' \in {procRef, None}
  PROVE  Completes(c, o)
  BY DEF Return, Suspend, Completes, Records, Plain, TypeInv, QueueInv, InProgress,
         Holding, Awaiting

\* stop() in execute(), up to its first await.
LEMMA BeginStopRecords ==
  ASSUME TypeInv, PendingInv, NEW c \in Caller, pc[c] \in Awaiting,
         NEW o, Plain(o), BeginStop(c, o)
  PROVE  /\ Waits(c) \/ Completes(c, o)
         /\ PendingInv'
  <1>0. pc[c] \in Holding /\ c # Destroy /\ c \in Task
    BY TasksAssumption DEF Holding, Task
  <1>1. CASE Forget(c, o) /\ UNCHANGED <<sig, after>>
    BY <1>0, <1>1, ReturnRecords DEF Forget, AfterStop, PendingInv
  <1>2. CASE /\ Suspend(c, "term_wait", procRef)
             /\ after' = [after EXCEPT ![c] = o]
             /\ UNCHANGED <<procRef, lockQ, log, dirExists>>
    <2>1. Waits(c)
      BY <1>0, <1>2 DEF Suspend, Waits, GoesOn, InProgress, Awaiting, PCs, TypeInv, TypeOK
    <2>2. PendingInv'
      BY <1>0, <1>2 DEF PendingInv, Plain, TypeInv, TypeOK
    <2>3. QED
      BY <2>1, <2>2
  <1>3. QED
    BY <1>1, <1>2 DEF BeginStop

\* The end of a read that met the end of the runner: a limit is named only if
\* the runner was reaped, and then there is nothing to stop.
LEMMA EndOfRunnerRecords ==
  ASSUME TypeInv, PendingInv, NEW c \in Caller, pc[c] \in {"read", "eof_wait"},
         EndOfRunner(c)
  PROVE  /\ Waits(c) \/ \E o \in Outcome : Completes(c, o)
         /\ PendingInv'
  <1>0. pc[c] \in Awaiting /\ pc[c] \in Holding
    BY DEF Awaiting, Holding
  <1>1. CASE Return(c, HttpError, lockQ) /\ UNCHANGED <<procRef, after>>
    BY <1>0, <1>1, PlainFailures, ReturnRecords DEF Plain, PendingInv
  <1>2. CASE procRef # None /\ ~Reaped(procRef)
    <2>1. BeginStop(c, Failure("exited", "none", procRef)) /\ procRef \in Proc
      BY <1>2 DEF EndOfRunner, TypeInv, TypeOK
    <2>2. QED
      BY <1>0, <2>1, PlainFailures, BeginStopRecords DEF Plain
  <1>3. CASE procRef # None /\ Reaped(procRef)
    <2> DEFINE o == Failure("exited", Classify(code[procRef]), procRef)
    <2>1. BeginStop(c, o) /\ procRef \in Proc
      BY <1>3 DEF EndOfRunner, TypeInv, TypeOK
    <2>2. o \in Outcome
      BY <2>1, FailureType, ClassifyType DEF Kinds, Limits
    <2>3. o.kind = "exited" /\ o.limit = Classify(code[procRef]) /\ o.repl = procRef
      BY DEF Failure
    <2> HIDE DEF o
    <2>4. Forget(c, o) /\ UNCHANGED after
      BY <1>3, <2>1 DEF BeginStop
    <2>5. Return(c, o, lockQ) /\ procRef' = None
      BY <2>4, TasksAssumption DEF Forget, AfterStop
    <2>6. Completes(c, o)
      BY <1>0, <1>3, <2>2, <2>3, <2>5
         DEF Return, Suspend, Completes, Records, TypeInv, QueueInv, InProgress, Awaiting
    <2>7. QED
      BY <2>2, <2>4, <2>6 DEF PendingInv
  <1>4. QED
    BY <1>1, <1>2, <1>3 DEF EndOfRunner

\* From the acquired lock to the first await.
LEMMA EnterRecords ==
  ASSUME TypeInv, NEW c \in Caller, NEW q, Enter(c, q), procRef' = procRef
  PROVE  \/ GoesOn(c) /\ lockQ' = q
         \/ Return(c, HttpError, q)
  BY DEF Enter, Fork, Suspend, GoesOn, InProgress, PCs, TypeInv, TypeOK, Task

\* The answer on the pipe, or what is left of `_proc` to read it from.
LEMMA ReadRecords ==
  ASSUME TypeInv, NEW c \in Caller, ReadAnswer(c)
  PROVE  \E o \in Outcome : Completes(c, o)
  <1> DEFINE answer == Head(pipe[on[c]])
             reply == AnswerOf(answer, on[c])
  <1>0. pc[c] = "read" /\ procRef' = procRef /\ c \in Task
    BY DEF ReadAnswer, Task
  <1>1. \/ Return(c, HttpError, lockQ)
        \/ procRef # None /\ Return(c, reply, lockQ)
    BY DEF ReadAnswer
  <1>2. CASE Return(c, HttpError, lockQ)
    BY <1>0, <1>2, PlainFailures, ReturnRecords DEF Plain, Holding, Awaiting
  <1>3. CASE procRef # None /\ Return(c, reply, lockQ)
    <2>1. on[c] \in Proc /\ pipe[on[c]] # <<>>
          /\ pipe[on[c]] \in Seq([from : Caller, torn : BOOLEAN])
      BY <1>0 DEF ReadAnswer, TypeInv, TypeOK, AwaitInv, Awaiting
    <2>2. answer.from \in Caller
      <3>1. answer \in [from : Caller, torn : BOOLEAN]
        BY <2>1, HeadTailProperties
      <3> HIDE DEF answer
      <3>2. QED
        BY <3>1
    <2>3. reply \in Outcome /\ reply.kind = "answered" /\ reply.repl = on[c]
      BY <2>1, <2>2 DEF AnswerOf, Outcome, Kinds, Limits
    <2> HIDE DEF reply
    <2>4. Completes(c, reply)
      BY <1>0, <1>3, <2>3
         DEF Return, Suspend, Completes, Records, TypeInv, QueueInv, InProgress, Holding, Awaiting
    <2>5. QED
      BY <2>3, <2>4
  <1>4. QED
    BY <1>1, <1>2, <1>3

\* The steps of execute() and of its stop() do nothing else to queue and log.
LEMMA CallSteps ==
  ASSUME TypeInv, PendingInv, NEW c \in Caller, ExecStep(c) \/ StopStep(c)
  PROVE  CallStep(c) /\ PendingInv'
  <1>0. c \in Task /\ c # Destroy /\ pc \in [Task -> PCs] /\ on \in [Task -> Proc \cup {None}]
        /\ procRef \in Proc \cup {None}
    BY TasksAssumption DEF Task, TypeInv, TypeOK
  <1>1. CASE Arrive(c)
    <2>0. pc[c] = "new" /\ UNCHANGED <<procRef, after>> /\ PendingInv'
      BY <1>1 DEF Arrive, PendingInv
    <2>1. CASE Suspend(c, "done", None) /\ UNCHANGED <<lockQ, os, inbox, log>>
      BY <2>0, <2>1 DEF Suspend, TurnedAway, CallStep
    <2>2. CASE lockQ = <<>> /\ Enter(c, <<c>>)
      <3>1. Append(lockQ, c) = <<c>> /\ Tail(<<c>>) = <<>>
        BY <2>2
      <3>2. CASE GoesOn(c) /\ lockQ' = <<c>>
        BY <2>0, <3>1, <3>2 DEF Submits, CallStep
      <3>3. CASE Return(c, HttpError, <<c>>)
        BY <2>0, <2>2, <3>1, <3>3, PlainFailures
           DEF Return, Suspend, FailsAtOnce, Records, CallStep, Plain
      <3>4. QED
        BY <2>0, <2>2, <3>2, <3>3, EnterRecords
    <2>3. CASE /\ lockQ' = Append(lockQ, c) /\ Suspend(c, "queued", None)
               /\ UNCHANGED <<os, inbox, log>>
      BY <1>0, <2>0, <2>3 DEF Suspend, Submits, GoesOn, InProgress, PCs, CallStep
    <2>4. QED
      BY <1>1, <2>1, <2>2, <2>3 DEF Arrive
  <1>2. CASE Acquire(c)
    <2>1. pc[c] = "queued" /\ lockQ # <<>> /\ Head(lockQ) = c /\ UNCHANGED <<procRef, after>>
          /\ Enter(c, lockQ)
      BY <1>2 DEF Acquire
    <2>2. CASE GoesOn(c) /\ lockQ' = lockQ
      BY <2>1, <2>2 DEF Waits, CallStep, InProgress, PendingInv
    <2>3. CASE Return(c, HttpError, lockQ)
      <3>1. Completes(c, HttpError)
        BY <2>1, <2>3, PlainFailures
           DEF Return, Suspend, Completes, Records, InProgress, Plain
      <3>2. QED
        BY <2>1, <3>1, PlainFailures DEF CallStep, PendingInv, Plain
    <2>4. QED
      BY <2>1, <2>2, <2>3, EnterRecords
  <1>3. CASE Spawned(c)
    BY <1>0, <1>3
       DEF Spawned, Suspend, Waits, GoesOn, InProgress, PCs, CallStep, PendingInv
  <1>4. CASE Sent(c)
    <2>0. pc[c] = "send" /\ UNCHANGED <<procRef, after>>
      BY <1>4 DEF Sent
    <2>1. CASE Return(c, HttpError, lockQ)
      BY <2>0, <2>1, PlainFailures, ReturnRecords
         DEF CallStep, PendingInv, Plain, Holding, Awaiting
    <2>2. CASE Suspend(c, "read", procRef) /\ UNCHANGED <<lockQ, log>>
      BY <1>0, <2>0, <2>2
         DEF Suspend, Waits, GoesOn, InProgress, PCs, CallStep, PendingInv
    <2>3. QED
      BY <1>4, <2>1, <2>2 DEF Sent
  <1>5. CASE ReadAnswer(c)
    <2>1. PendingInv'
      BY <1>5 DEF ReadAnswer, PendingInv
    <2>2. QED
      BY <1>5, <2>1, ReadRecords DEF CallStep
  <1>6. ASSUME NEW where \in {"eof_wait", "drain"}, pc[c] \in Awaiting,
               Suspend(c, where, procRef), UNCHANGED <<procRef, lockQ, after, log>>
        PROVE  CallStep(c) /\ PendingInv'
    BY <1>0, <1>6
       DEF Suspend, Waits, GoesOn, InProgress, PCs, Awaiting, CallStep, PendingInv
  <1>7. ASSUME NEW o, Plain(o), pc[c] \in Awaiting, BeginStop(c, o)
        PROVE  CallStep(c) /\ PendingInv'
    BY <1>7, BeginStopRecords DEF CallStep, Plain
  <1>8. CASE SendFails(c)
    BY <1>0, <1>7, <1>8, PlainFailures DEF SendFails, Awaiting
  <1>9. CASE ReadEof(c)
    BY <1>6, <1>9, EndOfRunnerRecords DEF ReadEof, CallStep, Awaiting
  <1>10. CASE EofWaited(c)
    BY <1>10, EndOfRunnerRecords DEF EofWaited, CallStep
  <1>11. CASE TimeOut(c)
    BY <1>6, <1>7, <1>11, PlainFailures DEF TimeOut, Reading, Awaiting
  <1>12. CASE Drained(c)
    BY <1>7, <1>12, PlainFailures DEF Drained, Awaiting
  <1>13. CASE StopStep(c)
    <2>1. /\ pc[c] \in {"term_wait", "kill_wait"} /\ after' = after
          /\ pc[c] \in Holding /\ Plain(after[c])
      BY <1>0, <1>13 DEF StopStep, TermWaited, TermTimedOut, KillWaited, Holding, Awaiting,
                   Plain, PendingInv, TypeInv, TypeOK
    <2>2. PendingInv'
      BY <2>1 DEF PendingInv
    <2>3. ASSUME NEW o, Plain(o), Return(c, o, lockQ), procRef' \in {procRef, None}
          PROVE  CallStep(c)
      BY <2>1, <2>3, ReturnRecords DEF CallStep, Plain
    <2>4. CASE TermWaited(c) \/ KillWaited(c)
      BY <1>0, <2>1, <2>2, <2>3, <2>4 DEF TermWaited, KillWaited, Forget, AfterStop
    <2>5. CASE TermTimedOut(c)
      <3>1. \/ \E o \in {after[c], HttpError} :
                 Return(c, o, lockQ) /\ procRef' \in {procRef, None}
            \/ Suspend(c, "kill_wait", procRef) /\ UNCHANGED <<procRef, lockQ, log>>
        BY <1>0, <2>5 DEF TermTimedOut, StopRaises, Forget, AfterStop
      <3>2. CASE Suspend(c, "kill_wait", procRef) /\ UNCHANGED <<procRef, lockQ, log>>
        BY <1>0, <2>1, <2>2, <3>2 DEF Suspend, Waits, GoesOn, InProgress, PCs, CallStep
      <3>3. QED
        BY <2>1, <2>2, <2>3, <3>1, <3>2, PlainFailures
    <2>6. QED
      BY <1>13, <2>4, <2>5 DEF StopStep
  <1>14. QED
    BY <1>1, <1>2, <1>3, <1>4, <1>5, <1>8, <1>9, <1>10, <1>11, <1>12, <1>13 DEF ExecStep

-----------------------------------------------------------------------------
(* A limit is real: no stop() of another call has killed the runner whose   *)
(* exit code a call looks up, as long as the session is registered.         *)

Stopping == {"drain", "term_wait", "kill_wait"}

(* A runner is killed by a call only on that call's way to its end.         *)
SignalInv ==
  /\ \A p \in Proc : code[p] = "kill" => sig[p] = "kill"
  /\ \A p \in Proc : pc[p] \in {"new", "queued", "spawn"} => sig[p] = "none"
  /\ inDict => \A p \in Proc : procRef = p /\ sig[p] = "kill" =>
                 \E c \in Caller : pc[c] \in Stopping

(* What was said of a runner that hit a limit stays true: it is reaped.     *)
TrueVerdict(o) == o.kind = "exited" /\ o.limit # "none" =>
  /\ o.repl \in Proc /\ Reaped(o.repl)
  /\ <<o.limit, code[o.repl]>> \in {<<"memory", "oom">>, <<"memory", "cpu_kill">>,
                                   <<"cpu", "xcpu">>, <<"file_size", "xfsz">>}

VerdictInv == inDict => \A i \in 1..Len(log) : TrueVerdict(log[i].outcome)

\* What stop() does to signals in execute(): only `_proc` is signalled, SIGKILL
\* is never taken back, and a call that is stopping its runner lets go of it.
LEMMA CallSignals ==
  ASSUME TypeInv, NEW c \in Caller, ExecStep(c) \/ StopStep(c)
  PROVE  /\ code' = code
         /\ \A p \in Proc : /\ sig[p] = "kill" => sig'[p] = "kill"
                            /\ sig'[p] = "kill" => sig[p] = "kill" \/ pc'[c] \in Stopping
                            /\ sig'[p] = sig[p] \/ procRef = p
         /\ pc[c] \in Stopping => pc'[c] \in Stopping \/ procRef' = None
  <1>0. /\ c \in Task /\ c # Destroy /\ pc \in [Task -> PCs]
        /\ sig \in [Proc -> {"none", "term", "kill"}] /\ procRef \in Proc \cup {None}
        /\ None \notin Proc
    BY TasksAssumption DEF Task, Proc, TypeInv, TypeOK
  <1>1. code' = code
    BY DEF ExecStep, StopStep, Arrive, Acquire, Spawned, Sent, SendFails, ReadAnswer,
           ReadEof, EofWaited, TimeOut, Drained, TermWaited, TermTimedOut, KillWaited, procVars
  <1>2. ASSUME NEW o, BeginStop(c, o)
        PROVE  /\ \A p \in Proc : /\ sig[p] = "kill" => sig'[p] = "kill"
                                  /\ sig'[p] = "kill" => sig[p] = "kill"
                                  /\ sig'[p] = sig[p] \/ procRef = p
               /\ pc'[c] \in Stopping \/ procRef' = None
    BY <1>0, <1>2 DEF BeginStop, Forget, Suspend, Stopping
  <1>3. CASE Arrive(c) \/ Acquire(c) \/ Spawned(c) \/ Sent(c) \/ ReadAnswer(c)
    BY <1>1, <1>3 DEF Arrive, Acquire, Spawned, Sent, ReadAnswer, Stopping, procVars
  <1>4. CASE SendFails(c) \/ Drained(c)
    BY <1>1, <1>2, <1>4 DEF SendFails, Drained
  <1>5. CASE ReadEof(c) \/ EofWaited(c)
    <2>1. pc[c] \notin Stopping /\ (sig' = sig \/ \E o : BeginStop(c, o))
      BY <1>5 DEF ReadEof, EofWaited, EndOfRunner, Stopping
    <2>2. QED
      BY <1>1, <1>2, <2>1
  <1>6. CASE TimeOut(c)
    <2>1. CASE Suspend(c, "drain", procRef) /\ sig' = sig
      BY <1>0, <1>1, <2>1 DEF Suspend, Stopping
    <2>2. CASE BeginStop(c, TimedOut)
      BY <1>1, <1>2, <2>2
    <2>3. QED
      BY <1>6, <2>1, <2>2 DEF TimeOut
  <1>7. CASE StopStep(c)
    <2>1. CASE TermWaited(c) \/ KillWaited(c)
      BY <1>1, <2>1 DEF TermWaited, KillWaited, Forget, procVars
    <2>2. CASE TermTimedOut(c)
      BY <1>0, <1>1, <2>2 DEF TermTimedOut, StopRaises, Forget, Suspend, Stopping
    <2>3. QED
      BY <1>7, <2>1, <2>2 DEF StopStep
  <1>8. QED
    BY <1>3, <1>4, <1>5, <1>6, <1>7 DEF ExecStep

\* A subprocess reports "kill" only when it was sent SIGKILL: the ways a runner
\* ends by itself are told apart by how it ended.
LEMMA ProcSignals ==
  ASSUME TypeInv, NEW p \in Proc, ProcStep(p)
  PROVE  \A r \in Proc : code'[r] = "kill" => code[r] = "kill" \/ sig[r] = "kill"
  <1>0. code \in [Proc -> Endings \cup {"none", "term", "kill"}]
    BY DEF TypeInv, TypeOK
  <1>1. CASE Crash(p)
    <2>1. PICK how \in SelfExit : Exit(p, how)
      BY <1>1 DEF Crash
    <2>2. how # "kill"
      BY FaultsAssumption DEF Endings
    <2>3. QED
      BY <1>0, <2>1, <2>2 DEF Exit
  <1>2. CASE ~Crash(p)
    BY <1>0, <1>2 DEF ProcStep, Boot, Answer, ObeyTerm, ObeyKill, Exit, Reap
  <1>3. QED
    BY <1>1, <1>2

\* Who signals `_proc` while the session is registered is a call that stops it.
LEMMA SignalStep ==
  ASSUME TypeInv, LifeInv, PendingInv, SignalInv, [Next]_vars
  PROVE  SignalInv'
  <1>0. /\ pc \in [Task -> PCs] /\ sig \in [Proc -> {"none", "term", "kill"}]
        /\ procRef \in Proc \cup {None} /\ Proc \subseteq Task /\ None \notin Proc
        /\ Caller \subseteq Proc /\ Create \in Proc /\ Destroy \notin Proc
        /\ Create \notin Caller
    BY TasksAssumption DEF Task, Proc, TypeInv, TypeOK
  <1>1. CASE UNCHANGED vars
    BY <1>1 DEF vars, procVars, taskVars, SignalInv
  <1>2. ASSUME NEW c \in Caller, ExecStep(c) \/ StopStep(c)
        PROVE  SignalInv'
    <2>1. /\ code' = code
          /\ \A p \in Proc : /\ sig[p] = "kill" => sig'[p] = "kill"
                             /\ sig'[p] = "kill" => sig[p] = "kill" \/ pc'[c] \in Stopping
                             /\ sig'[p] = sig[p] \/ procRef = p
          /\ pc[c] \in Stopping => pc'[c] \in Stopping \/ procRef' = None
      BY <1>2, CallSignals
    <2>2. CallMove(c)
      BY <1>2, CallMoves DEF LifeInv
    <2>3. /\ \A d \in Proc \ {c} : pc'[d] = pc[d]
          /\ pc'[c] \in {"new", "queued", "spawn"} => pc[c] \in {"new", "queued", "spawn"}
          /\ procRef' \in {procRef, None} \/ (procRef' = c /\ pc[c] = "spawn")
          /\ inDict' = inDict
      BY <1>0, <2>2 DEF CallMove, Quits, Queues, Forks, Adopts, Uses, LetsGo, Fork, Suspend,
                        Awaiting
    <2>4. \A p \in Proc : code'[p] = "kill" => sig'[p] = "kill"
      BY <2>1 DEF SignalInv
    <2>5. ASSUME NEW p \in Proc, pc'[p] \in {"new", "queued", "spawn"}
          PROVE  sig'[p] = "none"
      <3>1. pc[p] \in {"new", "queued", "spawn"}
        BY <2>3, <2>5
      <3>2. sig[p] = "none" /\ procRef # p
        BY <3>1 DEF SignalInv, LifeInv, UnbornInv
      <3>3. QED
        BY <2>1, <3>2
    <2>6. ASSUME inDict', NEW p \in Proc, procRef' = p, sig'[p] = "kill"
          PROVE  \E d \in Caller : pc'[d] \in Stopping
      <3>1. CASE pc'[c] \in Stopping
        BY <3>1
      <3>2. CASE sig[p] = "kill" /\ procRef = p
        <4>1. PICK d \in Caller : pc[d] \in Stopping
          BY <2>3, <2>6, <3>2 DEF SignalInv
        <4>2. QED
          BY <1>0, <2>1, <2>3, <2>6, <4>1
      <3>3. CASE procRef # p
        <4>1. p = c /\ pc[c] = "spawn"
          BY <1>0, <2>3, <2>6, <3>3
        <4>2. sig[c] = "none"
          BY <4>1 DEF SignalInv
        <4>3. QED
          BY <2>1, <2>6, <3>1, <4>1, <4>2
      <3>4. QED
        BY <2>1, <2>6, <3>1, <3>2, <3>3
    <2>7. QED
      BY <2>4, <2>5, <2>6 DEF SignalInv
  <1>3. CASE CreateSession \/ CreateReturns
    <2>1. /\ UNCHANGED <<sig, code>> /\ \A d \in Proc \ {Create} : pc'[d] = pc[d]
          /\ pc[Create] \in {"new", "spawn"}
          /\ procRef' = procRef \/ (procRef' = Create /\ pc[Create] = "spawn")
      BY <1>0, <1>3 DEF CreateSession, CreateReturns, Fork, Suspend, procVars
    <2>2. pc[Create] = "new" => procRef = None
      BY DEF LifeInv, StartInv
    <2>3. CASE CreateSession
      BY <1>0, <2>1, <2>2, <2>3 DEF CreateSession, SignalInv
    <2>4. CASE CreateReturns
      <3>1. inDict' = inDict /\ procRef' = Create
        BY <2>4 DEF CreateReturns
      <3>2. sig[Create] = "none"
        BY <1>0, <2>1 DEF SignalInv
      <3>3. QED
        BY <1>0, <2>1, <3>1, <3>2 DEF SignalInv
    <2>5. QED
      BY <1>3, <2>3, <2>4
  <1>4. CASE DestroySession \/ StopStep(Destroy)
    <2>1. /\ \A p \in Proc : pc'[p] = pc[p]
          /\ code' = code /\ ~inDict'
          /\ \A p \in Proc : /\ sig[p] = "kill" => sig'[p] = "kill"
                             /\ sig'[p] = sig[p] \/ procRef = p
      <3>1. CASE DestroySession
        BY <1>0, <3>1 DEF DestroySession, BeginStop, Forget, AfterStop, Suspend
      <3>2. CASE StopStep(Destroy)
        <4>1. ~inDict
          BY <3>2 DEF StopStep, TermWaited, TermTimedOut, KillWaited, LifeInv, RegisteredInv
        <4>2. QED
          BY <1>0, <3>2, <4>1
             DEF StopStep, TermWaited, TermTimedOut, KillWaited, StopRaises, Forget,
                 AfterStop, Suspend, procVars
      <3>3. QED
        BY <1>4, <3>1, <3>2
    <2>2. QED
      BY <2>1 DEF SignalInv, LifeInv, UnbornInv
  <1>5. ASSUME NEW p \in Proc, ProcStep(p)
        PROVE  SignalInv'
    BY <1>5, ProcMoves, ProcSignals DEF SignalInv, taskVars
  <1>6. QED
    BY <1>1, <1>2, <1>3, <1>4, <1>5 DEF Next

\* The new entry of the log, and the old ones.
LEMMA LogEntry ==
  ASSUME TypeInv, NEW c \in Caller, NEW o \in Outcome,
         log' = Append(log, [caller |-> c, outcome |-> o])
  PROVE  /\ Len(log) \in Nat /\ Len(log') = Len(log) + 1
         /\ log'[Len(log) + 1].caller = c /\ log'[Len(log) + 1].outcome = o
         /\ \A i \in 1..Len(log) : log'[i] = log[i]
  <1> DEFINE entry == [caller |-> c, outcome |-> o]
  <1>1. /\ log \in Seq([caller : Caller, outcome : Outcome])
        /\ entry \in [caller : Caller, outcome : Outcome]
    BY DEF TypeInv, TypeOK
  <1>2. entry.caller = c /\ entry.outcome = o
    OBVIOUS
  <1> HIDE DEF entry
  <1>3. log' = Append(log, entry)
    BY DEF entry
  <1>4. QED
    BY <1>1, <1>2, <1>3, AppendProperties, LenProperties

\* The steps of anybody else leave the log and the queue alone, and no outcome
\* pending but that of destroy(), which nobody sees.
LEMMA OtherSteps ==
  ASSUME TypeInv, PendingInv, Next,
         \A c \in Caller : ~ExecStep(c) /\ ~StopStep(c)
  PROVE  /\ log' = log /\ lockQ' = lockQ /\ PendingInv'
         /\ \A c \in Caller : pc'[c] = pc[c]
  <1>0. /\ Destroy \notin Caller /\ Create \notin Caller /\ Caller \subseteq Task
        /\ Destroy \in Task /\ pc \in [Task -> PCs] /\ after \in [Task -> Outcome]
    BY TasksAssumption DEF Task, TypeInv, TypeOK
  <1>1. CASE CreateSession \/ CreateReturns
    BY <1>0, <1>1 DEF CreateSession, CreateReturns, Fork, Suspend, PendingInv
  <1>2. CASE DestroySession
    BY <1>0, <1>2, PlainFailures
       DEF DestroySession, BeginStop, Forget, AfterStop, Suspend, PendingInv, Plain
  <1>3. CASE StopStep(Destroy)
    BY <1>0, <1>3 DEF StopStep, TermWaited, TermTimedOut, KillWaited, StopRaises, Forget,
                      AfterStop, Suspend, PendingInv
  <1>4. CASE \E p \in Proc : ProcStep(p)
    BY <1>4, ProcMoves DEF taskVars, PendingInv
  <1>5. QED
    BY <1>1, <1>2, <1>3, <1>4 DEF Next

\* What waits for the end of a stop() stays a failure.
LEMMA PendingStep ==
  ASSUME TypeInv, PendingInv, [Next]_vars
  PROVE  PendingInv'
  <1>1. CASE UNCHANGED vars
    BY <1>1 DEF vars, taskVars, PendingInv
  <1>2. QED
    BY <1>1, CallSteps, OtherSteps

\* Which subprocesses are reaped, and how they ended, is final.
LEMMA ReapedStays ==
  ASSUME TypeInv, LifeInv, [Next]_vars, NEW p \in Proc, Reaped(p)
  PROVE  Reaped(p)' /\ code'[p] = code[p]
  <1>0. os \in [Proc -> {"none", "boot", "live", "exited", "reaped"}]
    BY DEF TypeInv, TypeOK
  <1>1. CASE UNCHANGED vars
    BY <1>1 DEF vars, procVars, Reaped
  <1>2. ASSUME NEW c \in Caller, ExecStep(c) \/ StopStep(c)
        PROVE  Reaped(p)' /\ code'[p] = code[p]
    <2>1. code' = code /\ CallMove(c)
      BY <1>2, CallSignals, CallMoves DEF LifeInv
    <2>2. CASE Forks(c)
      <3>1. os[c] = "none" /\ c \in Proc
        BY <2>2 DEF Forks, LifeInv, UnbornInv, Proc
      <3>2. QED
        BY <1>0, <2>1, <2>2, <3>1 DEF Forks, Fork, Reaped
    <2>3. CASE ~Forks(c)
      BY <2>1, <2>3 DEF CallMove, Quits, Queues, Adopts, Uses, LetsGo, Reaped
    <2>4. QED
      BY <2>2, <2>3
  <1>3. CASE CreateSession \/ CreateReturns
    <2>1. pc[Create] = "new" => os[Create] = "none"
      BY DEF LifeInv, StartInv, Proc
    <2>2. QED
      BY <1>0, <1>3, <2>1 DEF CreateSession, CreateReturns, Fork, Reaped, procVars
  <1>4. CASE DestroySession \/ StopStep(Destroy)
    BY <1>4 DEF DestroySession, StopStep, TermWaited, TermTimedOut, KillWaited, procVars, Reaped
  <1>5. ASSUME NEW r \in Proc, ProcStep(r)
        PROVE  Reaped(p)' /\ code'[p] = code[p]
    BY <1>5, ProcMoves
  <1>6. QED
    BY <1>1, <1>2, <1>3, <1>4, <1>5 DEF Next

\* The exit code that a reading call looks up names the limit that was hit.
LEMMA ClassifyIsReal ==
  ASSUME NEW how, how \in Endings \cup {"none", "term"}, Classify(how) # "none"
  PROVE  <<Classify(how), how>> \in {<<"memory", "oom">>, <<"memory", "cpu_kill">>,
                                    <<"cpu", "xcpu">>, <<"file_size", "xfsz">>}
  BY DEF Classify, Endings

\* What was said of a runner that hit a limit stays true.
LEMMA VerdictStep ==
  ASSUME TypeInv, LifeInv, PendingInv, SignalInv, VerdictInv, [Next]_vars
  PROVE  VerdictInv'
  <1> SUFFICES ASSUME inDict', NEW i \in 1..Len(log')
               PROVE  TrueVerdict(log[i].outcome)'
    BY DEF VerdictInv
  <1>1. ASSUME NEW o, TrueVerdict(o), log'[i].outcome = o
        PROVE  TrueVerdict(log[i].outcome)'
    BY <1>1, ReapedStays DEF TrueVerdict
  <1>2. CASE log' = log /\ inDict
    BY <1>1, <1>2 DEF VerdictInv
  <1>3. ASSUME NEW c \in Caller, ExecStep(c) \/ StopStep(c)
        PROVE  TrueVerdict(log[i].outcome)'
    <2>1. CallStep(c) /\ inDict
      BY <1>3, CallSteps, CallMoves DEF LifeInv, CallMove
    <2>2. CASE log' = log
      BY <1>2, <2>1, <2>2
    <2>3. ASSUME NEW o \in Outcome, Records(c, o)
          PROVE  TrueVerdict(log[i].outcome)'
      <3>1. TrueVerdict(o)
        <4> SUFFICES ASSUME o.kind = "exited", o.limit # "none" PROVE TrueVerdict(o)
          BY DEF TrueVerdict
        <4>1. /\ pc[c] \in {"read", "eof_wait"} /\ procRef \in Proc /\ Reaped(procRef)
              /\ o.repl = procRef /\ o.limit = Classify(code[procRef])
          BY <2>3 DEF Records, TypeInv, TypeOK
        <4>2. \A d \in Caller : pc[d] \notin Stopping
          BY <4>1 DEF TypeInv, QueueInv, Stopping, Holding, Awaiting
        <4>3. code[procRef] # "kill"
          BY <2>1, <4>1, <4>2 DEF SignalInv
        <4>4. code[procRef] \in Endings \cup {"none", "term"}
          BY <4>1, <4>3 DEF TypeInv, TypeOK
        <4>5. QED
          BY <4>1, <4>4, ClassifyIsReal DEF TrueVerdict
      <3>2. /\ Len(log) \in Nat /\ Len(log') = Len(log) + 1
            /\ log'[Len(log) + 1].outcome = o
            /\ \A j \in 1..Len(log) : log'[j] = log[j]
        BY <2>3, LogEntry DEF Records
      <3>3. CASE i = Len(log) + 1
        BY <1>1, <3>1, <3>2, <3>3
      <3>4. CASE i \in 1..Len(log)
        <4>1. TrueVerdict(log[i].outcome)
          BY <2>1, <3>4 DEF VerdictInv
        <4>2. QED
          BY <1>1, <3>2, <3>4, <4>1
      <3>5. QED
        BY <3>2, <3>3, <3>4
    <2>4. QED
      BY <2>1, <2>2, <2>3
         DEF CallStep, Submits, Waits, GoesOn, TurnedAway, FailsAtOnce, Completes
  <1>4. CASE CreateSession
    BY <1>4 DEF CreateSession, LifeInv, StartInv
  <1>5. CASE ~CreateSession /\ Next /\ \A c \in Caller : ~ExecStep(c) /\ ~StopStep(c)
    <2>1. log' = log
      BY <1>5, OtherSteps
    <2>2. inDict
      BY <1>5, ProcMoves DEF Next, CreateReturns, DestroySession, StopStep, TermWaited,
                             TermTimedOut, KillWaited
    <2>3. QED
      BY <1>2, <2>1, <2>2
  <1>6. CASE UNCHANGED vars
    BY <1>2, <1>6 DEF vars
  <1>7. QED
    BY <1>3, <1>4, <1>5, <1>6

(* Only calls that have ended are in the log.                               *)
LoggedInv == \A i \in 1..Len(log) : log[i].caller \in Caller /\ pc[log[i].caller] = "done"

\* Only calls that have ended are in the log.
LEMMA LoggedStep ==
  ASSUME TypeInv, PendingInv, LoggedInv, [Next]_vars
  PROVE  LoggedInv'
  <1>0. pc \in [Task -> PCs] /\ Caller \subseteq Task
    BY DEF TypeInv, TypeOK, Task
  <1>1. CASE log' = log /\ \A c \in Caller : pc'[c] = pc[c]
    BY <1>1 DEF LoggedInv
  <1>2. ASSUME NEW c \in Caller, CallStep(c)
        PROVE  LoggedInv'
    <2>1. \A d \in Caller : pc[d] = "done" => pc'[d] = "done"
      BY <1>0, <1>2 DEF CallStep, Submits, Waits, GoesOn, TurnedAway, FailsAtOnce,
                        Completes, Records, InProgress
    <2>2. CASE log' = log
      BY <2>1, <2>2 DEF LoggedInv
    <2>3. ASSUME NEW o \in Outcome, Records(c, o)
          PROVE  LoggedInv'
      <3>1. /\ Len(log) \in Nat /\ Len(log') = Len(log) + 1
            /\ log'[Len(log) + 1].caller = c
            /\ \A j \in 1..Len(log) : log'[j] = log[j]
        BY <2>3, LogEntry DEF Records
      <3>2. pc'[c] = "done"
        BY <1>0, <2>3 DEF Records
      <3>3. ASSUME NEW i \in 1..Len(log')
            PROVE  log'[i].caller \in Caller /\ pc'[log'[i].caller] = "done"
        <4>1. CASE i = Len(log) + 1
          BY <3>1, <3>2, <4>1
        <4>2. CASE i \in 1..Len(log)
          BY <2>1, <3>1, <4>2 DEF LoggedInv
        <4>3. QED
          BY <3>1, <4>1, <4>2
      <3>4. QED
        BY <3>3 DEF LoggedInv
    <2>4. QED
      BY <1>2, <2>2, <2>3
         DEF CallStep, Submits, Waits, GoesOn, TurnedAway, FailsAtOnce, Completes
  <1>3. CASE UNCHANGED vars
    BY <1>1, <1>3 DEF vars, taskVars
  <1>4. QED
    BY <1>1, <1>2, <1>3, CallSteps, OtherSteps

CallsInv == PendingInv /\ SignalInv /\ VerdictInv /\ LoggedInv

\* Before any call.
LEMMA CallsInit == Init => CallsInv
  <1> SUFFICES ASSUME Init PROVE CallsInv
    OBVIOUS
  <1>1. PendingInv
    BY DEF Init, PendingInv, HttpError, Failure
  <1>2. SignalInv /\ VerdictInv /\ LoggedInv
    BY DEF Init, SignalInv, VerdictInv, LoggedInv
  <1>3. QED
    BY <1>1, <1>2 DEF CallsInv

\* The four parts together.
LEMMA CallsStep ==
  TypeInv /\ LifeInv /\ CallsInv /\ [Next]_vars => CallsInv'
  BY PendingStep, SignalStep, VerdictStep, LoggedStep DEF CallsInv

\* execute() names a memory, CPU or file size limit only for a runner that died
\* of a limit, however its death, the timeout, the child watcher's notice and
\* the calls that wait fall together; as long as the session is registered
\* (runner_pool.py:69-96, 301-309).
THEOREM LimitsAreReal == Spec => []LimitIsReal
  <1>1. Init => TypeInv /\ LifeInv /\ CallsInv
    BY TypeInit, LifeInit, CallsInit
  <1>2. TypeInv /\ LifeInv /\ CallsInv /\ [Next]_vars => (TypeInv /\ LifeInv /\ CallsInv)'
    BY TypeStep, LifeStep, CallsStep
  <1>3. CallsInv => LimitIsReal
    BY DEF CallsInv, VerdictInv, TrueVerdict, LimitIsReal
  <1>4. QED
    BY <1>1, <1>2, <1>3, PTL DEF Spec

-----------------------------------------------------------------------------
(* No silent restart: the log tells which runner answered.  As long as the  *)
(* runner that gave an answer is `_proc`, every answer since is its own; a  *)
(* runner that was let go of had nothing to run, or a failure was returned  *)
(* after its last answer and before any answer of another runner.           *)
Repl(i) == log[i].outcome.repl

(* A failure at k separates the answers of the runner of entry i from those *)
(* of another.                                                              *)
Separates(i, k) == /\ ~Answered(k)
                   /\ \A j \in i..k : Answered(j) => Repl(j) = Repl(i)

RestartInv == inDict => \A i \in 1..Len(log) : Answered(i) =>
  /\ Repl(i) \in Proc /\ pc[Repl(i)] \notin {"new", "queued", "spawn"}
  /\ procRef = Repl(i) => \A j \in i..Len(log) : Answered(j) => Repl(j) = Repl(i)
  /\ procRef # Repl(i) => \/ inbox[Repl(i)] = <<>>
                         \/ \E k \in i..Len(log) : Separates(i, k)

\* Nobody writes to a runner that `_proc` does not refer to.
LEMMA InboxMoves ==
  ASSUME TypeInv, [Next]_vars, NEW p \in Proc, procRef' # p, inbox[p] = <<>>
  PROVE  inbox'[p] = <<>>
  <1>0. inbox \in [Proc -> Seq(Caller)] /\ procRef \in Proc \cup {None}
    BY DEF TypeInv, TypeOK
  <1>1. CASE inbox' = inbox
    BY <1>1
  <1>2. ASSUME NEW c \in Caller, Arrive(c) \/ Acquire(c)
        PROVE  inbox'[p] = <<>>
    <2>1. procRef' = procRef /\ (inbox' = inbox \/ \E q : Enter(c, q))
      BY <1>2 DEF Arrive, Acquire
    <2>2. QED
      BY <1>0, <2>1 DEF Enter, Write
  <1>3. ASSUME NEW c \in Caller, Spawned(c)
        PROVE  inbox'[p] = <<>>
    BY <1>0, <1>3 DEF Spawned, Write, Proc
  <1>4. ASSUME NEW r \in Proc, Answer(r)
        PROVE  inbox'[p] = <<>>
    BY <1>0, <1>4 DEF Answer
  <1>5. ASSUME NEW c \in Caller, \/ Sent(c) \/ SendFails(c) \/ ReadAnswer(c) \/ ReadEof(c)
                                \/ EofWaited(c) \/ TimeOut(c) \/ Drained(c)
        PROVE  inbox' = inbox
    BY <1>5 DEF Sent, SendFails, ReadAnswer, ReadEof, EofWaited, TimeOut, Drained, procVars
  <1>6. ASSUME NEW t \in Caller \cup {Destroy}, StopStep(t)
        PROVE  inbox' = inbox
    BY <1>6 DEF StopStep, TermWaited, TermTimedOut, KillWaited, procVars
  <1>7. ASSUME NEW r \in Proc, ProcStep(r), ~Answer(r)
        PROVE  inbox' = inbox
    BY <1>7 DEF ProcStep, Boot, Crash, ObeyTerm, ObeyKill, Exit, Reap
  <1>8. CASE CreateSession \/ CreateReturns \/ DestroySession \/ UNCHANGED vars
    BY <1>1, <1>8 DEF CreateSession, CreateReturns, DestroySession, vars, procVars
  <1>9. QED
    BY <1>1, <1>2, <1>3, <1>4, <1>5, <1>6, <1>7, <1>8 DEF Next, ExecStep

\* What the log says of its old entries stays said.
LEMMA SeparatesStays ==
  ASSUME TypeInv, NEW i \in 1..Len(log), NEW k \in i..Len(log), Separates(i, k),
         \A j \in 1..Len(log) : log'[j] = log[j]
  PROVE  Separates(i, k)'
  <1>1. Len(log) \in Nat
    BY LenProperties DEF TypeInv, TypeOK
  <1>2. k \in 1..Len(log) /\ \A j \in i..k : j \in 1..Len(log)
    BY <1>1
  <1>3. QED
    BY <1>2 DEF Separates, Answered, Repl

\* A step that adds nothing to the log: `_proc` is left as it is, or a runner
\* that was started takes the place of one that owes nothing.
LEMMA RestartSilent ==
  ASSUME TypeInv, LifeInv, FlowInv, RestartInv, [Next]_vars, inDict, log' = log,
         \A p \in Proc : pc[p] \notin {"new", "queued", "spawn"} =>
                         pc'[p] \notin {"new", "queued", "spawn"},
         \/ procRef' = procRef
         \/ /\ pc[procRef'] = "spawn" /\ procRef' \in Proc
            /\ lockQ = <<>> \/ pc[Head(lockQ)] \notin Awaiting
  PROVE  RestartInv'
  <1> SUFFICES ASSUME NEW i \in 1..Len(log), Answered(i)
               PROVE  /\ Repl(i) \in Proc /\ pc'[Repl(i)] \notin {"new", "queued", "spawn"}
                      /\ procRef' = Repl(i) =>
                           \A j \in i..Len(log) : Answered(j) => Repl(j) = Repl(i)
                      /\ procRef' # Repl(i) => \/ inbox'[Repl(i)] = <<>>
                                              \/ \E k \in i..Len(log) : Separates(i, k)
    BY DEF RestartInv, Answered, Repl, Separates
  <1>1. /\ Repl(i) \in Proc /\ pc[Repl(i)] \notin {"new", "queued", "spawn"}
        /\ procRef = Repl(i) => \A j \in i..Len(log) : Answered(j) => Repl(j) = Repl(i)
        /\ procRef # Repl(i) => \/ inbox[Repl(i)] = <<>>
                               \/ \E k \in i..Len(log) : Separates(i, k)
    BY DEF RestartInv
  <1>2. procRef' # Repl(i) /\ inbox[Repl(i)] = <<>> => inbox'[Repl(i)] = <<>>
    BY <1>1, InboxMoves
  <1>3. CASE procRef' = procRef
    BY <1>1, <1>2, <1>3
  <1>4. CASE procRef' # procRef
    <2>1. procRef' # Repl(i)
      BY <1>1, <1>4
    <2>2. procRef = Repl(i) => inbox[Repl(i)] = <<>>
      BY <1>1, <1>4, Idle
    <2>3. QED
      BY <1>1, <1>2, <2>1, <2>2
  <1>5. QED
    BY <1>3, <1>4

\* A call ends: with an answer of `_proc`, or with a failure that separates the
\* answers before it from those after it.
LEMMA RestartRecords ==
  ASSUME TypeInv, LifeInv, RestartInv, [Next]_vars, inDict,
         NEW c \in Caller, NEW o \in Outcome, Records(c, o), procRef' \in {procRef, None}
  PROVE  RestartInv'
  <1>0. /\ pc \in [Task -> PCs] /\ procRef \in Proc \cup {None} /\ None \notin Proc
        /\ Proc \subseteq Task
    BY TasksAssumption DEF TypeInv, TypeOK, Proc, Task
  <1>n. PICK n : n = Len(log)
    OBVIOUS
  <1>1. /\ n \in Nat /\ Len(log) = n /\ Len(log') = n + 1
        /\ log'[n + 1].outcome = o
        /\ \A j \in 1..n : log'[j] = log[j]
    BY <1>n, LogEntry DEF Records
  <1>2. \A p \in Proc : pc[p] \notin {"new", "queued", "spawn"} =>
                        pc'[p] \notin {"new", "queued", "spawn"}
    BY <1>0 DEF Records
  <1>3. o.kind = "answered" => /\ procRef' = procRef /\ o.repl = procRef /\ procRef \in Proc
                               /\ pc[procRef] \notin {"new", "queued", "spawn"}
    <2> SUFFICES ASSUME o.kind = "answered"
                 PROVE  /\ procRef' = procRef /\ o.repl = procRef /\ procRef \in Proc
                        /\ pc[procRef] \notin {"new", "queued", "spawn"}
      OBVIOUS
    <2>1. pc[c] = "read" /\ procRef # None /\ procRef' = procRef /\ o.repl = on[c]
      BY DEF Records
    <2>2. on[c] = procRef
      BY <2>1 DEF LifeInv, RegisteredInv, Awaiting
    <2>3. QED
      BY <1>0, <2>1, <2>2 DEF LifeInv, UnbornInv
  <1> SUFFICES ASSUME NEW i \in 1..Len(log'), Answered(i)'
               PROVE  /\ Repl(i)' \in Proc /\ pc'[Repl(i)'] \notin {"new", "queued", "spawn"}
                      /\ procRef' = Repl(i)' =>
                           \A j \in i..Len(log') : Answered(j)' => Repl(j)' = Repl(i)'
                      /\ procRef' # Repl(i)' => \/ inbox'[Repl(i)'] = <<>>
                                               \/ \E k \in i..Len(log') : Separates(i, k)'
    BY DEF RestartInv, Repl
  <1>4. /\ \A j \in 1..n : /\ Answered(j)' <=> Answered(j)
                                  /\ Repl(j)' = Repl(j)
        /\ Answered(n + 1)' <=> o.kind = "answered"
        /\ Repl(n + 1)' = o.repl
    BY <1>1 DEF Answered, Repl
  <1>5. CASE i = n + 1
    BY <1>1, <1>2, <1>3, <1>4, <1>5
  <1>6. CASE i \in 1..n
    <2>1. /\ Repl(i) \in Proc /\ pc[Repl(i)] \notin {"new", "queued", "spawn"}
          /\ procRef = Repl(i) => \A j \in i..n : Answered(j) => Repl(j) = Repl(i)
          /\ procRef # Repl(i) => \/ inbox[Repl(i)] = <<>>
                                 \/ \E k \in i..n : Separates(i, k)
          /\ Repl(i)' = Repl(i)
      BY <1>1, <1>4, <1>6 DEF RestartInv
    <2>2. \A j \in i..Len(log') : j \in i..n \/ j = n + 1
      BY <1>1, <1>6
    <2>3. CASE procRef' = procRef /\ procRef = Repl(i)
      <3>1. ASSUME NEW j \in i..Len(log'), Answered(j)'
            PROVE  Repl(j)' = Repl(i)
        <4>1. CASE j = n + 1
          BY <1>3, <1>4, <2>3, <3>1, <4>1
        <4>2. CASE j \in i..n
          <5>1. j \in 1..n
            BY <1>1, <1>6, <4>2
          <5>2. QED
            BY <1>4, <2>1, <2>3, <3>1, <4>2, <5>1
        <4>3. QED
          BY <2>2, <4>1, <4>2
      <3>2. QED
        BY <1>2, <2>1, <2>3, <3>1
    <2>4. CASE procRef # Repl(i)
      <3>1. procRef' # Repl(i)
        BY <1>0, <2>1, <2>4
      <3>2. CASE inbox[Repl(i)] = <<>>
        BY <1>2, <2>1, <3>1, <3>2, InboxMoves
      <3>3. ASSUME NEW k \in i..n, Separates(i, k)
            PROVE  k \in i..Len(log') /\ Separates(i, k)'
        BY <1>1, <1>6, <3>3, SeparatesStays
      <3>4. QED
        BY <1>2, <2>1, <2>4, <3>1, <3>2, <3>3
    <2>5. CASE procRef = Repl(i) /\ procRef' # procRef
      <3>k. PICK k : k = n + 1
        OBVIOUS
      <3>1. o.kind # "answered" /\ procRef' # Repl(i)
        BY <1>3, <2>5
      <3>2. k \in i..Len(log') /\ ~Answered(k)'
        BY <1>1, <1>4, <1>6, <3>k, <3>1
      <3>3. ASSUME NEW j \in i..k, Answered(j)'
            PROVE  Repl(j)' = Repl(i)'
        <4>1. j \in i..n /\ j \in 1..n
          BY <1>1, <1>4, <1>6, <3>k, <3>1, <3>3
        <4>2. QED
          BY <1>4, <2>1, <2>5, <3>3, <4>1
      <3>4. Separates(i, k)'
        BY <3>2, <3>3 DEF Separates
      <3>5. QED
        BY <1>2, <2>1, <3>1, <3>2, <3>4
    <2>6. QED
      BY <2>3, <2>4, <2>5
  <1>7. QED
    BY <1>1, <1>5, <1>6

\* Every step, by who takes it.
LEMMA RestartStep ==
  ASSUME TypeInv, LifeInv, FlowInv, PendingInv, RestartInv, [Next]_vars
  PROVE  RestartInv'
  <1>0. /\ pc \in [Task -> PCs] /\ procRef \in Proc \cup {None} /\ lockQ \in Seq(Caller)
        /\ Proc \subseteq Task /\ Proc = Caller \cup {Create} /\ Create # Destroy
    BY TasksAssumption DEF TypeInv, TypeOK, Proc, Task
  <1> SUFFICES ASSUME inDict' PROVE RestartInv'
    BY DEF RestartInv
  <1>1. CASE UNCHANGED vars
    BY <1>1, RestartSilent DEF vars, taskVars
  <1>2. ASSUME NEW c \in Caller, ExecStep(c) \/ StopStep(c)
        PROVE  RestartInv'
    <2>1. CallMove(c) /\ CallStep(c) /\ inDict
      BY <1>2, CallMoves, CallSteps DEF LifeInv, CallMove
    <2>2. CASE log' = log /\ ((pc[c] = "spawn" /\ procRef' = c) \/ procRef' = procRef)
      <3>1. \A p \in Proc : pc[p] \notin {"new", "queued", "spawn"} =>
                            pc'[p] \notin {"new", "queued", "spawn"}
        BY <1>0, <2>1 DEF CallMove, Quits, Queues, Forks, Adopts, Uses, LetsGo, Fork, Suspend,
                          Awaiting
      <3>2. pc[c] = "spawn" => pc[Head(lockQ)] \notin Awaiting
        BY DEF TypeInv, QueueInv, Holding, Awaiting
      <3>3. QED
        BY <1>0, <2>1, <2>2, <3>1, <3>2, RestartSilent
    <2>3. ASSUME NEW o \in Outcome, Records(c, o), procRef' \in {procRef, None}
          PROVE  RestartInv'
      BY <2>1, <2>3, RestartRecords
    <2>4. QED
      BY <2>1, <2>2, <2>3
         DEF CallStep, Submits, Waits, GoesOn, TurnedAway, FailsAtOnce, Completes
  <1>3. CASE CreateSession
    BY <1>3 DEF CreateSession, LifeInv, StartInv, RestartInv
  <1>4. CASE CreateReturns
    <2>1. /\ inDict /\ log' = log /\ procRef' = Create /\ pc[Create] = "spawn"
          /\ pc' = [pc EXCEPT ![Create] = "done"]
      BY <1>4 DEF CreateReturns, Suspend
    <2>2. lockQ = <<>> \/ pc[Head(lockQ)] \notin Awaiting
      BY <1>0, <2>1 DEF LifeInv, CreateInv, Awaiting
    <2>3. QED
      BY <1>0, <2>1, <2>2, RestartSilent
  <1>5. CASE DestroySession
    BY <1>5 DEF DestroySession
  <1>6. CASE StopStep(Destroy)
    BY <1>6 DEF StopStep, TermWaited, TermTimedOut, KillWaited, LifeInv, RegisteredInv
  <1>7. ASSUME NEW p \in Proc, ProcStep(p)
        PROVE  RestartInv'
    BY <1>7, ProcMoves, RestartSilent DEF taskVars
  <1>8. QED
    BY <1>1, <1>2, <1>3, <1>4, <1>5, <1>6, <1>7 DEF Next

(* The invariants together, for the theorems below.                         *)
AllInv == TypeInv /\ LifeInv /\ FlowInv /\ CallsInv /\ RestartInv

\* All invariants of the runner hold in every state.
LEMMA AllAlways ==
  ASSUME ~TornFrame
  PROVE  Spec => []AllInv
  <1>1. Init => AllInv
    <2>1. Init => RestartInv
      BY DEF Init, RestartInv
    <2>2. QED
      BY <2>1, TypeInit, LifeInit, FlowInit, CallsInit DEF AllInv
  <1>2. AllInv /\ [Next]_vars => AllInv'
    BY TypeStep, LifeStep, FlowStep, CallsStep, RestartStep DEF AllInv, CallsInv
  <1>3. QED
    BY <1>1, <1>2, PTL DEF Spec

\* Between answers of two runners of a registered session some call returned a
\* failure, or the first runner died with nothing to run: the REPL is not lost
\* behind the client's back (runner_pool.py:144-147, 217-262).
THEOREM RestartsAreTold ==
  ASSUME ~TornFrame
  PROVE  Spec => []NoSilentRestart
  <1>1. AllInv => NoSilentRestart
    <2> SUFFICES ASSUME AllInv, inDict, NEW i \in 1..Len(log), NEW j \in 1..Len(log),
                        i < j, Answered(i), Answered(j), Repl(i) # Repl(j),
                        inbox[Repl(i)] # <<>>
                 PROVE  \E k \in i..j : ~Answered(k)
      BY DEF NoSilentRestart, Repl
    <2>0. Len(log) \in Nat
      BY LenProperties DEF AllInv, TypeInv, TypeOK
    <2>1. /\ procRef = Repl(i) => \A m \in i..Len(log) : Answered(m) => Repl(m) = Repl(i)
          /\ procRef # Repl(i) => \E k \in i..Len(log) : Separates(i, k)
      BY DEF AllInv, RestartInv
    <2>2. j \in i..Len(log)
      BY <2>0
    <2>3. PICK k \in i..Len(log) : Separates(i, k)
      BY <2>1, <2>2
    <2>4. j \notin i..k
      BY <2>3 DEF Separates
    <2>5. k \in i..j /\ ~Answered(k)
      BY <2>0, <2>3, <2>4 DEF Separates
    <2>6. QED
      BY <2>5
  <1>2. QED
    BY <1>1, AllAlways, PTL
=============================================================================
