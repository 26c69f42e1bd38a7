------------------------ MODULE RunnerProcess_proofs ------------------------
(* Proofs about RunnerProcess, for any set of calls and any faults.        *)
EXTENDS RunnerProcess, SequenceTheorems, TLAPS

(* The task that is past its acquisition of the lock, and the tasks whose   *)
(* await is about a subprocess.                                            *)
Awaiting == {"send", "read", "eof_wait", "drain", "term_wait", "kill_wait"}
Holding == Awaiting \cup {"spawn"}

QueueInv == \A c \in Caller : pc[c] \in Holding => lockQ # <<>> /\ Head(lockQ) = c

AwaitInv == \A t \in Task : pc[t] \in Awaiting => on[t] \in Proc

TypeInv == TypeOK /\ QueueInv /\ AwaitInv

-----------------------------------------------------------------------------
(* Facts about the pieces that several handlers share.                     *)

\* A sequence of length zero is empty.
LEMMA LengthZero ==
  ASSUME NEW S, NEW s \in Seq(S), Len(s) = 0
  PROVE  s = <<>>
  BY EmptySeq

\* A sequence of length one is its head.
LEMMA LengthOne ==
  ASSUME NEW S, NEW s \in Seq(S), Len(s) = 1
  PROVE  Head(s) = s[1] /\ Tail(s) = <<>>
  <1>1. s # <<>>
    BY EmptySeq
  <1>2. Head(s) = s[1] /\ Tail(s) \in Seq(S) /\ Len(Tail(s)) = Len(s) - 1
    BY <1>1, HeadTailProperties
  <1>3. Len(Tail(s)) = 0
    BY <1>2
  <1>4. QED
    BY <1>2, <1>3, LengthZero

\* Kinds of outcomes are well formed.
LEMMA FailureType ==
  ASSUME NEW kind \in Kinds, NEW limit \in Limits, NEW repl \in Proc \cup {None}
  PROVE  Failure(kind, limit, repl) \in Outcome
  BY DEF Failure, Outcome

\* Classify yields a limit kind of the enumeration.
LEMMA ClassifyType == \A how : Classify(how) \in {"none", "memory", "cpu", "file_size"}
  BY DEF Classify

\* Releasing the lock and recording the outcome keeps the invariant: no other
\* call was past its acquisition.
LEMMA ReturnKeeps ==
  ASSUME TypeInv, NEW c \in Caller, NEW o \in Outcome, NEW q \in Seq(Caller),
         q # <<>>, \A d \in Caller \ {c} : pc[d] \notin Holding,
         Return(c, o, q)
  PROVE  /\ pc' \in [Task -> PCs]
         /\ on' \in [Task -> Proc \cup {None}]
         /\ lockQ' \in Seq(Caller)
         /\ log' \in Seq([caller : Caller, outcome : Outcome])
         /\ QueueInv' /\ AwaitInv'
  <1>1. c \in Task
    BY DEF Task
  <1>2. /\ pc' = [pc EXCEPT ![c] = "done"] /\ on' = [on EXCEPT ![c] = None]
        /\ pc \in [Task -> PCs] /\ on \in [Task -> Proc \cup {None}]
    BY DEF Return, Suspend, TypeInv, TypeOK
  <1>3. pc' \in [Task -> PCs] /\ on' \in [Task -> Proc \cup {None}]
    BY <1>1, <1>2 DEF PCs
  <1>4. lockQ' \in Seq(Caller)
    BY DEF Return
  <1>5. [caller |-> c, outcome |-> o] \in [caller : Caller, outcome : Outcome]
    OBVIOUS
  <1>6. log' \in Seq([caller : Caller, outcome : Outcome])
    BY <1>5, AppendProperties DEF Return, TypeInv, TypeOK
  <1>7. QueueInv'
    BY <1>1, <1>2 DEF QueueInv, Holding, Awaiting, Task
  <1>8. AwaitInv'
    BY <1>1, <1>2 DEF AwaitInv, TypeInv, Awaiting
  <1>9. QED
    BY <1>3, <1>4, <1>6, <1>7, <1>8

\* The shared end of stop(), for a call that holds the lock or for Destroy.
LEMMA AfterStopKeeps ==
  ASSUME TypeInv, NEW t \in Caller \cup {Destroy}, NEW o \in Outcome,
         t \in Caller => pc[t] \in Holding,
         AfterStop(t, o)
  PROVE  /\ pc' \in [Task -> PCs]
         /\ on' \in [Task -> Proc \cup {None}]
         /\ lockQ' \in Seq(Caller)
         /\ log' \in Seq([caller : Caller, outcome : Outcome])
         /\ dirExists' \in BOOLEAN
         /\ QueueInv' /\ AwaitInv'
  <1>1. CASE t = Destroy
    <2>1. /\ pc' = [pc EXCEPT ![Destroy] = "done"]
          /\ on' = [on EXCEPT ![Destroy] = None]
          /\ dirExists' = FALSE /\ lockQ' = lockQ /\ log' = log
      BY <1>1 DEF AfterStop, Suspend
    <2>2. pc' \in [Task -> PCs] /\ on' \in [Task -> Proc \cup {None}]
      BY <2>1 DEF TypeInv, TypeOK, PCs
    <2>3. QueueInv' /\ AwaitInv'
      BY <2>1, TasksAssumption
         DEF TypeInv, TypeOK, QueueInv, AwaitInv, Holding, Awaiting, Task
    <2>4. QED
      BY <2>1, <2>2, <2>3 DEF TypeInv, TypeOK
  <1>2. CASE t \in Caller
    <2>1. Return(t, o, lockQ) /\ dirExists' = dirExists
      BY <1>2, TasksAssumption DEF AfterStop
    <2>2. lockQ # <<>> /\ \A d \in Caller \ {t} : pc[d] \notin Holding
      BY <1>2 DEF TypeInv, QueueInv
    <2>3. lockQ \in Seq(Caller) /\ dirExists \in BOOLEAN
      BY DEF TypeInv, TypeOK
    <2>4. QED
      BY <1>2, <2>1, <2>2, <2>3, ReturnKeeps
  <1>3. QED
    BY <1>1, <1>2

\* stop() up to its first await.
LEMMA BeginStopKeeps ==
  ASSUME TypeInv, NEW t \in Caller \cup {Destroy}, NEW o \in Outcome,
         t \in Caller => pc[t] \in Holding,
         BeginStop(t, o)
  PROVE  /\ pc' \in [Task -> PCs]
         /\ on' \in [Task -> Proc \cup {None}]
         /\ after' \in [Task -> Outcome]
         /\ sig' \in [Proc -> {"none", "term", "kill"}]
         /\ procRef' \in Proc \cup {None}
         /\ lockQ' \in Seq(Caller)
         /\ log' \in Seq([caller : Caller, outcome : Outcome])
         /\ dirExists' \in BOOLEAN
         /\ QueueInv' /\ AwaitInv'
  <1>1. CASE Forget(t, o) /\ UNCHANGED <<sig, after>>
    BY <1>1, AfterStopKeeps DEF Forget, TypeInv, TypeOK
  <1>2. CASE /\ procRef # None
             /\ Suspend(t, "term_wait", procRef)
             /\ sig' = [sig EXCEPT ![procRef] = IF @ = "none" THEN "term" ELSE @]
             /\ after' = [after EXCEPT ![t] = o]
             /\ UNCHANGED <<procRef, lockQ, log, dirExists>>
    <2>1. procRef \in Proc /\ t \in Task
      BY <1>2 DEF TypeInv, TypeOK, Task
    <2>2. /\ pc' = [pc EXCEPT ![t] = "term_wait"]
          /\ on' = [on EXCEPT ![t] = procRef]
      BY <1>2 DEF Suspend
    <2>3. pc' \in [Task -> PCs] /\ on' \in [Task -> Proc \cup {None}]
      BY <2>1, <2>2 DEF TypeInv, TypeOK, PCs
    <2>4. /\ after' \in [Task -> Outcome]
          /\ sig' \in [Proc -> {"none", "term", "kill"}]
      BY <1>2, <2>1 DEF TypeInv, TypeOK
    <2>5. QueueInv'
      BY <1>2, <2>1, <2>2, TasksAssumption
         DEF TypeInv, TypeOK, QueueInv, Holding, Awaiting, Task
    <2>6. AwaitInv'
      BY <2>1, <2>2 DEF TypeInv, TypeOK, AwaitInv
    <2>7. QED
      BY <1>2, <2>3, <2>4, <2>5, <2>6 DEF TypeInv, TypeOK
  <1>3. QED
    BY <1>1, <1>2 DEF BeginStop

\* Code blocks are written to processes.
LEMMA WriteKeeps ==
  ASSUME TypeOK, NEW c \in Caller, NEW p \in Proc, Write(c, p)
  PROVE  inbox' \in [Proc -> Seq(Caller)]
  BY AppendProperties DEF Write, TypeOK

\* From the lock to the first await, for the task at the head of queue q.
LEMMA EnterKeeps ==
  ASSUME TypeInv, NEW c \in Caller, NEW q \in Seq(Caller),
         q # <<>>, Head(q) = c, \A d \in Caller \ {c} : pc[d] \notin Holding,
         Enter(c, q)
  PROVE  /\ pc' \in [Task -> PCs]
         /\ on' \in [Task -> Proc \cup {None}]
         /\ inbox' \in [Proc -> Seq(Caller)]
         /\ os' \in [Proc -> {"none", "boot", "live", "exited", "reaped"}]
         /\ lockQ' \in Seq(Caller)
         /\ log' \in Seq([caller : Caller, outcome : Outcome])
         /\ QueueInv' /\ AwaitInv'
  <1>0. c \in Task /\ c \in Proc
    BY DEF Task, Proc
  <1>1. CASE /\ procRef # None
             /\ Write(c, procRef)
             /\ Suspend(c, "send", procRef)
             /\ lockQ' = q
             /\ UNCHANGED <<os, log>>
    <2>1. procRef \in Proc
      BY <1>1 DEF TypeInv, TypeOK
    <2>2. /\ pc' = [pc EXCEPT ![c] = "send"]
          /\ on' = [on EXCEPT ![c] = procRef]
      BY <1>1 DEF Suspend
    <2>3. pc' \in [Task -> PCs] /\ on' \in [Task -> Proc \cup {None}]
      BY <1>0, <2>1, <2>2 DEF TypeInv, TypeOK, PCs
    <2>4. inbox' \in [Proc -> Seq(Caller)]
      BY <1>1, <2>1, WriteKeeps DEF TypeInv
    <2>5. QueueInv'
      BY <1>0, <1>1, <2>2 DEF TypeInv, TypeOK, QueueInv, Task
    <2>6. AwaitInv'
      BY <1>0, <2>1, <2>2 DEF TypeInv, TypeOK, AwaitInv
    <2>7. QED
      BY <1>1, <2>3, <2>4, <2>5, <2>6 DEF TypeInv, TypeOK
  <1>2. CASE /\ Fork(c)
             /\ lockQ' = q
             /\ UNCHANGED <<inbox, log>>
    <2>1. /\ pc' = [pc EXCEPT ![c] = "spawn"]
          /\ on' = [on EXCEPT ![c] = c]
          /\ os' = [os EXCEPT ![c] = "boot"]
      BY <1>2 DEF Fork, Suspend
    <2>2. /\ pc' \in [Task -> PCs] /\ on' \in [Task -> Proc \cup {None}]
          /\ os' \in [Proc -> {"none", "boot", "live", "exited", "reaped"}]
      BY <1>0, <2>1 DEF TypeInv, TypeOK, PCs
    <2>3. QueueInv' /\ AwaitInv'
      BY <1>0, <1>2, <2>1
         DEF TypeInv, TypeOK, QueueInv, AwaitInv, Awaiting, Task
    <2>4. QED
      BY <1>2, <2>2, <2>3 DEF TypeInv, TypeOK
  <1>3. CASE Return(c, HttpError, q) /\ UNCHANGED <<os, inbox>>
    <2>1. HttpError \in Outcome
      BY FailureType DEF HttpError, Kinds, Limits
    <2>2. QED
      BY <1>3, <2>1, ReturnKeeps DEF TypeInv, TypeOK
  <1>4. QED
    BY <1>1, <1>2, <1>3 DEF Enter

-----------------------------------------------------------------------------
(* Every step of the event loop and of the subprocesses keeps TypeInv.     *)

\* The eager start of create_session.
LEMMA CreateTypes ==
  TypeInv /\ (CreateSession \/ CreateReturns) => TypeInv'
  <1> SUFFICES ASSUME TypeInv, CreateSession \/ CreateReturns PROVE TypeInv'
    OBVIOUS
  <1> USE DEF Suspend, TypeInv, TypeOK, PCs, Proc, Task, QueueInv, AwaitInv,
              Holding, Awaiting, procVars
  <1>1. CASE CreateSession
    <2>1. CASE Fork(Create)
      BY <1>1, <2>1, TasksAssumption DEF CreateSession, Fork
    <2>2. CASE Suspend(Create, "failed", None) /\ UNCHANGED os
      BY <1>1, <2>2, TasksAssumption DEF CreateSession
    <2>3. QED
      BY <1>1, <2>1, <2>2 DEF CreateSession
  <1>2. CASE CreateReturns
    BY <1>2, TasksAssumption DEF CreateReturns
  <1>3. QED
    BY <1>1, <1>2

\* The steps of execute() that begin or end outside stop().
LEMMA ExecTypes ==
  ASSUME TypeInv, NEW c \in Caller,
         \/ Arrive(c) \/ Acquire(c) \/ Spawned(c) \/ Sent(c) \/ ReadAnswer(c)
  PROVE  TypeInv'
  <1>0. c \in Task /\ c \in Proc
    BY DEF Task, Proc
  <1>e. HttpError \in Outcome
    BY FailureType DEF HttpError, Kinds, Limits
  <1>1. CASE Arrive(c)
    <2>1. CASE ~inDict /\ Suspend(c, "done", None) /\ UNCHANGED <<lockQ, os, inbox, log>>
      BY <1>0, <1>1, <2>1
         DEF Arrive, Suspend, TypeInv, TypeOK, PCs, QueueInv, AwaitInv, Holding, Awaiting, Task
    <2>2. CASE lockQ = <<>> /\ Enter(c, <<c>>)
      <3>1. <<c>> \in Seq(Caller) /\ <<c>> # <<>> /\ Head(<<c>>) = c
        OBVIOUS
      <3>2. \A d \in Caller \ {c} : pc[d] \notin Holding
        BY <2>2 DEF TypeInv, QueueInv
      <3>3. QED
        BY <1>1, <2>2, <3>1, <3>2, EnterKeeps DEF Arrive, TypeInv, TypeOK
    <2>3. CASE /\ lockQ # <<>> /\ lockQ' = Append(lockQ, c)
               /\ Suspend(c, "queued", None)
               /\ UNCHANGED <<os, inbox, log>>
      <3>1. /\ lockQ' \in Seq(Caller) /\ lockQ' # <<>>
            /\ Head(lockQ') = Head(lockQ)
        BY <2>3, AppendProperties DEF TypeInv, TypeOK
      <3>2. QED
        BY <1>0, <1>1, <2>3, <3>1
           DEF Arrive, Suspend, TypeInv, TypeOK, PCs, QueueInv, AwaitInv, Holding, Awaiting, Task
    <2>4. QED
      BY <1>1, <2>1, <2>2, <2>3 DEF Arrive
  <1>2. CASE Acquire(c)
    <2>1. \A d \in Caller \ {c} : pc[d] \notin Holding
      BY <1>2 DEF Acquire, TypeInv, QueueInv
    <2>2. QED
      BY <1>2, <2>1, EnterKeeps DEF Acquire, TypeInv, TypeOK
  <1>3. CASE Spawned(c)
    <2>1. inbox' \in [Proc -> Seq(Caller)]
      BY <1>0, <1>3, WriteKeeps DEF Spawned, TypeInv
    <2>2. QED
      BY <1>0, <1>3, <2>1
         DEF Spawned, Suspend, TypeInv, TypeOK, PCs, QueueInv, AwaitInv, Holding, Awaiting, Task
  <1>4. CASE Sent(c)
    <2>1. CASE Return(c, HttpError, lockQ)
      BY <1>e, <1>4, <2>1, ReturnKeeps
         DEF Sent, TypeInv, TypeOK, QueueInv, Holding, Awaiting, procVars
    <2>2. CASE procRef # None /\ Suspend(c, "read", procRef) /\ UNCHANGED <<lockQ, log>>
      BY <1>0, <1>4, <2>2
         DEF Sent, Suspend, TypeInv, TypeOK, PCs, QueueInv, AwaitInv, Holding, Awaiting, Task, procVars
    <2>3. QED
      BY <1>4, <2>1, <2>2 DEF Sent
  <1>5. CASE ReadAnswer(c)
    <2> DEFINE answer == Head(pipe[on[c]])
               rest == Tail(pipe[on[c]])
    <2>0. pc[c] = "read"
      BY <1>5 DEF ReadAnswer
    <2>1. /\ on[c] \in Proc /\ pipe[on[c]] # <<>>
          /\ answer \in [from : Caller, torn : BOOLEAN]
          /\ rest \in Seq([from : Caller, torn : BOOLEAN])
      <3>1. on[c] \in Proc
        BY <1>0, <2>0 DEF TypeInv, AwaitInv, Awaiting
      <3>2. pipe[on[c]] \in Seq([from : Caller, torn : BOOLEAN]) /\ pipe[on[c]] # <<>>
        BY <1>5, <3>1 DEF ReadAnswer, TypeInv, TypeOK
      <3>3. QED
        BY <3>1, <3>2, HeadTailProperties
    <2>2. /\ lockQ \in Seq(Caller) /\ lockQ # <<>>
          /\ \A d \in Caller \ {c} : pc[d] \notin Holding
      BY <2>0 DEF TypeInv, TypeOK, QueueInv, Holding, Awaiting
    <2>3. PICK o \in Outcome : Return(c, o, lockQ)
      <3>1. answer.from \in Caller
        BY <2>1
      <3>2. AnswerOf(answer, on[c]) \in Outcome
        BY <2>1, <3>1 DEF AnswerOf, Outcome, Kinds, Limits
      <3>3. QED
        BY <1>e, <1>5, <3>2 DEF ReadAnswer
    <2>4. pipe' \in [Proc -> Seq([from : Caller, torn : BOOLEAN])]
      <3>1. \A more \in BOOLEAN :
              <<[answer EXCEPT !.torn = more]>> \o rest
                \in Seq([from : Caller, torn : BOOLEAN])
        BY <2>1, ConcatProperties
      <3>2. \/ pipe' = pipe
            \/ \E more \in BOOLEAN :
                 pipe' = [pipe EXCEPT ![on[c]] =
                            <<[answer EXCEPT !.torn = more]>> \o rest]
            \/ pipe' = [pipe EXCEPT ![on[c]] = rest]
        BY <1>5 DEF ReadAnswer
      <3>3. \A s \in Seq([from : Caller, torn : BOOLEAN]) :
              [pipe EXCEPT ![on[c]] = s] \in [Proc -> Seq([from : Caller, torn : BOOLEAN])]
        BY <2>1 DEF TypeInv, TypeOK
      <3>4. CASE \E more \in BOOLEAN :
                   pipe' = [pipe EXCEPT ![on[c]] =
                              <<[answer EXCEPT !.torn = more]>> \o rest]
        <4>1. PICK more \in BOOLEAN :
                 pipe' = [pipe EXCEPT ![on[c]] =
                            <<[answer EXCEPT !.torn = more]>> \o rest]
          BY <3>4
        <4> HIDE DEF answer, rest
        <4>2. QED
          BY <3>1, <3>3, <4>1
      <3>5. QED
        BY <2>1, <3>2, <3>3, <3>4 DEF TypeInv, TypeOK
    <2>5. /\ pc' \in [Task -> PCs]
          /\ on' \in [Task -> Proc \cup {None}]
          /\ lockQ' \in Seq(Caller)
          /\ log' \in Seq([caller : Caller, outcome : Outcome])
          /\ QueueInv' /\ AwaitInv'
      BY <2>2, <2>3, ReturnKeeps
    <2>6. QED
      BY <1>5, <2>4, <2>5 DEF ReadAnswer, TypeInv, TypeOK
  <1>6. QED
    BY <1>1, <1>2, <1>3, <1>4, <1>5

\* The steps of execute() that call stop() or resume inside the read.
LEMMA ExecStopTypes ==
  ASSUME TypeInv, NEW c \in Caller,
         SendFails(c) \/ ReadEof(c) \/ EofWaited(c) \/ TimeOut(c) \/ Drained(c)
  PROVE  TypeInv'
  <1>0. c \in Task /\ c \in Caller \cup {Destroy}
    BY DEF Task
  <1>1. /\ HttpError \in Outcome /\ TimedOut \in Outcome
        /\ \A p \in Proc \cup {None} : Failure("pipe_closed", "none", p) \in Outcome
        /\ \A limit \in {"none", "memory", "cpu", "file_size"}, p \in Proc \cup {None} :
             Failure("exited", limit, p) \in Outcome
    BY FailureType DEF HttpError, TimedOut, Kinds, Limits
  <1>2. pc[c] \in Awaiting /\ on[c] \in Proc
    BY <1>0 DEF SendFails, ReadEof, EofWaited, TimeOut, Reading, Drained,
                TypeInv, AwaitInv, Awaiting
  <1>3. pc[c] \in Holding /\ lockQ \in Seq(Caller) /\ lockQ # <<>>
        /\ \A d \in Caller \ {c} : pc[d] \notin Holding
    BY <1>2 DEF Holding, TypeInv, TypeOK, QueueInv
  <1>4. UNCHANGED <<inDict, os, code, inbox, atDestroy>>
        /\ pipe' \in [Proc -> Seq([from : Caller, torn : BOOLEAN])]
    <2>1. <<>> \in Seq([from : Caller, torn : BOOLEAN])
      OBVIOUS
    <2>2. QED
      BY <1>2, <2>1 DEF SendFails, ReadEof, EofWaited, TimeOut, Drained, TypeInv, TypeOK
  <1>5. ASSUME NEW o \in Outcome, BeginStop(c, o)
        PROVE  TypeInv'
    <2>1. /\ pc' \in [Task -> PCs]
          /\ on' \in [Task -> Proc \cup {None}]
          /\ after' \in [Task -> Outcome]
          /\ sig' \in [Proc -> {"none", "term", "kill"}]
          /\ procRef' \in Proc \cup {None}
          /\ lockQ' \in Seq(Caller)
          /\ log' \in Seq([caller : Caller, outcome : Outcome])
          /\ dirExists' \in BOOLEAN
          /\ QueueInv' /\ AwaitInv'
      BY <1>0, <1>3, <1>5, BeginStopKeeps
    <2>2. QED
      BY <1>4, <2>1 DEF TypeInv, TypeOK
  <1>6. ASSUME NEW where \in {"eof_wait", "drain"}, procRef # None,
               Suspend(c, where, procRef),
               UNCHANGED <<procRef, lockQ, sig, after, log, dirExists>>
        PROVE  TypeInv'
    <2>1. procRef \in Proc
      BY <1>6 DEF TypeInv, TypeOK
    <2>2. /\ pc' = [pc EXCEPT ![c] = where] /\ on' = [on EXCEPT ![c] = procRef]
          /\ where \in PCs /\ where \in Awaiting
      BY <1>6 DEF Suspend, PCs, Awaiting
    <2>3. pc' \in [Task -> PCs] /\ on' \in [Task -> Proc \cup {None}]
      BY <1>0, <2>1, <2>2 DEF TypeInv, TypeOK
    <2>4. QueueInv'
      BY <1>0, <1>3, <1>6, <2>2 DEF TypeInv, TypeOK, QueueInv, Task
    <2>5. AwaitInv'
      BY <1>0, <2>1, <2>2 DEF TypeInv, TypeOK, AwaitInv
    <2>6. QED
      BY <1>4, <1>6, <2>3, <2>4, <2>5 DEF TypeInv, TypeOK
  <1>7. ASSUME EndOfRunner(c)
        PROVE  TypeInv'
    <2>1. CASE /\ Return(c, HttpError, lockQ)
               /\ UNCHANGED <<procRef, sig, after, dirExists>>
      BY <1>1, <1>3, <1>4, <2>1, ReturnKeeps DEF TypeInv, TypeOK
    <2>2. CASE procRef # None
      <3>1. PICK limit \in {"none", "memory", "cpu", "file_size"} :
              BeginStop(c, Failure("exited", limit, procRef))
        BY <1>7, <2>2, ClassifyType DEF EndOfRunner
      <3>2. QED
        BY <1>1, <1>5, <3>1 DEF TypeInv, TypeOK
    <2>3. QED
      BY <1>7, <2>1, <2>2 DEF EndOfRunner
  <1>8. CASE SendFails(c)
    BY <1>1, <1>2, <1>5, <1>8 DEF SendFails
  <1>9. CASE ReadEof(c)
    BY <1>6, <1>7, <1>9 DEF ReadEof
  <1>10. CASE EofWaited(c)
    BY <1>7, <1>10 DEF EofWaited
  <1>11. CASE TimeOut(c)
    BY <1>1, <1>5, <1>6, <1>11 DEF TimeOut
  <1>12. CASE Drained(c)
    BY <1>1, <1>5, <1>12 DEF Drained
  <1>13. QED
    BY <1>8, <1>9, <1>10, <1>11, <1>12

\* The steps of stop() after its first await.
LEMMA StopTypes ==
  ASSUME TypeInv, NEW t \in Caller \cup {Destroy}, StopStep(t)
  PROVE  TypeInv'
  <1>0. /\ t \in Task /\ HttpError \in Outcome /\ after[t] \in Outcome
        /\ pc[t] \in {"term_wait", "kill_wait"}
    BY FailureType DEF Task, HttpError, Kinds, Limits, TypeInv, TypeOK,
       StopStep, TermWaited, TermTimedOut, KillWaited
  <1>1. t \in Caller => pc[t] \in Holding
    BY <1>0 DEF Holding, Awaiting
  <1>2. ASSUME NEW o \in Outcome, AfterStop(t, o),
               procRef' \in {procRef, None},
               UNCHANGED <<inDict, procVars, after, atDestroy>>
        PROVE  TypeInv'
    BY <1>1, <1>2, AfterStopKeeps DEF TypeInv, TypeOK, procVars
  <1>3. CASE TermWaited(t)
    BY <1>0, <1>2, <1>3 DEF TermWaited, Forget
  <1>4. CASE KillWaited(t)
    BY <1>0, <1>2, <1>4 DEF KillWaited, Forget
  <1>5. CASE TermTimedOut(t)
    <2>1. CASE StopRaises(t) /\ UNCHANGED sig
      BY <1>0, <1>2, <1>5, <2>1 DEF TermTimedOut, StopRaises, procVars
    <2>2. CASE Forget(t, after[t]) /\ UNCHANGED sig
      BY <1>0, <1>2, <1>5, <2>2 DEF TermTimedOut, Forget, procVars
    <2>3. CASE /\ procRef # None
               /\ sig' = [sig EXCEPT ![procRef] = "kill"]
               /\ Suspend(t, "kill_wait", procRef)
               /\ UNCHANGED <<procRef, lockQ, log, dirExists>>
      <3>1. procRef \in Proc
        BY <2>3 DEF TypeInv, TypeOK
      <3>2. /\ pc' = [pc EXCEPT ![t] = "kill_wait"]
            /\ on' = [on EXCEPT ![t] = procRef]
        BY <2>3 DEF Suspend
      <3>3. /\ pc' \in [Task -> PCs] /\ on' \in [Task -> Proc \cup {None}]
            /\ sig' \in [Proc -> {"none", "term", "kill"}]
        BY <1>0, <2>3, <3>1, <3>2 DEF TypeInv, TypeOK, PCs
      <3>4. QueueInv' /\ AwaitInv'
        BY <1>0, <1>1, <2>3, <3>1, <3>2, TasksAssumption
           DEF TypeInv, TypeOK, QueueInv, AwaitInv, Holding, Awaiting, Task
      <3>5. QED
        BY <1>5, <2>3, <3>3, <3>4 DEF TermTimedOut, TypeInv, TypeOK
    <2>4. QED
      BY <1>5, <2>1, <2>2, <2>3 DEF TermTimedOut
  <1>6. QED
    BY <1>3, <1>4, <1>5 DEF StopStep

\* destroy() begins its teardown.
LEMMA DestroyTypes == TypeInv /\ DestroySession => TypeInv'
  <1> SUFFICES ASSUME TypeInv, DestroySession PROVE TypeInv'
    OBVIOUS
  <1>1. HttpError \in Outcome
    BY FailureType DEF HttpError, Kinds, Limits
  <1>2. /\ pc' \in [Task -> PCs]
        /\ on' \in [Task -> Proc \cup {None}]
        /\ after' \in [Task -> Outcome]
        /\ sig' \in [Proc -> {"none", "term", "kill"}]
        /\ procRef' \in Proc \cup {None}
        /\ lockQ' \in Seq(Caller)
        /\ log' \in Seq([caller : Caller, outcome : Outcome])
        /\ dirExists' \in BOOLEAN
        /\ QueueInv' /\ AwaitInv'
    BY <1>1, BeginStopKeeps, TasksAssumption DEF DestroySession
  <1>3. QED
    BY <1>2 DEF DestroySession, TypeInv, TypeOK

\* The steps of a subprocess leave the tasks alone.
LEMMA ProcTypes ==
  ASSUME TypeInv, NEW p \in Proc, ProcStep(p)
  PROVE  TypeInv'
  <1>1. UNCHANGED <<inDict, procRef, lockQ, sig, taskVars, log, atDestroy>>
    BY DEF ProcStep, Boot, Answer, Crash, ObeyTerm, ObeyKill, Exit, Reap
  <1>2. QueueInv' /\ AwaitInv'
    BY <1>1 DEF TypeInv, QueueInv, AwaitInv, taskVars
  <1>3. dirExists' \in BOOLEAN
    BY DEF ProcStep, Boot, Answer, Crash, ObeyTerm, ObeyKill, Exit, Reap, TypeInv, TypeOK
  <1>4. os' \in [Proc -> {"none", "boot", "live", "exited", "reaped"}]
    BY DEF ProcStep, Boot, Answer, Crash, ObeyTerm, ObeyKill, Exit, Reap, TypeInv, TypeOK
  <1>5. code' \in [Proc -> Endings \cup {"none", "term", "kill"}]
    BY FaultsAssumption
       DEF ProcStep, Boot, Answer, Crash, ObeyTerm, ObeyKill, Exit, Reap, TypeInv, TypeOK
  <1>6. /\ inbox' \in [Proc -> Seq(Caller)]
        /\ pipe' \in [Proc -> Seq([from : Caller, torn : BOOLEAN])]
    <2>1. CASE Answer(p)
      <3>1. inbox[p] \in Seq(Caller) /\ inbox[p] # <<>>
        BY <2>1 DEF Answer, TypeInv, TypeOK
      <3>2. Head(inbox[p]) \in Caller /\ Tail(inbox[p]) \in Seq(Caller)
        BY <3>1, HeadTailProperties
      <3>3. PICK torn \in {FALSE, TornFrame} :
              pipe' = [pipe EXCEPT ![p] =
                         Append(@, [from |-> Head(inbox[p]), torn |-> torn])]
        BY <2>1 DEF Answer
      <3>4. [from |-> Head(inbox[p]), torn |-> torn] \in [from : Caller, torn : BOOLEAN]
        BY <3>2, <3>3, FaultsAssumption
      <3>5. pipe' \in [Proc -> Seq([from : Caller, torn : BOOLEAN])]
        BY <3>3, <3>4, AppendProperties DEF TypeInv, TypeOK
      <3>6. inbox' \in [Proc -> Seq(Caller)]
        BY <2>1, <3>2 DEF Answer, TypeInv, TypeOK
      <3>7. QED
        BY <3>5, <3>6
    <2>2. CASE ~Answer(p)
      <3>1. UNCHANGED <<pipe, inbox>>
        BY <2>2 DEF ProcStep, Boot, Crash, ObeyTerm, ObeyKill, Exit, Reap
      <3>2. QED
        BY <3>1 DEF TypeInv, TypeOK
    <2>3. QED
      BY <2>1, <2>2
  <1>7. QED
    BY <1>1, <1>2, <1>3, <1>4, <1>5, <1>6 DEF TypeInv, TypeOK, taskVars

\* Every step, by who takes it.
LEMMA TypeStep == TypeInv /\ [Next]_vars => TypeInv'
  <1> SUFFICES ASSUME TypeInv, [Next]_vars PROVE TypeInv'
    OBVIOUS
  <1>1. CASE UNCHANGED vars
    BY <1>1 DEF vars, procVars, taskVars, TypeInv, TypeOK, QueueInv, AwaitInv
  <1>2. CASE Next
    BY <1>2, CreateTypes, ExecTypes, ExecStopTypes, StopTypes, DestroyTypes, ProcTypes
       DEF Next, ExecStep
  <1>3. QED
    BY <1>1, <1>2

\* Before the session is created.
LEMMA TypeInit == Init => TypeInv
  <1> SUFFICES ASSUME Init PROVE TypeInv
    OBVIOUS
  <1>1. HttpError \in Outcome
    BY FailureType DEF HttpError, Kinds, Limits
  <1>2. /\ <<>> \in Seq(Caller)
        /\ <<>> \in Seq([from : Caller, torn : BOOLEAN])
        /\ <<>> \in Seq([caller : Caller, outcome : Outcome])
    OBVIOUS
  <1>3. TypeOK
    BY <1>1, <1>2 DEF Init, TypeOK, PCs
  <1>4. QueueInv /\ AwaitInv
    BY DEF Init, QueueInv, AwaitInv, Holding, Awaiting, Task
  <1>5. QED
    BY <1>3, <1>4 DEF TypeInv

\* The state keeps its types, the lock is held by the call that is past its
\* acquisition, and every await is about a subprocess that was forked.
THEOREM TypesCorrect == Spec => []TypeOK
  <1>1. Spec => []TypeInv
    BY TypeInit, TypeStep, PTL DEF Spec
  <1>2. QED
    BY <1>1, PTL DEF TypeInv

-----------------------------------------------------------------------------
(* An answer belongs to the call that returns it.  The invariant follows    *)
(* the code block from the write to the answer: a runner that `_proc` does  *)
(* not refer to yet has seen no code block, the one it refers to has at most*)
(* one under way, that of the lock's holder, and a call that ends without   *)
(* its answer leaves `_proc` empty.                                        *)

\* A subprocess that was not handed over by its start() is untouched.
FreshInv == \A p \in Proc : pc[p] \in {"new", "queued", "spawn"} =>
              inbox[p] = <<>> /\ pipe[p] = <<>> /\ procRef # p

\* No call arrives before create_session has returned.
CreateInv == pc[Create] # "done" => \A c \in Caller : pc[c] = "new"

\* The runner that a call writes to and reads from is `_proc`, or `_proc` is gone.
OnInv == \A c \in Caller : pc[c] \in {"send", "read", "eof_wait", "drain"} =>
           procRef \in {None, on[c]}

\* No answer is torn.
WholeInv == \A p \in Proc : \A i \in 1..Len(pipe[p]) : ~pipe[p][i].torn

\* What a call returns after its stop() is a failure.
AfterInv == \A t \in Task : after[t].kind # "answered"

FlowInv == /\ FreshInv /\ CreateInv /\ OnInv /\ WholeInv /\ AfterInv
           /\ OneExchange /\ ResponseAttribution
-----------------------------------------------------------------------------
(* Pieces of the handlers and FlowInv.                                     *)

\* An outcome that is a failure, or an answer to its own caller, can be logged.
LEMMA LogKeeps ==
  ASSUME TypeInv, ResponseAttribution, NEW c \in Caller, NEW o \in Outcome,
         o.kind = "answered" => o.from = c,
         log' = Append(log, [caller |-> c, outcome |-> o])
  PROVE  ResponseAttribution'
  <1> DEFINE entry == [caller |-> c, outcome |-> o]
  <1>1. /\ log \in Seq([caller : Caller, outcome : Outcome])
        /\ entry \in [caller : Caller, outcome : Outcome]
    BY DEF TypeInv, TypeOK
  <1>2. /\ Len(log') = Len(log) + 1 /\ Len(log) \in Nat
        /\ log'[Len(log) + 1] = entry
        /\ \A i \in 1..Len(log) : log'[i] = log[i]
    BY <1>1, AppendProperties
  <1>3. entry.caller = c /\ entry.outcome = o
    OBVIOUS
  <1> HIDE DEF entry
  <1>4. ASSUME NEW i \in 1..Len(log'), log'[i].outcome.kind = "answered"
        PROVE  log'[i].outcome.from = log'[i].caller
    <2>1. CASE i = Len(log) + 1
      BY <1>2, <1>3, <1>4, <2>1
    <2>2. CASE i \in 1..Len(log)
      BY <1>2, <1>4, <2>2 DEF ResponseAttribution, Answered
    <2>3. QED
      BY <1>2, <2>1, <2>2
  <1>5. QED
    BY <1>4 DEF ResponseAttribution, Answered

\* Nothing new on the pipes: each is as it was or emptied.
Shrinks == \A p \in Proc : /\ inbox'[p] = inbox[p] \/ inbox'[p] = <<>>
                           /\ pipe'[p] = pipe[p] \/ pipe'[p] = <<>>

\* No answer gets torn when pipes stay or are emptied.
LEMMA WholeKeeps ==
  ASSUME TypeInv, WholeInv, Shrinks
  PROVE  WholeInv'
  <1> SUFFICES ASSUME NEW p \in Proc, NEW i \in 1..Len(pipe'[p])
               PROVE  ~pipe'[p][i].torn
    BY DEF WholeInv
  <1>1. pipe'[p] = pipe[p]
    BY DEF Shrinks
  <1>2. QED
    BY <1>1 DEF WholeInv

\* Where `_proc`, the lock's holder and what it awaits stay as they are, so does
\* the exchange under way.
LEMMA ExchangeKeeps ==
  ASSUME TypeInv, OneExchange, Shrinks, procRef' = procRef, lockQ' = lockQ,
         \A d \in Caller : pc[d] \in Awaiting => pc'[d] \in Awaiting
  PROVE  OneExchange'
  <1> SUFFICES ASSUME NEW p \in Proc, procRef = p
               PROVE  /\ Len(inbox'[p]) + Len(pipe'[p]) <= 1
                      /\ inbox'[p] # <<>> \/ pipe'[p] # <<>> => HolderOf(p)'
    BY DEF OneExchange
  <1>1. /\ Len(inbox[p]) + Len(pipe[p]) <= 1
        /\ inbox[p] # <<>> \/ pipe[p] # <<>> => HolderOf(p)
    BY DEF OneExchange
  <1>2. /\ inbox'[p] = inbox[p] \/ inbox'[p] = <<>>
        /\ pipe'[p] = pipe[p] \/ pipe'[p] = <<>>
    BY DEF Shrinks
  <1>3. /\ inbox[p] \in Seq(Caller)
        /\ pipe[p] \in Seq([from : Caller, torn : BOOLEAN])
        /\ lockQ \in Seq(Caller)
    BY DEF TypeInv, TypeOK
  <1>4. Len(inbox'[p]) + Len(pipe'[p]) <= 1
    <2> DEFINE x == Len(inbox[p])
               y == Len(pipe[p])
               xn == Len(inbox'[p])
               yn == Len(pipe'[p])
    <2>1. x \in Nat /\ y \in Nat /\ x + y <= 1
      BY <1>1, <1>3, LenProperties
    <2>2. (xn = x \/ xn = 0) /\ (yn = y \/ yn = 0)
      BY <1>2
    <2> HIDE DEF x, y, xn, yn
    <2>3. xn + yn <= 1
      BY <2>1, <2>2
    <2>4. QED
      BY <2>3 DEF xn, yn
  <1>5. ASSUME inbox'[p] # <<>> \/ pipe'[p] # <<>>
        PROVE  HolderOf(p)'
    <2>1. HolderOf(p)
      BY <1>1, <1>2, <1>5
    <2>2. lockQ # <<>> /\ Head(lockQ) \in Caller
      BY <1>3, <2>1 DEF HolderOf
    <2>3. QED
      BY <1>2, <2>1, <2>2 DEF HolderOf, Awaiting
  <1>6. QED
    BY <1>4, <1>5

\* A task ends while `_proc` is or becomes None.
LEMMA AfterStopFlow ==
  ASSUME TypeInv, FlowInv, NEW t \in Caller \cup {Destroy}, NEW o \in Outcome,
         o.kind # "answered", t \in Caller => pc[t] \in Awaiting,
         AfterStop(t, o), procRef' = None, after' = after, Shrinks
  PROVE  FlowInv'
  <1>1. /\ t \in Task /\ t # Create
        /\ pc' = [pc EXCEPT ![t] = "done"] /\ on' = [on EXCEPT ![t] = None]
    BY TasksAssumption DEF AfterStop, Return, Suspend, Task
  <1>2. FreshInv'
    <2> SUFFICES ASSUME NEW p \in Proc, pc'[p] \in {"new", "queued", "spawn"}
                 PROVE  inbox'[p] = <<>> /\ pipe'[p] = <<>> /\ procRef' # p
      BY DEF FreshInv
    <2>1. p \in Task /\ p # t /\ pc[p] = pc'[p] /\ p # None
      BY <1>1, TasksAssumption DEF TypeInv, TypeOK, Task, Proc
    <2>2. QED
      BY <2>1 DEF FlowInv, FreshInv, Shrinks
  <1>3. CreateInv'
    BY <1>1, TasksAssumption
       DEF TypeInv, TypeOK, FlowInv, CreateInv, Task, Awaiting
  <1>4. OnInv'
    BY <1>1 DEF TypeInv, TypeOK, FlowInv, OnInv, Task
  <1>5. WholeInv' /\ AfterInv'
    BY WholeKeeps DEF FlowInv, AfterInv
  <1>6. OneExchange'
    BY TasksAssumption DEF OneExchange, Proc
  <1>7. ResponseAttribution'
    <2>1. CASE t = Destroy
      BY <2>1 DEF AfterStop, FlowInv, ResponseAttribution, Answered
    <2>2. CASE t \in Caller
      BY <2>2, TasksAssumption, LogKeeps DEF AfterStop, Return, FlowInv
    <2>3. QED
      BY <2>1, <2>2
  <1>8. QED
    BY <1>2, <1>3, <1>4, <1>5, <1>6, <1>7 DEF FlowInv

\* A task moves on to an await about `_proc`, with no write.
LEMMA SuspendFlow ==
  ASSUME TypeInv, FlowInv, NEW t \in Caller \cup {Destroy}, NEW where \in Awaiting,
         t \in Caller => pc[t] \in Awaiting,
         pc[Create] # "done" => t = Destroy,
         Suspend(t, where, procRef), procRef # None, procRef' = procRef, Shrinks,
         lockQ' = lockQ, log' = log,
         \A u \in Task : after'[u].kind # "answered"
  PROVE  FlowInv'
  <1>1. /\ t \in Task /\ t # Create
        /\ pc' = [pc EXCEPT ![t] = where] /\ on' = [on EXCEPT ![t] = procRef]
        /\ where \notin {"new", "queued", "spawn", "done"}
    BY TasksAssumption DEF Suspend, Task, Awaiting
  <1>2. FreshInv'
    <2> SUFFICES ASSUME NEW p \in Proc, pc'[p] \in {"new", "queued", "spawn"}
                 PROVE  inbox'[p] = <<>> /\ pipe'[p] = <<>> /\ procRef' # p
      BY DEF FreshInv
    <2>1. p \in Task /\ p # t /\ pc[p] = pc'[p]
      BY <1>1 DEF TypeInv, TypeOK, Task, Proc
    <2>2. QED
      BY <2>1 DEF FlowInv, FreshInv, Shrinks
  <1>3. CreateInv'
    BY <1>1, TasksAssumption
       DEF TypeInv, TypeOK, FlowInv, CreateInv, Task
  <1>4. OnInv'
    BY <1>1 DEF TypeInv, TypeOK, FlowInv, OnInv, Task
  <1>5. WholeInv' /\ AfterInv'
    BY WholeKeeps DEF FlowInv, AfterInv
  <1>6. OneExchange'
    <2>1. \A d \in Caller : pc[d] \in Awaiting => pc'[d] \in Awaiting
      BY <1>1 DEF TypeInv, TypeOK, Task
    <2>2. QED
      BY <2>1, ExchangeKeeps DEF FlowInv
  <1>7. ResponseAttribution'
    BY DEF FlowInv, ResponseAttribution, Answered
  <1>8. QED
    BY <1>2, <1>3, <1>4, <1>5, <1>6, <1>7 DEF FlowInv

\* stop() up to its first await.
LEMMA BeginStopFlow ==
  ASSUME TypeInv, FlowInv, NEW t \in Caller \cup {Destroy}, NEW o \in Outcome,
         o.kind # "answered", t \in Caller => pc[t] \in Awaiting,
         BeginStop(t, o), Shrinks
  PROVE  FlowInv'
  <1>1. CASE Forget(t, o) /\ UNCHANGED <<sig, after>>
    BY <1>1, AfterStopFlow DEF Forget
  <1>2. CASE /\ procRef # None
             /\ Suspend(t, "term_wait", procRef)
             /\ after' = [after EXCEPT ![t] = o]
             /\ UNCHANGED <<procRef, lockQ, log, dirExists>>
    <2>1. \A u \in Task : after'[u].kind # "answered"
      BY <1>2 DEF FlowInv, AfterInv, TypeInv, TypeOK
    <2>2. pc[Create] # "done" => t = Destroy
      BY DEF FlowInv, CreateInv, Awaiting
    <2>3. QED
      BY <1>2, <2>1, <2>2, SuspendFlow DEF Awaiting
  <1>3. QED
    BY <1>1, <1>2 DEF BeginStop

\* An execute() that ends while its runner owes nothing, or while `_proc` is None.
LEMMA ReturnFlow ==
  ASSUME TypeInv, FlowInv, NEW c \in Caller, NEW o \in Outcome, NEW q,
         o.kind = "answered" => o.from = c,
         Return(c, o, q), pc[Create] = "done",
         procRef' = procRef, after' = after,
         Shrinks,
         \A p \in Proc : procRef = p => inbox'[p] = <<>> /\ pipe'[p] = <<>>
  PROVE  FlowInv'
  <1>1. /\ c \in Task /\ c # Create
        /\ pc' = [pc EXCEPT ![c] = "done"] /\ on' = [on EXCEPT ![c] = None]
        /\ log' = Append(log, [caller |-> c, outcome |-> o])
    BY TasksAssumption DEF Return, Suspend, Task
  <1>2. FreshInv'
    BY <1>1 DEF TypeInv, TypeOK, Task, Proc, FlowInv, FreshInv, Shrinks
  <1>3. CreateInv' /\ OnInv'
    BY <1>1, TasksAssumption DEF TypeInv, TypeOK, FlowInv, CreateInv, OnInv, Task
  <1>4. WholeInv' /\ AfterInv'
    BY WholeKeeps DEF FlowInv, AfterInv
  <1>5. OneExchange'
    <2> SUFFICES ASSUME NEW p \in Proc, procRef' = p
                 PROVE  /\ Len(inbox'[p]) + Len(pipe'[p]) <= 1
                        /\ inbox'[p] = <<>> /\ pipe'[p] = <<>>
      BY DEF OneExchange
    <2>1. inbox'[p] = <<>> /\ pipe'[p] = <<>>
      OBVIOUS
    <2>2. Len(inbox'[p]) = 0 /\ Len(pipe'[p]) = 0
      BY <2>1
    <2>3. QED
      BY <2>1, <2>2
  <1>6. ResponseAttribution'
    BY <1>1, LogKeeps DEF FlowInv
  <1>7. QED
    BY <1>2, <1>3, <1>4, <1>5, <1>6 DEF FlowInv

\* A runner that has no code block under way is written one, for the holder.
LEMMA WriteFlow ==
  ASSUME TypeInv, FlowInv, NEW c \in Caller, NEW p \in Proc,
         NEW q \in Seq(Caller), q # <<>>, Head(q) = c,
         pc[Create] = "done", pc[p] \notin {"new", "queued"},
         p # c => pc[p] # "spawn",
         \A d \in Caller \ {c} : pc[d] \notin Holding,
         inbox[p] = <<>>, pipe[p] = <<>>,
         Write(c, p), Suspend(c, "send", p), procRef' = p, lockQ' = q,
         UNCHANGED <<pipe, after, log>>
  PROVE  FlowInv'
  <1>1. /\ c \in Task /\ c # Create
        /\ pc' = [pc EXCEPT ![c] = "send"] /\ on' = [on EXCEPT ![c] = p]
        /\ pc \in [Task -> PCs] /\ on \in [Task -> Proc \cup {None}]
    BY TasksAssumption DEF Suspend, Task, TypeInv, TypeOK
  <1>2. inbox' = inbox \/ inbox' = [inbox EXCEPT ![p] = <<c>>]
    BY DEF Write, TypeInv, TypeOK
  <1>3. /\ inbox'[p] = <<>> \/ inbox'[p] = <<c>>
        /\ \A r \in Proc : r # p => inbox'[r] = inbox[r]
    BY <1>2 DEF TypeInv, TypeOK
  <1>4. FreshInv'
    <2> SUFFICES ASSUME NEW r \in Proc, pc'[r] \in {"new", "queued", "spawn"}
                 PROVE  inbox'[r] = <<>> /\ pipe'[r] = <<>> /\ procRef' # r
      BY DEF FreshInv
    <2>1. r \in Task /\ r # c /\ pc[r] = pc'[r]
      BY <1>1 DEF Task, Proc
    <2>2. r # p
      BY <2>1
    <2>3. QED
      BY <1>3, <2>1, <2>2 DEF FlowInv, FreshInv
  <1>5. CreateInv'
    BY <1>1 DEF Task, CreateInv
  <1>6. OnInv'
    BY <1>1 DEF OnInv, Holding, Awaiting, Task
  <1>7. WholeInv' /\ AfterInv' /\ ResponseAttribution'
    BY DEF FlowInv, WholeInv, AfterInv, ResponseAttribution, Answered
  <1>8. OneExchange'
    <2>1. Len(inbox'[p]) + Len(pipe'[p]) <= 1
      <3>1. Len(pipe'[p]) = 0 /\ (Len(inbox'[p]) = 0 \/ Len(inbox'[p]) = 1)
        BY <1>3
      <3> DEFINE x == Len(inbox'[p])
      <3>2. x = 0 \/ x = 1
        BY <3>1
      <3> HIDE DEF x
      <3>3. x + 0 <= 1
        BY <3>2
      <3>4. QED
        BY <3>1, <3>3 DEF x
    <2>2. HolderOf(p)'
      <3>1. pc'[c] = "send"
        BY <1>1
      <3>2. \A i \in 1..Len(inbox'[p]) : inbox'[p][i] = c
        BY <1>3
      <3>3. \A i \in 1..Len(pipe'[p]) : pipe'[p][i].from = c
        OBVIOUS
      <3>4. QED
        BY <3>1, <3>2, <3>3 DEF HolderOf
    <2>3. QED
      BY <2>1, <2>2 DEF OneExchange
  <1>9. QED
    BY <1>4, <1>5, <1>6, <1>7, <1>8 DEF FlowInv

\* A fork leaves the pipes and `_proc` alone.
LEMMA ForkFlow ==
  ASSUME TypeInv, FlowInv, NEW c \in Caller, NEW q,
         pc[Create] = "done", pc[c] \in {"new", "queued"},
         lockQ = <<>> \/ q = lockQ,
         Fork(c), lockQ' = q, UNCHANGED <<procRef, inbox, pipe, after, log>>
  PROVE  FlowInv'
  <1>1. /\ c \in Task /\ c # Create /\ c \in Proc
        /\ pc' = [pc EXCEPT ![c] = "spawn"] /\ on' = [on EXCEPT ![c] = c]
        /\ pc \in [Task -> PCs] /\ on \in [Task -> Proc \cup {None}]
    BY TasksAssumption DEF Fork, Suspend, Task, Proc, TypeInv, TypeOK
  <1>2. FreshInv'
    BY <1>1 DEF FlowInv, FreshInv, Task, Proc
  <1>3. CreateInv' /\ OnInv'
    BY <1>1 DEF FlowInv, CreateInv, OnInv, Task
  <1>4. WholeInv' /\ AfterInv' /\ ResponseAttribution'
    BY DEF FlowInv, WholeInv, AfterInv, ResponseAttribution, Answered
  <1>5. OneExchange'
    <2> SUFFICES ASSUME NEW p \in Proc, procRef = p
                 PROVE  /\ Len(inbox[p]) + Len(pipe[p]) <= 1
                        /\ inbox[p] # <<>> \/ pipe[p] # <<>> => HolderOf(p)'
      BY DEF OneExchange
    <2>1. /\ Len(inbox[p]) + Len(pipe[p]) <= 1
          /\ inbox[p] # <<>> \/ pipe[p] # <<>> => HolderOf(p)
      BY DEF FlowInv, OneExchange
    <2>2. HolderOf(p) => HolderOf(p)'
      BY <1>1 DEF HolderOf
    <2>3. QED
      BY <2>1, <2>2
  <1>6. QED
    BY <1>2, <1>3, <1>4, <1>5 DEF FlowInv

\* A call that has not written yet finds nothing under way.
LEMMA Idle ==
  ASSUME TypeInv, FlowInv, NEW p \in Proc, procRef = p,
         lockQ = <<>> \/ pc[Head(lockQ)] \notin Awaiting
  PROVE  inbox[p] = <<>> /\ pipe[p] = <<>>
  BY DEF FlowInv, OneExchange, HolderOf, Awaiting

\* A call that gets the lock.
LEMMA EnterFlow ==
  ASSUME TypeInv, FlowInv, NEW c \in Caller, NEW q \in Seq(Caller),
         q # <<>>, Head(q) = c, lockQ = <<>> \/ q = lockQ,
         pc[Create] = "done", pc[c] \in {"new", "queued"},
         \A d \in Caller \ {c} : pc[d] \notin Holding,
         Enter(c, q), UNCHANGED <<procRef, pipe, after>>
  PROVE  FlowInv'
  <1>1. \A p \in Proc : procRef = p =>
          inbox[p] = <<>> /\ pipe[p] = <<>> /\ pc[p] \notin {"new", "queued", "spawn"}
    BY Idle DEF Awaiting, FlowInv, FreshInv
  <1>2. CASE /\ procRef # None
             /\ Write(c, procRef)
             /\ Suspend(c, "send", procRef)
             /\ lockQ' = q
             /\ UNCHANGED <<os, log>>
    <2>1. procRef \in Proc
      BY <1>2 DEF TypeInv, TypeOK
    <2>2. QED
      BY <1>1, <1>2, <2>1, WriteFlow
  <1>3. CASE /\ Fork(c)
             /\ lockQ' = q
             /\ UNCHANGED <<inbox, log>>
    BY <1>3, ForkFlow
  <1>4. CASE Return(c, HttpError, q) /\ UNCHANGED <<os, inbox>>
    <2>1. HttpError \in Outcome /\ HttpError.kind # "answered"
      BY FailureType DEF HttpError, Kinds, Limits, Failure
    <2>2. QED
      BY <1>1, <1>4, <2>1, ReturnFlow DEF Shrinks
  <1>5. QED
    BY <1>2, <1>3, <1>4 DEF Enter

-----------------------------------------------------------------------------
(* Every step keeps FlowInv, when no answer is torn.                     *)

\* The eager start of create_session.
LEMMA CreateFlow ==
  TypeInv /\ FlowInv /\ (CreateSession \/ CreateReturns) => FlowInv'
  <1> SUFFICES ASSUME TypeInv, FlowInv, CreateSession \/ CreateReturns PROVE FlowInv'
    OBVIOUS
  <1>0. /\ Create \in Task /\ Create \in Proc /\ Create \notin Caller
        /\ pc \in [Task -> PCs]
    BY TasksAssumption DEF Task, Proc, TypeInv, TypeOK
  <1>1. pc[Create] \in {"new", "spawn"} /\ \A c \in Caller : pc[c] = "new"
    BY DEF CreateSession, CreateReturns, FlowInv, CreateInv
  <1>2. PICK where \in {"spawn", "failed", "done"} : pc' = [pc EXCEPT ![Create] = where]
    BY DEF CreateSession, CreateReturns, Fork, Suspend
  <1>3. /\ UNCHANGED <<lockQ, inbox, pipe, after, log>>
        /\ procRef' = procRef \/ (procRef' = Create /\ pc'[Create] = "done")
    BY <1>0 DEF CreateSession, CreateReturns, procVars, Suspend
  <1>4. \A c \in Caller : pc'[c] = "new"
    BY <1>0, <1>1, <1>2 DEF Task
  <1>5. FreshInv'
    BY <1>0, <1>1, <1>2, <1>3 DEF FlowInv, FreshInv, Task, Proc
  <1>6. CreateInv' /\ OnInv'
    BY <1>4 DEF CreateInv, OnInv
  <1>7. WholeInv' /\ AfterInv' /\ ResponseAttribution'
    BY <1>3 DEF FlowInv, WholeInv, AfterInv, ResponseAttribution, Answered
  <1>8. OneExchange'
    <2>1. ASSUME NEW p \in Proc, procRef' = p
          PROVE  inbox[p] = <<>> /\ pipe[p] = <<>>
      <3>1. CASE procRef = p
        <4>1. lockQ = <<>> \/ pc[Head(lockQ)] = "new"
          BY <1>1 DEF TypeInv, TypeOK
        <4>2. QED
          BY <3>1, <4>1, Idle DEF Awaiting
      <3>2. CASE procRef # p
        BY <1>1, <1>3, <2>1, <3>2 DEF FlowInv, FreshInv
      <3>3. QED
        BY <3>1, <3>2
    <2>2. Len(<<>>) + Len(<<>>) <= 1
      OBVIOUS
    <2>3. QED
      BY <1>3, <2>1, <2>2 DEF OneExchange
  <1>9. QED
    BY <1>5, <1>6, <1>7, <1>8 DEF FlowInv

\* The way of a call that is answered.
LEMMA ExecFlow ==
  ASSUME TypeInv, FlowInv, NEW c \in Caller,
         \/ Arrive(c) \/ Acquire(c) \/ Spawned(c) \/ Sent(c) \/ ReadAnswer(c)
  PROVE  FlowInv'
  <1>0. /\ c \in Task /\ c \in Proc /\ c # Create
        /\ pc \in [Task -> PCs] /\ lockQ \in Seq(Caller)
    BY TasksAssumption DEF Task, Proc, TypeInv, TypeOK
  <1>1. pc[Create] = "done"
    BY DEF Arrive, Acquire, Spawned, Sent, ReadAnswer, FlowInv, CreateInv
  <1>e. HttpError \in Outcome /\ HttpError.kind # "answered"
    BY FailureType DEF HttpError, Failure, Kinds, Limits
  <1>2. CASE Arrive(c)
    <2>1. CASE Suspend(c, "done", None) /\ UNCHANGED <<lockQ, os, inbox, log>>
      <3>1. /\ pc' = [pc EXCEPT ![c] = "done"] /\ on' = [on EXCEPT ![c] = None]
            /\ pc[c] = "new" /\ UNCHANGED <<procRef, lockQ, inbox, pipe, after, log>>
        BY <1>2, <2>1 DEF Arrive, Suspend
      <3>2. FreshInv' /\ CreateInv' /\ OnInv'
        BY <1>0, <1>1, <3>1 DEF FlowInv, FreshInv, CreateInv, OnInv, Task, Proc
      <3>3. \A d \in Caller : pc[d] \in Awaiting => pc'[d] \in Awaiting
        BY <1>0, <3>1 DEF Awaiting, Task
      <3>4. OneExchange'
        BY <3>1, <3>3, ExchangeKeeps DEF FlowInv, Shrinks
      <3>5. WholeInv' /\ AfterInv' /\ ResponseAttribution'
        BY <3>1 DEF FlowInv, WholeInv, AfterInv, ResponseAttribution, Answered
      <3>6. QED
        BY <3>2, <3>4, <3>5 DEF FlowInv
    <2>2. CASE lockQ = <<>> /\ Enter(c, <<c>>)
      <3>1. <<c>> \in Seq(Caller) /\ <<c>> # <<>> /\ Head(<<c>>) = c
        OBVIOUS
      <3>2. \A d \in Caller \ {c} : pc[d] \notin Holding
        BY <2>2 DEF TypeInv, QueueInv
      <3>3. pc[c] = "new" /\ UNCHANGED <<procRef, pipe, after>>
        BY <1>2 DEF Arrive
      <3>4. QED
        BY <1>1, <2>2, <3>1, <3>2, <3>3, EnterFlow
    <2>3. CASE /\ lockQ # <<>> /\ lockQ' = Append(lockQ, c)
               /\ Suspend(c, "queued", None)
               /\ UNCHANGED <<os, inbox, log>>
      <3>1. /\ pc' = [pc EXCEPT ![c] = "queued"] /\ on' = [on EXCEPT ![c] = None]
            /\ pc[c] = "new" /\ UNCHANGED <<procRef, inbox, pipe, after, log>>
        BY <1>2, <2>3 DEF Arrive, Suspend
      <3>2. FreshInv' /\ CreateInv' /\ OnInv'
        BY <1>0, <1>1, <3>1 DEF FlowInv, FreshInv, CreateInv, OnInv, Task, Proc
      <3>3. lockQ' # <<>> /\ Head(lockQ') = Head(lockQ) /\ Head(lockQ) \in Caller
        BY <1>0, <2>3, AppendProperties
      <3>4. \A p \in Proc : HolderOf(p) => HolderOf(p)'
        BY <1>0, <3>1, <3>3 DEF HolderOf, Task
      <3>5. OneExchange'
        BY <3>1, <3>4 DEF FlowInv, OneExchange
      <3>6. WholeInv' /\ AfterInv' /\ ResponseAttribution'
        BY <3>1 DEF FlowInv, WholeInv, AfterInv, ResponseAttribution, Answered
      <3>7. QED
        BY <3>2, <3>5, <3>6 DEF FlowInv
    <2>4. QED
      BY <1>2, <2>1, <2>2, <2>3 DEF Arrive
  <1>3. CASE Acquire(c)
    <2>1. \A d \in Caller \ {c} : pc[d] \notin Holding
      BY <1>3 DEF Acquire, TypeInv, QueueInv
    <2>2. QED
      BY <1>0, <1>1, <1>3, <2>1, EnterFlow DEF Acquire
  <1>4. CASE Spawned(c)
    <2>1. /\ pc[c] = "spawn" /\ lockQ # <<>> /\ Head(lockQ) = c
          /\ \A d \in Caller \ {c} : pc[d] \notin Holding
      BY <1>4 DEF Spawned, TypeInv, QueueInv, Holding
    <2>2. inbox[c] = <<>> /\ pipe[c] = <<>>
      BY <1>0, <2>1 DEF FlowInv, FreshInv
    <2>3. QED
      BY <1>0, <1>1, <1>4, <2>1, <2>2, WriteFlow DEF Spawned
  <1>5. CASE Sent(c)
    <2>1. CASE procRef = None /\ Return(c, HttpError, lockQ)
      <3>1. Shrinks /\ after' = after /\ procRef' = procRef
        BY <1>5 DEF Sent, procVars, Shrinks
      <3>2. \A p \in Proc : procRef # p
        BY <2>1, TasksAssumption DEF Proc
      <3>3. QED
        BY <1>1, <1>e, <2>1, <3>1, <3>2, ReturnFlow
    <2>2. CASE procRef # None /\ Suspend(c, "read", procRef) /\ UNCHANGED <<lockQ, log>>
      <3>1. Shrinks /\ after' = after /\ procRef' = procRef /\ pc[c] = "send"
        BY <1>5 DEF Sent, procVars, Shrinks
      <3>2. \A u \in Task : after'[u].kind # "answered"
        BY <3>1 DEF FlowInv, AfterInv
      <3>3. QED
        BY <1>1, <2>2, <3>1, <3>2, SuspendFlow DEF Awaiting
    <2>3. QED
      BY <1>5, <2>1, <2>2 DEF Sent
  <1>6. CASE ReadAnswer(c)
    <2> DEFINE p == on[c]
    <2>1. /\ pc[c] = "read" /\ pipe[p] # <<>> /\ p \in Proc
          /\ UNCHANGED <<procRef, inbox, after>>
          /\ pipe[p] \in Seq([from : Caller, torn : BOOLEAN])
          /\ procRef \in {None, p}
      BY <1>0, <1>6
         DEF ReadAnswer, TypeInv, TypeOK, AwaitInv, Awaiting, FlowInv, OnInv
    <2>2. CASE procRef = None
      <3>1. Return(c, HttpError, lockQ) /\ UNCHANGED pipe
        BY <1>6, <2>2 DEF ReadAnswer
      <3>2. Shrinks /\ \A r \in Proc : procRef # r
        BY <2>1, <2>2, <3>1, TasksAssumption DEF Shrinks, Proc
      <3>3. QED
        BY <1>1, <1>e, <2>1, <3>1, <3>2, ReturnFlow
    <2>3. CASE procRef = p
      <3>1. /\ lockQ # <<>> /\ Head(lockQ) = c
            /\ \A i \in 1..Len(pipe[p]) : pipe[p][i].from = c
            /\ Len(inbox[p]) + Len(pipe[p]) <= 1
        BY <2>1, <2>3 DEF FlowInv, OneExchange, HolderOf, TypeInv, QueueInv, Holding, Awaiting
      <3>2. /\ Len(pipe[p]) \in Nat \ {0} /\ Len(inbox[p]) \in Nat
            /\ inbox[p] \in Seq(Caller)
        BY <2>1, LenProperties, EmptySeq DEF TypeInv, TypeOK
      <3>3. Len(pipe[p]) = 1 /\ Len(inbox[p]) = 0
        <4> DEFINE x == Len(inbox[p])
                   y == Len(pipe[p])
        <4>1. x \in Nat /\ y \in Nat \ {0} /\ x + y <= 1
          BY <3>1, <3>2
        <4> HIDE DEF x, y
        <4>2. x = 0 /\ y = 1
          BY <4>1
        <4>3. QED
          BY <4>2 DEF x, y
      <3>4. inbox[p] = <<>> /\ Tail(pipe[p]) = <<>> /\ Head(pipe[p]) = pipe[p][1]
        BY <2>1, <3>2, <3>3, LengthZero, LengthOne
      <3>5. Head(pipe[p]).from = c /\ ~Head(pipe[p]).torn
        BY <2>1, <3>1, <3>3, <3>4 DEF FlowInv, WholeInv
      <3> DEFINE o == AnswerOf(Head(pipe[p]), on[c])
      <3>6. /\ Return(c, o, lockQ)
            /\ pipe' = [pipe EXCEPT ![p] = Tail(pipe[p])]
        BY <1>6, <2>1, <2>3, <3>5, TasksAssumption DEF ReadAnswer, Proc
      <3>7. o.from = c /\ o \in Outcome
        BY <2>1, <3>5 DEF AnswerOf, Outcome, Kinds, Limits
      <3>8. pipe' = [pipe EXCEPT ![p] = <<>>]
        BY <3>4, <3>6
      <3>9. Shrinks /\ inbox'[p] = <<>> /\ pipe'[p] = <<>>
        BY <2>1, <3>4, <3>8 DEF Shrinks, TypeInv, TypeOK
      <3> HIDE DEF o
      <3>10. QED
        BY <1>1, <2>1, <2>3, <3>6, <3>7, <3>9, ReturnFlow
    <2>4. QED
      BY <2>1, <2>2, <2>3
  <1>7. QED
    BY <1>2, <1>3, <1>4, <1>5, <1>6

\* The ways on which a call stops the runner.
LEMMA ExecStopFlow ==
  ASSUME TypeInv, FlowInv, NEW c \in Caller,
         SendFails(c) \/ ReadEof(c) \/ EofWaited(c) \/ TimeOut(c) \/ Drained(c)
  PROVE  FlowInv'
  <1>0. c \in Task /\ c \in Caller \cup {Destroy} /\ c # Destroy
    BY TasksAssumption DEF Task
  <1>1. pc[c] \in Awaiting /\ pc[Create] = "done"
    BY DEF SendFails, ReadEof, EofWaited, TimeOut, Reading, Drained, Awaiting,
           FlowInv, CreateInv
  <1>2. /\ HttpError \in Outcome /\ TimedOut \in Outcome
        /\ HttpError.kind # "answered" /\ TimedOut.kind # "answered"
        /\ \A kind \in {"pipe_closed", "exited"}, limit \in {"none", "memory", "cpu", "file_size"},
              p \in Proc \cup {None} :
             /\ Failure(kind, limit, p) \in Outcome
             /\ Failure(kind, limit, p).kind # "answered"
    BY FailureType DEF HttpError, TimedOut, Failure, Kinds, Limits
  <1>3. Shrinks
    BY DEF SendFails, ReadEof, EofWaited, TimeOut, Drained, Shrinks, TypeInv, TypeOK
  <1>4. ASSUME NEW o \in Outcome, o.kind # "answered", BeginStop(c, o)
        PROVE  FlowInv'
    BY <1>0, <1>1, <1>3, <1>4, BeginStopFlow
  <1>5. ASSUME NEW where \in {"eof_wait", "drain"}, procRef # None,
               Suspend(c, where, procRef),
               UNCHANGED <<procRef, lockQ, sig, after, log, dirExists>>
        PROVE  FlowInv'
    <2>1. where \in Awaiting /\ \A u \in Task : after'[u].kind # "answered"
      BY <1>5 DEF Awaiting, FlowInv, AfterInv
    <2>2. QED
      BY <1>0, <1>1, <1>3, <1>5, <2>1, SuspendFlow
  <1>6. ASSUME EndOfRunner(c)
        PROVE  FlowInv'
    <2>1. CASE /\ procRef = None
               /\ Return(c, HttpError, lockQ)
               /\ UNCHANGED <<procRef, sig, after, dirExists>>
      <3>1. \A p \in Proc : procRef # p
        BY <2>1, TasksAssumption DEF Proc
      <3>2. QED
        BY <1>1, <1>2, <1>3, <2>1, <3>1, ReturnFlow
    <2>2. CASE procRef # None
      <3>1. PICK limit \in {"none", "memory", "cpu", "file_size"} :
              BeginStop(c, Failure("exited", limit, procRef))
        BY <1>6, <2>2, ClassifyType DEF EndOfRunner
      <3>2. procRef \in Proc \cup {None}
        BY DEF TypeInv, TypeOK
      <3>3. QED
        BY <1>2, <1>4, <3>1, <3>2
    <2>3. QED
      BY <1>6, <2>1, <2>2 DEF EndOfRunner
  <1>7. CASE SendFails(c)
    <2>1. on[c] \in Proc \cup {None}
      BY <1>0 DEF TypeInv, TypeOK
    <2>2. QED
      BY <1>2, <1>4, <1>7, <2>1 DEF SendFails
  <1>8. CASE ReadEof(c)
    BY <1>5, <1>6, <1>8 DEF ReadEof
  <1>9. CASE EofWaited(c)
    BY <1>6, <1>9 DEF EofWaited
  <1>10. CASE TimeOut(c)
    BY <1>2, <1>4, <1>5, <1>10 DEF TimeOut
  <1>11. CASE Drained(c)
    BY <1>2, <1>4, <1>11 DEF Drained
  <1>12. QED
    BY <1>7, <1>8, <1>9, <1>10, <1>11

\* The awaits of stop().
LEMMA StopFlow ==
  ASSUME TypeInv, FlowInv, NEW t \in Caller \cup {Destroy}, StopStep(t)
  PROVE  FlowInv'
  <1>0. /\ t \in Task /\ HttpError \in Outcome /\ after[t] \in Outcome
        /\ HttpError.kind # "answered" /\ after[t].kind # "answered"
        /\ t \in Caller => pc[t] \in Awaiting
    <2>1. t \in Task /\ HttpError \in Outcome /\ HttpError.kind # "answered"
      BY FailureType DEF Task, HttpError, Failure, Kinds, Limits
    <2>2. after[t] \in Outcome /\ after[t].kind # "answered"
      BY <2>1 DEF TypeInv, TypeOK, FlowInv, AfterInv
    <2>3. pc[t] \in Awaiting
      BY DEF StopStep, TermWaited, TermTimedOut, KillWaited, Awaiting
    <2>4. QED
      BY <2>1, <2>2, <2>3
  <1>1. Shrinks /\ after' = after
    BY DEF StopStep, TermWaited, TermTimedOut, KillWaited, procVars, Shrinks
  <1>2. ASSUME NEW o \in Outcome, o.kind # "answered", AfterStop(t, o), procRef' = None
        PROVE  FlowInv'
    BY <1>0, <1>1, <1>2, AfterStopFlow
  <1>3. CASE TermWaited(t) \/ KillWaited(t)
    BY <1>0, <1>2, <1>3 DEF TermWaited, KillWaited, Forget
  <1>4. CASE TermTimedOut(t)
    <2>1. CASE procRef = None /\ StopRaises(t)
      BY <1>0, <1>2, <2>1 DEF StopRaises
    <2>2. CASE Forget(t, after[t])
      BY <1>0, <1>2, <2>2 DEF Forget
    <2>3. CASE /\ procRef # None
               /\ Suspend(t, "kill_wait", procRef)
               /\ UNCHANGED <<procRef, lockQ, log, dirExists>>
      <3>1. \A u \in Task : after'[u].kind # "answered"
        BY <1>1 DEF FlowInv, AfterInv
      <3>2. pc[Create] # "done" => t = Destroy
        BY <1>0 DEF FlowInv, CreateInv, Awaiting
      <3>3. QED
        BY <1>0, <1>1, <2>3, <3>1, <3>2, SuspendFlow DEF Awaiting
    <2>4. QED
      BY <1>4, <2>1, <2>2, <2>3 DEF TermTimedOut
  <1>5. QED
    BY <1>3, <1>4 DEF StopStep

\* destroy() begins its teardown.
LEMMA DestroyFlow == TypeInv /\ FlowInv /\ DestroySession => FlowInv'
  <1> SUFFICES ASSUME TypeInv, FlowInv, DestroySession PROVE FlowInv'
    OBVIOUS
  <1>1. HttpError \in Outcome /\ HttpError.kind # "answered"
    BY FailureType DEF HttpError, Failure, Kinds, Limits
  <1>2. Shrinks /\ BeginStop(Destroy, HttpError)
    BY DEF DestroySession, Shrinks
  <1>3. QED
    BY <1>1, <1>2, BeginStopFlow, TasksAssumption

\* A step of a subprocess: it moves a block from its inbox to its pipe.
LEMMA ProcFlow ==
  ASSUME ~TornFrame, TypeInv, FlowInv, NEW p \in Proc, ProcStep(p)
  PROVE  FlowInv'
  <1>1. UNCHANGED <<procRef, lockQ, taskVars, log>>
    BY DEF ProcStep, Boot, Answer, Crash, ObeyTerm, ObeyKill, Exit, Reap
  <1>2. CreateInv' /\ OnInv' /\ AfterInv' /\ ResponseAttribution'
    BY <1>1 DEF taskVars, FlowInv, CreateInv, OnInv, AfterInv, ResponseAttribution, Answered
  <1>3. CASE Answer(p)
    <2> DEFINE a == [from |-> Head(inbox[p]), torn |-> FALSE]
    <2>1. /\ inbox[p] # <<>> /\ inbox[p] \in Seq(Caller)
          /\ pipe[p] \in Seq([from : Caller, torn : BOOLEAN])
      BY <1>3 DEF Answer, TypeInv, TypeOK
    <2>2. Head(inbox[p]) \in Caller /\ a \in [from : Caller, torn : BOOLEAN]
      BY <2>1, HeadTailProperties
    <2>3. /\ pipe' = [pipe EXCEPT ![p] = Append(pipe[p], a)]
          /\ inbox' = [inbox EXCEPT ![p] = Tail(inbox[p])]
      BY <1>3, FaultsAssumption DEF Answer
    <2>4. a.from = Head(inbox[p]) /\ ~a.torn
      OBVIOUS
    <2> HIDE DEF a
    <2>5. /\ pipe'[p] = Append(pipe[p], a) /\ inbox'[p] = Tail(inbox[p])
          /\ \A r \in Proc : r # p => pipe'[r] = pipe[r] /\ inbox'[r] = inbox[r]
      BY <2>3 DEF TypeInv, TypeOK
    <2>6. /\ Len(pipe'[p]) = Len(pipe[p]) + 1 /\ Len(pipe[p]) \in Nat
          /\ pipe'[p][Len(pipe[p]) + 1] = a
          /\ \A i \in 1..Len(pipe[p]) : pipe'[p][i] = pipe[p][i]
      BY <2>1, <2>2, <2>5, AppendProperties, LenProperties
    <2>7. FreshInv'
      BY <1>1, <2>1, <2>5 DEF taskVars, FlowInv, FreshInv
    <2>8. WholeInv'
      <3>1. \A i \in 1..Len(pipe'[p]) : ~pipe'[p][i].torn
        <4> SUFFICES ASSUME NEW i \in 1..Len(pipe'[p]) PROVE ~pipe'[p][i].torn
          OBVIOUS
        <4>1. CASE i = Len(pipe[p]) + 1
          BY <2>4, <2>6, <4>1
        <4>2. CASE i \in 1..Len(pipe[p])
          BY <2>6, <4>2 DEF FlowInv, WholeInv
        <4>3. QED
          BY <2>6, <4>1, <4>2
      <3>2. QED
        BY <2>5, <3>1 DEF FlowInv, WholeInv
    <2>9. OneExchange'
      <3>1. ASSUME NEW r \in Proc, r # p, procRef' = r
            PROVE  /\ Len(inbox'[r]) + Len(pipe'[r]) <= 1
                   /\ inbox'[r] # <<>> \/ pipe'[r] # <<>> => HolderOf(r)'
        BY <1>1, <2>5, <3>1 DEF taskVars, FlowInv, OneExchange, HolderOf
      <3>2. ASSUME procRef' = p
            PROVE  /\ Len(inbox'[p]) + Len(pipe'[p]) <= 1
                   /\ inbox'[p] # <<>> \/ pipe'[p] # <<>> => HolderOf(p)'
        <4>1. HolderOf(p) /\ Len(inbox[p]) + Len(pipe[p]) <= 1
          BY <1>1, <2>1, <3>2 DEF FlowInv, OneExchange
        <4>2. Len(inbox[p]) \in Nat \ {0}
          BY <2>1, EmptySeq
        <4>3. Len(inbox[p]) = 1 /\ Len(pipe[p]) = 0
          <5> DEFINE x == Len(inbox[p])
                     y == Len(pipe[p])
          <5>1. x \in Nat \ {0} /\ y \in Nat /\ x + y <= 1
            BY <2>6, <4>1, <4>2
          <5> HIDE DEF x, y
          <5>2. x = 1 /\ y = 0
            BY <5>1
          <5>3. QED
            BY <5>2 DEF x, y
        <4>4. Head(inbox[p]) = inbox[p][1] /\ inbox'[p] = <<>>
          BY <2>1, <2>5, <4>3, LengthOne
        <4>5. Head(inbox[p]) = Head(lockQ)
          BY <4>1, <4>3, <4>4 DEF HolderOf
        <4>6. Len(pipe'[p]) = 1 /\ pipe'[p][1] = a /\ Len(inbox'[p]) = 0
          BY <2>6, <4>3, <4>4
        <4>7. Len(inbox'[p]) + Len(pipe'[p]) <= 1
          <5> DEFINE x == Len(inbox'[p])
                     y == Len(pipe'[p])
          <5>1. x = 0 /\ y = 1
            BY <4>6
          <5> HIDE DEF x, y
          <5>2. x + y <= 1
            BY <5>1
          <5>3. QED
            BY <5>2 DEF x, y
        <4>8. HolderOf(p)'
          BY <1>1, <2>4, <4>1, <4>4, <4>5, <4>6 DEF taskVars, HolderOf
        <4>9. QED
          BY <4>7, <4>8
      <3>3. QED
        BY <3>1, <3>2 DEF OneExchange
    <2>10. QED
      BY <1>2, <2>7, <2>8, <2>9 DEF FlowInv
  <1>4. CASE ~Answer(p)
    <2>1. pipe' = pipe /\ (inbox' = inbox \/ inbox' = [inbox EXCEPT ![p] = <<>>])
      BY <1>4 DEF ProcStep, Boot, Crash, ObeyTerm, ObeyKill, Exit, Reap
    <2>2. Shrinks
      BY <2>1 DEF Shrinks, TypeInv, TypeOK
    <2>3. FreshInv'
      BY <1>1, <2>2 DEF taskVars, FlowInv, FreshInv, Shrinks
    <2>4. WholeInv' /\ OneExchange'
      BY <1>1, <2>2, WholeKeeps, ExchangeKeeps DEF taskVars, FlowInv
    <2>5. QED
      BY <1>2, <2>3, <2>4 DEF FlowInv
  <1>5. QED
    BY <1>3, <1>4

\* Every step, by who takes it.
LEMMA FlowStep ==
  ASSUME ~TornFrame, TypeInv, FlowInv, [Next]_vars
  PROVE  FlowInv'
  <1>1. CASE UNCHANGED vars
    BY <1>1 DEF vars, procVars, taskVars, FlowInv, FreshInv, CreateInv, OnInv,
                WholeInv, AfterInv, OneExchange, HolderOf, ResponseAttribution, Answered
  <1>2. CASE Next
    BY <1>2, CreateFlow, ExecFlow, ExecStopFlow, StopFlow, DestroyFlow, ProcFlow
       DEF Next, ExecStep
  <1>3. QED
    BY <1>1, <1>2

\* Before the session is created.
LEMMA FlowInit == Init => FlowInv
  <1> SUFFICES ASSUME Init PROVE FlowInv
    OBVIOUS
  <1>1. FreshInv /\ CreateInv /\ OnInv /\ AfterInv
    BY TasksAssumption
       DEF Init, FreshInv, CreateInv, OnInv, AfterInv, Proc, Task, HttpError, Failure
  <1>2. WholeInv /\ OneExchange /\ ResponseAttribution
    BY TasksAssumption DEF Init, WholeInv, OneExchange, ResponseAttribution, Proc
  <1>3. QED
    BY <1>1, <1>2 DEF FlowInv

\* For any number of calls, crashes, timeouts and a teardown at any moment, the
\* answer execute() returns is the answer to its own code block, as long as no
\* answer is torn by a line over the stream limit or by a line of output that
\* looks like its last (runner_pool.py:243-247, 297, 346).
THEOREM AnswersAreOwn ==
  ASSUME ~TornFrame
  PROVE  Spec => []ResponseAttribution
  <1>1. TypeInv /\ FlowInv /\ [Next]_vars => (TypeInv /\ FlowInv)'
    BY TypeStep, FlowStep
  <1>2. Init => TypeInv /\ FlowInv
    BY TypeInit, FlowInit
  <1>3. TypeInv /\ FlowInv => ResponseAttribution
    BY DEF FlowInv
  <1>4. QED
    BY <1>1, <1>2, <1>3, PTL DEF Spec

\* Under the same condition, at most one code block is under way between `_proc`
\* and its client, and it is that of the lock's holder.
THEOREM ExchangesAreSerial ==
  ASSUME ~TornFrame
  PROVE  Spec => []OneExchange
  <1>1. TypeInv /\ FlowInv /\ [Next]_vars => (TypeInv /\ FlowInv)'
    BY TypeStep, FlowStep
  <1>2. Init => TypeInv /\ FlowInv
    BY TypeInit, FlowInit
  <1>3. TypeInv /\ FlowInv => OneExchange
    BY DEF FlowInv
  <1>4. QED
    BY <1>1, <1>2, <1>3, PTL DEF Spec
=============================================================================
