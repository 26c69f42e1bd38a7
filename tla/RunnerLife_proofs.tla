-------------------------- MODULE RunnerLife_proofs --------------------------
(* Proofs about the subprocesses of a session, from the eager start of      *)
(* create_session to the teardown: which of them run, which of them `_proc` *)
(* refers to, and what a call can tell its client when one is gone.  They   *)
(* hold for any set of calls and any faults, torn answers included, unless  *)
(* a theorem says otherwise.                                                *)
EXTENDS RunnerProcess_proofs

(* Before POST /sessions nothing exists. *)
StartInv == pc[Create] = "new" =>
              /\ ~inDict /\ procRef = None /\ log = <<>> /\ pc[Destroy] = "new"
              /\ \A p \in Proc : os[p] = "none"

(* A subprocess whose start() has not returned is not `_proc`, and a task   *)
(* that has not called start() has none.                                    *)
UnbornInv == \A p \in Proc :
               /\ pc[p] \in {"new", "queued"} => os[p] = "none"
               /\ pc[p] \in {"new", "queued", "spawn"} => procRef # p

(* While the session is registered no stop() of destroy() interferes: the   *)
(* subprocess that runs is `_proc` or is being started, one is started only *)
(* when `_proc` is gone, and a call awaits what `_proc` refers to.          *)
RegisteredInv == inDict =>
  /\ pc[Destroy] = "new"
  /\ \A p \in Proc : Running(p) => p = procRef \/ pc[p] = "spawn"
  /\ \A p \in Proc : pc[p] = "spawn" => procRef = None \/ Reaped(procRef)
  /\ \A c \in Caller : pc[c] \in Awaiting => on[c] = procRef

(* After a teardown that no task was in the way of, no task is taken in any *)
(* more: only the runner that destroy() waits for can still be alive.       *)
QuietInv == pc[Destroy] # "new" /\ atDestroy = {} =>
  /\ ~inDict
  /\ \A t \in Caller \cup {Create} : ~InProgress(t)
  /\ \A p \in Proc : Running(p) => p = procRef
  /\ pc[Destroy] \in {"term_wait", "kill_wait", "done"}
  /\ pc[Destroy] # "done" => on[Destroy] = procRef
  /\ pc[Destroy] = "done" => NothingLeft

LifeInv == StartInv /\ CreateInv /\ UnbornInv /\ RegisteredInv /\ QuietInv

-----------------------------------------------------------------------------
(* What a step of a call may do to the subprocesses and to `_proc`.         *)

(* The call was taken in: its session was there when it arrived.            *)
TakenIn(c) == inDict \/ InProgress(c)

Quits(c) == /\ pc[c] # "spawn"
            /\ Suspend(c, "done", None) /\ UNCHANGED <<procRef, os, dirExists>>

Queues(c) == /\ TakenIn(c) /\ pc[c] = "new"
             /\ Suspend(c, "queued", None) /\ UNCHANGED <<procRef, os, dirExists>>

Forks(c) == /\ TakenIn(c) /\ pc[c] \in {"new", "queued"}
            /\ \A d \in Caller \ {c} : pc[d] \notin Holding
            /\ procRef = None \/ Reaped(procRef)
            /\ Fork(c) /\ UNCHANGED <<procRef, dirExists>>

Adopts(c) == /\ pc[c] = "spawn"
             /\ procRef' = c /\ Suspend(c, "send", c) /\ UNCHANGED <<os, dirExists>>

Uses(t) == /\ TakenIn(t) /\ pc[t] \in Awaiting \cup {"new", "queued"}
           /\ procRef # None /\ \E where \in Awaiting : Suspend(t, where, procRef)
           /\ UNCHANGED <<procRef, os, dirExists>>

LetsGo(c) == /\ pc[c] \in Awaiting
             /\ procRef = None \/ ~Running(procRef) \/ Reaped(on[c])
             /\ procRef' = None /\ Suspend(c, "done", None) /\ UNCHANGED <<os, dirExists>>

CallMove(c) == /\ pc[Create] = "done" /\ UNCHANGED <<inDict, atDestroy>>
               /\ Quits(c) \/ Queues(c) \/ Forks(c) \/ Adopts(c) \/ Uses(c) \/ LetsGo(c)

\* stop() up to its first await lets `_proc` go only when it does not run.
LEMMA BeginStopMoves ==
  ASSUME NEW c \in Caller, NEW o, pc[c] \in Awaiting, BeginStop(c, o), UNCHANGED os
  PROVE  Uses(c) \/ LetsGo(c)
  <1>1. TakenIn(c) /\ c # Destroy
    BY TasksAssumption DEF TakenIn, InProgress, Awaiting
  <1>2. CASE /\ procRef = None \/ os[procRef] \in {"exited", "reaped"}
             /\ Forget(c, o)
    BY <1>1, <1>2 DEF Forget, AfterStop, Return, LetsGo, Running
  <1>3. CASE /\ procRef # None /\ Suspend(c, "term_wait", procRef)
             /\ UNCHANGED <<procRef, dirExists>>
    BY <1>1, <1>3 DEF Uses, Awaiting
  <1>4. QED
    BY <1>2, <1>3 DEF BeginStop

\* So does the end of a read that met the end of the runner.
LEMMA EndOfRunnerMoves ==
  ASSUME NEW c \in Caller, pc[c] \in Awaiting, EndOfRunner(c), UNCHANGED os
  PROVE  Uses(c) \/ LetsGo(c) \/ Quits(c)
  <1>1. CASE Return(c, HttpError, lockQ) /\ UNCHANGED <<procRef, dirExists>>
    BY <1>1 DEF Return, Quits, Awaiting
  <1>2. CASE procRef # None
    BY <1>2, BeginStopMoves DEF EndOfRunner
  <1>3. QED
    BY <1>1, <1>2 DEF EndOfRunner

\* The steps of execute() and of its stop() make these moves and no others.
LEMMA CallMoves ==
  ASSUME TypeInv, CreateInv, NEW c \in Caller, ExecStep(c) \/ StopStep(c)
  PROVE  CallMove(c)
  <1>0. /\ c \in Task /\ c # Destroy
        /\ \A d \in Caller \ {c} : pc[c] \in Holding => pc[d] \notin Holding
    BY TasksAssumption DEF Task, TypeInv, QueueInv
  <1>1. UNCHANGED <<inDict, atDestroy>>
    BY DEF ExecStep, StopStep, Arrive, Acquire, Spawned, Sent, SendFails, ReadAnswer,
           ReadEof, EofWaited, TimeOut, Drained, TermWaited, TermTimedOut, KillWaited
  <1>2. pc[Create] = "done"
    BY DEF CreateInv, ExecStep, StopStep, Arrive, Acquire, Spawned, Sent, SendFails,
           ReadAnswer, ReadEof, EofWaited, TimeOut, Reading, Drained,
           TermWaited, TermTimedOut, KillWaited
  <1>3. ASSUME NEW q, Enter(c, q), TakenIn(c), pc[c] \in {"new", "queued"},
               \A d \in Caller \ {c} : pc[d] \notin Holding,
               UNCHANGED <<procRef, dirExists>>
        PROVE  Uses(c) \/ Forks(c) \/ Quits(c)
    BY <1>3 DEF Enter, Return, Uses, Forks, Quits, Awaiting
  <1>4. CASE Arrive(c)
    <2>0. pc[c] = "new" /\ UNCHANGED <<procRef, dirExists>>
      BY <1>4 DEF Arrive
    <2>1. CASE Suspend(c, "done", None) /\ UNCHANGED <<lockQ, os, inbox, log>>
      BY <1>1, <1>2, <2>0, <2>1 DEF Quits, CallMove
    <2>2. CASE inDict /\ lockQ = <<>> /\ Enter(c, <<c>>)
      BY <1>1, <1>2, <1>3, <2>0, <2>2 DEF TakenIn, TypeInv, QueueInv, CallMove
    <2>3. CASE inDict /\ Suspend(c, "queued", None) /\ UNCHANGED <<os, inbox, log>>
      BY <1>1, <1>2, <2>0, <2>3 DEF Queues, TakenIn, CallMove
    <2>4. QED
      BY <1>4, <2>1, <2>2, <2>3 DEF Arrive
  <1>5. CASE Acquire(c)
    <2>1. /\ \A d \in Caller \ {c} : pc[d] \notin Holding
          /\ TakenIn(c)
      BY <1>5 DEF Acquire, TypeInv, QueueInv, TakenIn, InProgress
    <2>2. QED
      BY <1>1, <1>2, <1>3, <1>5, <2>1 DEF Acquire, CallMove
  <1>6. CASE Spawned(c)
    BY <1>1, <1>2, <1>6 DEF Spawned, Adopts, CallMove
  <1>7. CASE Sent(c) \/ ReadAnswer(c)
    BY <1>1, <1>2, <1>7
       DEF Sent, ReadAnswer, Return, Quits, Uses, Awaiting, TakenIn, InProgress, CallMove, procVars
  <1>8. CASE SendFails(c) \/ ReadEof(c) \/ EofWaited(c) \/ TimeOut(c) \/ Drained(c)
    <2>1. pc[c] \in Awaiting /\ TakenIn(c) /\ UNCHANGED os
      BY <1>8 DEF SendFails, ReadEof, EofWaited, TimeOut, Reading, Drained, Awaiting,
                  TakenIn, InProgress
    <2>2. \/ \E o : BeginStop(c, o)
          \/ EndOfRunner(c)
          \/ /\ procRef # None /\ \E where \in Awaiting : Suspend(c, where, procRef)
             /\ UNCHANGED <<procRef, dirExists>>
      BY <1>8 DEF SendFails, ReadEof, EofWaited, TimeOut, Drained, Awaiting
    <2>3. QED
      BY <1>1, <1>2, <2>1, <2>2, BeginStopMoves, EndOfRunnerMoves DEF Uses, CallMove
  <1>9. CASE StopStep(c)
    <2>1. pc[c] \in Awaiting /\ TakenIn(c) /\ UNCHANGED os
      BY <1>9 DEF StopStep, TermWaited, TermTimedOut, KillWaited, Awaiting,
                  TakenIn, InProgress, procVars
    <2>2. CASE TermWaited(c) \/ KillWaited(c)
      BY <1>0, <1>1, <1>2, <2>1, <2>2
         DEF TermWaited, KillWaited, Forget, AfterStop, Return, LetsGo, CallMove
    <2>3. CASE TermTimedOut(c)
      BY <1>0, <1>1, <1>2, <2>1, <2>3
         DEF TermTimedOut, StopRaises, Forget, AfterStop, Return, LetsGo, Uses, Awaiting, CallMove
    <2>4. QED
      BY <1>9, <2>2, <2>3 DEF StopStep
  <1>10. QED
    BY <1>4, <1>5, <1>6, <1>7, <1>8, <1>9 DEF ExecStep

-----------------------------------------------------------------------------
(* The moves keep LifeInv.                                                  *)

\* A call that moves on does not disturb the teardown of an unused session.
LEMMA CallQuiet ==
  ASSUME TypeInv, LifeInv, NEW c \in Caller, CallMove(c)
  PROVE  QuietInv'
  <1>0. /\ c \in Task /\ c # Destroy /\ c # Create
        /\ pc \in [Task -> PCs] /\ on \in [Task -> Proc \cup {None}]
        /\ Caller \cup {Create} \subseteq Task /\ Destroy \in Task
    BY TasksAssumption DEF Task, TypeInv, TypeOK
  <1>1. pc'[Destroy] = pc[Destroy] /\ on'[Destroy] = on[Destroy]
    BY <1>0 DEF CallMove, Quits, Queues, Forks, Adopts, Uses, LetsGo, Fork, Suspend
  <1> SUFFICES ASSUME pc[Destroy] # "new", atDestroy = {} PROVE QuietInv'
    BY <1>1 DEF CallMove, QuietInv
  <1>2. ~TakenIn(c) /\ pc[c] \notin Awaiting \cup {"spawn"}
    BY DEF LifeInv, QuietInv, TakenIn, InProgress, Awaiting
  <1>3. Quits(c) /\ UNCHANGED <<inDict, atDestroy>>
    BY <1>2 DEF CallMove, Queues, Forks, Adopts, Uses, LetsGo
  <1>4. \A t \in Caller \cup {Create} : ~InProgress(t)'
    BY <1>0, <1>3 DEF Quits, Suspend, LifeInv, QuietInv, InProgress
  <1>5. QED
    BY <1>1, <1>3, <1>4 DEF Quits, LifeInv, QuietInv, Running, NothingLeft

\* While the session is registered, a call never leaves a running subprocess
\* that is neither `_proc` nor being started.
LEMMA CallRegistered ==
  ASSUME TypeInv, LifeInv, NEW c \in Caller, CallMove(c)
  PROVE  RegisteredInv'
  <1>0. /\ c \in Task /\ c \in Proc /\ c # Destroy /\ c # Create
        /\ pc \in [Task -> PCs] /\ on \in [Task -> Proc \cup {None}]
        /\ os \in [Proc -> {"none", "boot", "live", "exited", "reaped"}]
        /\ procRef \in Proc \cup {None} /\ Caller \subseteq Proc /\ Proc \subseteq Task
        /\ Create \in Proc /\ Destroy \in Task
    BY TasksAssumption DEF Task, Proc, TypeInv, TypeOK
  <1>1. pc'[Destroy] = pc[Destroy] /\ inDict' = inDict
    BY <1>0 DEF CallMove, Quits, Queues, Forks, Adopts, Uses, LetsGo, Fork, Suspend
  <1> SUFFICES ASSUME inDict PROVE RegisteredInv'
    BY <1>1 DEF RegisteredInv
  <1>2. /\ pc[Destroy] = "new"
        /\ \A p \in Proc : Running(p) => p = procRef \/ pc[p] = "spawn"
        /\ \A p \in Proc : pc[p] = "spawn" => procRef = None \/ Reaped(procRef)
        /\ \A d \in Caller : pc[d] \in Awaiting => on[d] = procRef
    BY DEF LifeInv, RegisteredInv
  <1>3. /\ pc[c] \in Holding => \A d \in Caller \ {c} : pc[d] \notin Holding
        /\ pc[Create] = "done" /\ None \notin Proc
        /\ \A p \in Proc : pc[p] \in {"new", "queued", "spawn"} => procRef # p
    BY TasksAssumption DEF TypeInv, QueueInv, CallMove, LifeInv, UnbornInv, Proc
  <1>4. CASE Quits(c) \/ Queues(c)
    BY <1>0, <1>1, <1>2, <1>3, <1>4
       DEF Quits, Queues, Suspend, RegisteredInv, Running, Reaped, Awaiting
  <1>5. CASE Forks(c)
    BY <1>0, <1>1, <1>2, <1>3, <1>5
       DEF Forks, Fork, Suspend, RegisteredInv, Running, Reaped, Awaiting, Holding
  <1>6. CASE Adopts(c)
    <2>1. \A p \in Proc \ {c} : pc'[p] # "spawn" /\ ~Running(p)
      BY <1>0, <1>2, <1>3, <1>6 DEF Adopts, Suspend, Holding, Running, Reaped, Proc
    <2>2. QED
      BY <1>0, <1>1, <1>2, <1>3, <1>6, <2>1
         DEF Adopts, Suspend, RegisteredInv, Running, Reaped, Awaiting, Holding
  <1>7. CASE Uses(c)
    BY <1>0, <1>1, <1>2, <1>3, <1>7
       DEF Uses, Suspend, RegisteredInv, Running, Reaped, Awaiting
  <1>8. CASE LetsGo(c)
    <2>1. ~(procRef \in Proc /\ Running(procRef))
      BY <1>2, <1>3, <1>8 DEF LetsGo, Running, Reaped
    <2>2. \A p \in Proc \ {c} : pc[p] # "spawn"
      BY <1>3, <1>8 DEF LetsGo, Holding, Proc
    <2>3. QED
      BY <1>0, <1>1, <1>2, <1>3, <1>8, <2>1, <2>2
         DEF LetsGo, Suspend, RegisteredInv, Running, Reaped, Awaiting, Holding
  <1>9. QED
    BY <1>4, <1>5, <1>6, <1>7, <1>8 DEF CallMove

\* A step of a call.
LEMMA CallLife ==
  ASSUME TypeInv, LifeInv, NEW c \in Caller, CallMove(c)
  PROVE  LifeInv'
  <1>0. /\ c \in Task /\ c \in Proc /\ c # Create
        /\ pc \in [Task -> PCs] /\ on \in [Task -> Proc \cup {None}]
        /\ os \in [Proc -> {"none", "boot", "live", "exited", "reaped"}]
        /\ Proc \subseteq Task /\ Create \in Proc /\ None \notin Proc
    BY TasksAssumption DEF Task, Proc, TypeInv, TypeOK
  <1>1. pc'[Create] = "done"
    BY <1>0 DEF CallMove, Quits, Queues, Forks, Adopts, Uses, LetsGo, Fork, Suspend
  <1>2. UnbornInv'
    <2>1. CASE Quits(c) \/ Queues(c)
      BY <1>0, <2>1 DEF Quits, Queues, Suspend, LifeInv, UnbornInv
    <2>2. CASE Forks(c)
      BY <1>0, <2>2 DEF Forks, Fork, Suspend, LifeInv, UnbornInv
    <2>3. CASE Adopts(c)
      BY <1>0, <2>3 DEF Adopts, Suspend, LifeInv, UnbornInv
    <2>4. CASE Uses(c) \/ LetsGo(c)
      BY <1>0, <2>4 DEF Uses, LetsGo, Suspend, LifeInv, UnbornInv, Awaiting
    <2>5. QED
      BY <2>1, <2>2, <2>3, <2>4 DEF CallMove
  <1>3. QED
    BY <1>1, <1>2, CallQuiet, CallRegistered DEF LifeInv, StartInv, CreateInv

-----------------------------------------------------------------------------
(* The other steps keep LifeInv.                                            *)

\* The eager start of create_session.
LEMMA CreateLife ==
  TypeInv /\ LifeInv /\ (CreateSession \/ CreateReturns) => LifeInv'
  <1> SUFFICES ASSUME TypeInv, LifeInv, CreateSession \/ CreateReturns PROVE LifeInv'
    OBVIOUS
  <1>0. /\ Create \in Task /\ Create \in Proc /\ Destroy \in Task /\ Create # Destroy
        /\ pc \in [Task -> PCs] /\ on \in [Task -> Proc \cup {None}]
        /\ os \in [Proc -> {"none", "boot", "live", "exited", "reaped"}]
        /\ procRef \in Proc \cup {None} /\ Proc = Caller \cup {Create}
        /\ Proc \subseteq Task /\ None \notin Proc /\ Create \notin Caller
    BY TasksAssumption DEF Task, Proc, TypeInv, TypeOK
  <1>1. pc[Create] \in {"new", "spawn"} /\ \A c \in Caller : pc[c] = "new"
    BY DEF CreateSession, CreateReturns, LifeInv, CreateInv
  <1>2. CASE CreateSession
    <2>1. /\ pc[Create] = "new" /\ pc[Destroy] = "new" /\ procRef = None /\ procRef' = None
          /\ \A p \in Proc : os[p] = "none"
      BY <1>2 DEF CreateSession, LifeInv, StartInv
    <2>2. CASE Fork(Create)
      BY <1>0, <1>1, <2>1, <2>2
         DEF Fork, Suspend, LifeInv, StartInv, CreateInv, UnbornInv, RegisteredInv, QuietInv,
             Running, Reaped, Awaiting
    <2>3. CASE Suspend(Create, "failed", None) /\ UNCHANGED os
      BY <1>0, <1>1, <2>1, <2>3
         DEF Suspend, LifeInv, StartInv, CreateInv, UnbornInv, RegisteredInv, QuietInv,
             Running, Reaped, Awaiting
    <2>4. QED
      BY <1>2, <2>2, <2>3 DEF CreateSession
  <1>3. CASE CreateReturns
    <2>1. /\ pc[Create] = "spawn" /\ procRef' = Create
          /\ pc' = [pc EXCEPT ![Create] = "done"] /\ on' = [on EXCEPT ![Create] = None]
          /\ UNCHANGED <<inDict, dirExists, os, atDestroy>>
      BY <1>3 DEF CreateReturns, Suspend, procVars
    <2>2. StartInv' /\ CreateInv' /\ UnbornInv'
      BY <1>0, <2>1 DEF LifeInv, StartInv, CreateInv, UnbornInv
    <2>3. RegisteredInv'
      BY <1>0, <1>1, <2>1 DEF LifeInv, RegisteredInv, Running, Reaped, Awaiting
    <2>4. QuietInv'
      BY <1>0, <2>1 DEF LifeInv, QuietInv, InProgress
    <2>5. QED
      BY <2>2, <2>3, <2>4 DEF LifeInv
  <1>4. QED
    BY <1>2, <1>3

\* destroy() takes the session out of the registry and waits for its runner.
LEMMA DestroyLife == TypeInv /\ LifeInv /\ DestroySession => LifeInv'
  <1> SUFFICES ASSUME TypeInv, LifeInv, DestroySession PROVE LifeInv'
    OBVIOUS
  <1>0. /\ Destroy \in Task /\ Destroy \notin Proc /\ Destroy # Create
        /\ pc \in [Task -> PCs] /\ on \in [Task -> Proc \cup {None}]
        /\ procRef \in Proc \cup {None} /\ Proc = Caller \cup {Create}
        /\ Proc \subseteq Task /\ None \notin Proc
    BY TasksAssumption DEF Task, Proc, TypeInv, TypeOK
  <1>1. /\ inDict /\ ~inDict' /\ os' = os /\ pc[Destroy] = "new"
        /\ atDestroy' = {t \in Task : InProgress(t)}
    BY DEF DestroySession
  <1>2. \/ /\ procRef = None \/ ~Running(procRef)
           /\ procRef' = None /\ dirExists' = FALSE /\ Suspend(Destroy, "done", None)
        \/ /\ procRef # None /\ procRef' = procRef /\ Suspend(Destroy, "term_wait", procRef)
    BY DEF DestroySession, BeginStop, Forget, AfterStop, Running
  <1>3. pc[Create] # "new" /\ pc'[Create] = pc[Create] /\ \A c \in Caller : pc'[c] = pc[c]
    BY <1>0, <1>1, <1>2 DEF LifeInv, StartInv, Suspend
  <1>4. StartInv' /\ CreateInv' /\ RegisteredInv'
    BY <1>1, <1>3 DEF LifeInv, StartInv, CreateInv, RegisteredInv
  <1>5. UnbornInv'
    BY <1>0, <1>1, <1>2, <1>3 DEF LifeInv, UnbornInv
  <1>6. QuietInv'
    <2> SUFFICES ASSUME atDestroy' = {} PROVE QuietInv'
      BY DEF QuietInv
    <2>1. \A t \in Caller \cup {Create} : ~InProgress(t)
      BY <1>0, <1>1
    <2>2. \A p \in Proc : Running(p) => p = procRef
      BY <1>0, <1>1, <2>1 DEF LifeInv, RegisteredInv, InProgress
    <2>3. \A t \in Caller \cup {Create} : ~InProgress(t)'
      BY <1>3, <2>1 DEF InProgress
    <2>4. QED
      BY <1>0, <1>1, <1>2, <2>2, <2>3 DEF QuietInv, Suspend, Running, NothingLeft
  <1>7. QED
    BY <1>4, <1>5, <1>6 DEF LifeInv

\* The rest of destroy(), after its stop() has sent SIGTERM.
LEMMA TeardownLife == TypeInv /\ LifeInv /\ StopStep(Destroy) => LifeInv'
  <1> SUFFICES ASSUME TypeInv, LifeInv, StopStep(Destroy) PROVE LifeInv'
    OBVIOUS
  <1>0. /\ Destroy \in Task /\ Destroy \notin Proc /\ Destroy # Create
        /\ pc \in [Task -> PCs] /\ on \in [Task -> Proc \cup {None}]
        /\ procRef \in Proc \cup {None} /\ Proc = Caller \cup {Create}
        /\ Proc \subseteq Task /\ None \notin Proc
    BY TasksAssumption DEF Task, Proc, TypeInv, TypeOK
  <1>1. /\ pc[Destroy] \in {"term_wait", "kill_wait"}
        /\ UNCHANGED <<inDict, os, atDestroy>>
    BY DEF StopStep, TermWaited, TermTimedOut, KillWaited, procVars
  <1>2. ~inDict
    BY <1>1 DEF LifeInv, RegisteredInv
  <1>3. \/ /\ procRef = None \/ ~Running(procRef) \/ Reaped(on[Destroy])
           /\ procRef' = None /\ dirExists' = FALSE /\ Suspend(Destroy, "done", None)
        \/ /\ procRef # None /\ procRef' = procRef /\ Suspend(Destroy, "kill_wait", procRef)
    BY DEF StopStep, TermWaited, TermTimedOut, KillWaited, StopRaises, Forget, AfterStop
  <1>4. pc'[Create] = pc[Create] /\ \A c \in Caller : pc'[c] = pc[c]
    BY <1>0, <1>3 DEF Suspend
  <1>5. StartInv' /\ CreateInv' /\ RegisteredInv'
    BY <1>1, <1>2, <1>4 DEF LifeInv, StartInv, CreateInv, RegisteredInv
  <1>6. UnbornInv'
    BY <1>0, <1>1, <1>3, <1>4 DEF LifeInv, UnbornInv
  <1>7. QuietInv'
    BY <1>0, <1>1, <1>2, <1>3, <1>4
       DEF LifeInv, QuietInv, InProgress, Suspend, Running, Reaped, NothingLeft
  <1>8. QED
    BY <1>5, <1>6, <1>7 DEF LifeInv

\* A subprocess dies but is never born again, and makes a directory only while
\* it starts.
LEMMA ProcMoves ==
  ASSUME TypeInv, NEW p \in Proc, ProcStep(p)
  PROVE  /\ UNCHANGED <<inDict, procRef, lockQ, sig, taskVars, log, atDestroy>>
         /\ \A r \in Proc : /\ Running(r)' => Running(r)
                            /\ Reaped(r) => Reaped(r)' /\ code'[r] = code[r]
                            /\ os[r] = "none" => os'[r] = "none"
         /\ dirExists' # dirExists => Running(p)
  <1>1. /\ UNCHANGED <<inDict, procRef, lockQ, sig, taskVars, log, atDestroy>>
        /\ dirExists' # dirExists => Running(p)
    BY DEF ProcStep, Boot, Answer, Crash, ObeyTerm, ObeyKill, Exit, Reap, Running
  <1>2. /\ os \in [Proc -> {"none", "boot", "live", "exited", "reaped"}]
        /\ code \in [Proc -> Endings \cup {"none", "term", "kill"}]
    BY DEF TypeInv, TypeOK
  <1>3. CASE os' = os /\ code' = code
    BY <1>1, <1>3 DEF Running, Reaped
  <1>4. CASE \E how : Running(p) /\ Exit(p, how)
    BY <1>1, <1>2, <1>4 DEF Running, Reaped, Exit
  <1>5. CASE Boot(p) \/ Reap(p)
    BY <1>1, <1>2, <1>5 DEF Running, Reaped, Boot, Reap
  <1>6. QED
    BY <1>3, <1>4, <1>5 DEF ProcStep, Answer, Crash, ObeyTerm, ObeyKill

\* A step of a subprocess.
LEMMA ProcLife ==
  ASSUME TypeInv, LifeInv, NEW p \in Proc, ProcStep(p)
  PROVE  LifeInv'
  <1>0. procRef \in Proc \cup {None}
    BY DEF TypeInv, TypeOK
  <1>1. /\ UNCHANGED <<inDict, procRef, pc, on, log, atDestroy>>
        /\ \A r \in Proc : /\ Running(r)' => Running(r)
                           /\ Reaped(r) => Reaped(r)'
                           /\ os[r] = "none" => os'[r] = "none"
        /\ dirExists' # dirExists => Running(p)
    BY ProcMoves DEF taskVars
  <1>2. StartInv' /\ CreateInv' /\ UnbornInv'
    BY <1>1 DEF LifeInv, StartInv, CreateInv, UnbornInv
  <1>3. RegisteredInv'
    BY <1>0, <1>1 DEF LifeInv, RegisteredInv
  <1>4. QuietInv'
    BY <1>0, <1>1 DEF LifeInv, QuietInv, InProgress, NothingLeft
  <1>5. QED
    BY <1>2, <1>3, <1>4 DEF LifeInv

\* Before the session is created.
LEMMA LifeInit == Init => LifeInv
  <1> SUFFICES ASSUME Init PROVE LifeInv
    OBVIOUS
  <1>1. /\ Proc \subseteq Task /\ None \notin Proc /\ {Create, Destroy} \subseteq Task
        /\ Caller \subseteq Task
    BY TasksAssumption DEF Task, Proc
  <1>2. QED
    BY <1>1 DEF Init, LifeInv, StartInv, CreateInv, UnbornInv, RegisteredInv, QuietInv

\* Every step, by who takes it.
LEMMA LifeStep == TypeInv /\ LifeInv /\ [Next]_vars => LifeInv'
  <1> SUFFICES ASSUME TypeInv, LifeInv, [Next]_vars PROVE LifeInv'
    OBVIOUS
  <1>1. CASE UNCHANGED vars
    BY <1>1 DEF vars, procVars, taskVars, LifeInv, StartInv, CreateInv, UnbornInv,
                RegisteredInv, QuietInv, InProgress, Running, Reaped, NothingLeft
  <1>2. ASSUME NEW c \in Caller, ExecStep(c) \/ StopStep(c)
        PROVE  LifeInv'
    BY <1>2, CallMoves, CallLife DEF LifeInv
  <1>3. CASE Next
    BY <1>2, <1>3, CreateLife, DestroyLife, TeardownLife, ProcLife DEF Next
  <1>4. QED
    BY <1>1, <1>3

\* It holds with the types, in every state.
LEMMA LifeAlways == Spec => [](TypeInv /\ LifeInv)
  <1>1. Init => TypeInv /\ LifeInv
    BY TypeInit, LifeInit
  <1>2. TypeInv /\ LifeInv /\ [Next]_vars => (TypeInv /\ LifeInv)'
    BY TypeStep, LifeStep
  <1>3. QED
    BY <1>1, <1>2, PTL DEF Spec

-----------------------------------------------------------------------------
\* While a session is registered at most one subprocess of it runs, whatever
\* dies, times out or fails to start: a respawn waits for the death of the
\* runner it replaces (runner_pool.py:144-187, 217).
THEOREM OneRunnerAtATime == Spec => []SingleRunner
  <1>1. TypeInv /\ LifeInv => SingleRunner
    <2> SUFFICES ASSUME TypeInv, LifeInv, inDict,
                        NEW p \in Proc, NEW q \in Proc, Running(p), Running(q)
                 PROVE  p = q
      BY DEF SingleRunner
    <2>1. None \notin Proc /\ Create \notin Caller /\ Proc = Caller \cup {Create}
      BY TasksAssumption DEF Proc
    <2>2. /\ \A r \in Proc : Running(r) => r = procRef \/ pc[r] = "spawn"
          /\ \A r \in Proc : pc[r] = "spawn" => procRef = None \/ Reaped(procRef)
      BY DEF LifeInv, RegisteredInv
    <2>3. CASE p = procRef \/ q = procRef
      BY <2>1, <2>2, <2>3 DEF Running, Reaped
    <2>4. CASE pc[p] = "spawn" /\ pc[q] = "spawn"
      BY <2>1, <2>4 DEF TypeInv, QueueInv, Holding, LifeInv, CreateInv
    <2>5. QED
      BY <2>2, <2>3, <2>4
  <1>2. QED
    BY <1>1, LifeAlways, PTL

\* While a session is registered, `_proc` lets go of a runner, for a new one or
\* for none, only when that runner has ended (runner_pool.py:144-203).
THEOREM LiveRunnerIsKept == Spec => NeverForgetsLiveRunner
  <1>1. TypeInv /\ LifeInv /\ [Next]_vars
          => [inDict /\ procRef # None /\ procRef' # procRef => ~Running(procRef)]_vars
    <2> SUFFICES ASSUME TypeInv, LifeInv, Next,
                        inDict, procRef # None, procRef' # procRef
                 PROVE  ~Running(procRef)
      BY DEF vars
    <2>1. /\ \A r \in Proc : pc[r] = "spawn" => procRef = None \/ Reaped(procRef)
          /\ \A c \in Caller : pc[c] \in Awaiting => on[c] = procRef
          /\ pc[Destroy] = "new"
      BY DEF LifeInv, RegisteredInv
    <2>2. ASSUME NEW c \in Caller, ExecStep(c) \/ StopStep(c)
          PROVE  ~Running(procRef)
      <3>1. CallMove(c) /\ c \in Proc
        BY <2>2, CallMoves DEF LifeInv, Proc
      <3>2. Adopts(c) \/ LetsGo(c)
        BY <3>1 DEF CallMove, Quits, Queues, Forks, Uses
      <3>3. QED
        BY <2>1, <3>1, <3>2 DEF Adopts, LetsGo, Running, Reaped
    <2>3. CASE CreateSession \/ CreateReturns
      BY <2>1, <2>3 DEF CreateSession, CreateReturns, Proc, Running, Reaped
    <2>4. CASE DestroySession
      BY <2>4 DEF DestroySession, BeginStop, Running
    <2>5. ~StopStep(Destroy)
      BY <2>1 DEF StopStep, TermWaited, TermTimedOut, KillWaited
    <2>6. \A p \in Proc : ~ProcStep(p)
      BY ProcMoves
    <2>7. QED
      BY <2>2, <2>3, <2>4, <2>5, <2>6 DEF Next
  <1>2. QED
    BY <1>1, LifeAlways, PTL DEF Spec, NeverForgetsLiveRunner

\* The teardown of a session that no task was using leaves neither a running
\* subprocess nor a directory, although the runner it stops may still be
\* booting and make its directory anew (sessions.py:166-178).
THEOREM QuietTeardownLeavesNothing == Spec => []QuietDestroyIsClean
  <1>1. TypeInv /\ LifeInv => QuietDestroyIsClean
    BY DEF LifeInv, QuietInv, QuietDestroyIsClean
  <1>2. QED
    BY <1>1, LifeAlways, PTL
=============================================================================
