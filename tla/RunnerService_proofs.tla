------------------------ MODULE RunnerService_proofs ------------------------
(* execute() implements ExecService, the safety part: every step of a       *)
(* session, seen through the outcomes, is a step of the service or none.    *)
EXTENDS RunnerCalls_proofs

-----------------------------------------------------------------------------
(* The status of a call, as its await and the log make it.                  *)

\* What the service knows of a call, one case at a time.
LEMMA StatusValue ==
  ASSUME NEW c
  PROVE  /\ pc[c] = "new" => Status(c) = "new"
         /\ pc[c] \notin {"new", "done"} => Status(c) = "waiting"
         /\ pc[c] = "done" /\ GotOwnAnswer(c) => Status(c) = "answered"
         /\ pc[c] = "done" /\ ~GotOwnAnswer(c) /\ GotFailure(c) => Status(c) = "failed"
         /\ pc[c] = "done" /\ ~GotOwnAnswer(c) /\ ~GotFailure(c) => Status(c) = "rejected"
  BY DEF Status

\* A call that has not ended has told its client nothing.
LEMMA NothingTold ==
  ASSUME LoggedInv, NEW c \in Caller, pc[c] # "done"
  PROVE  ~GotOwnAnswer(c) /\ ~GotFailure(c)
  BY DEF LoggedInv, GotOwnAnswer, GotFailure

\* A step that tells a call nothing and leaves its await leaves its status.
LEMMA StatusStays ==
  ASSUME TypeInv, NEW d \in Caller, pc'[d] = pc[d],
         \/ log' = log
         \/ \E c \in Caller \ {d}, o \in Outcome : Records(c, o)
  PROVE  Status(d)' = Status(d)
  <1>1. GotOwnAnswer(d)' <=> GotOwnAnswer(d)
    <2>1. CASE log' = log
      BY <2>1 DEF GotOwnAnswer, Answered
    <2>2. ASSUME NEW c \in Caller \ {d}, NEW o \in Outcome, Records(c, o)
          PROVE  GotOwnAnswer(d)' <=> GotOwnAnswer(d)
      <3>n. PICK n : n = Len(log)
        OBVIOUS
      <3>1. /\ n \in Nat /\ Len(log) = n /\ Len(log') = n + 1
            /\ log'[n + 1].caller = c /\ \A i \in 1..n : log'[i] = log[i]
        BY <2>2, <3>n, LogEntry DEF Records
      <3>2. \A i \in 1..(n + 1) : i \in 1..n \/ i = n + 1
        BY <3>1
      <3>3. \A i \in 1..n : i \in 1..(n + 1)
        BY <3>1
      <3>4. QED
        BY <3>1, <3>2, <3>3 DEF GotOwnAnswer, Answered
    <2>3. QED
      BY <2>1, <2>2
  <1>2. GotFailure(d)' <=> GotFailure(d)
    <2>1. CASE log' = log
      BY <2>1 DEF GotFailure, Answered
    <2>2. ASSUME NEW c \in Caller \ {d}, NEW o \in Outcome, Records(c, o)
          PROVE  GotFailure(d)' <=> GotFailure(d)
      <3>n. PICK n : n = Len(log)
        OBVIOUS
      <3>1. /\ n \in Nat /\ Len(log) = n /\ Len(log') = n + 1
            /\ log'[n + 1].caller = c /\ \A i \in 1..n : log'[i] = log[i]
        BY <2>2, <3>n, LogEntry DEF Records
      <3>2. \A i \in 1..(n + 1) : i \in 1..n \/ i = n + 1
        BY <3>1
      <3>3. \A i \in 1..n : i \in 1..(n + 1)
        BY <3>1
      <3>4. QED
        BY <3>1, <3>2, <3>3 DEF GotFailure, Answered
    <2>3. QED
      BY <2>1, <2>2
  <1>3. QED
    BY <1>1, <1>2 DEF Status

\* A call that ends is answered or has failed, and with its own answer.
LEMMA StatusEnds ==
  ASSUME TypeInv, LoggedInv, ResponseAttribution',
         NEW c \in Caller, pc[c] # "done", NEW o \in Outcome, Records(c, o)
  PROVE  Status(c)' = IF o.kind = "answered" THEN "answered" ELSE "failed"
  <1>n. PICK n : n = Len(log)
    OBVIOUS
  <1>1. /\ n \in Nat /\ Len(log) = n /\ Len(log') = n + 1 /\ n + 1 \in 1..(n + 1)
        /\ log'[n + 1].caller = c /\ log'[n + 1].outcome = o
        /\ \A i \in 1..n : log'[i] = log[i]
    BY <1>n, LogEntry DEF Records
  <1>2. pc'[c] = "done"
    BY DEF Records, TypeInv, TypeOK, Task
  <1>3. ASSUME NEW i \in 1..(n + 1), log'[i].caller = c
        PROVE  i = n + 1
    <2>1. i \in 1..n => log[i].caller = c
      BY <1>1, <1>3
    <2>2. i \notin 1..n
      BY <1>1, <2>1 DEF LoggedInv
    <2>3. QED
      BY <1>1, <2>2
  <1>4. CASE o.kind = "answered"
    <2>1. o.from = c
      BY <1>1, <1>4 DEF ResponseAttribution, Answered
    <2>2. GotOwnAnswer(c)'
      BY <1>1, <1>4, <2>1 DEF GotOwnAnswer, Answered
    <2>3. QED
      BY <1>2, <1>4, <2>2 DEF Status
  <1>5. CASE o.kind # "answered"
    <2>1. ~GotOwnAnswer(c)'
      BY <1>1, <1>3, <1>5 DEF GotOwnAnswer, Answered
    <2>2. GotFailure(c)'
      BY <1>1, <1>5 DEF GotFailure, Answered
    <2>3. QED
      BY <1>2, <1>5, <2>1, <2>2 DEF Status
  <1>6. QED
    BY <1>4, <1>5

-----------------------------------------------------------------------------
(* Init and the steps.                                                      *)

\* Initial states are initial states of the service.
LEMMA ServiceInit == Init => Service!Init
  <1> SUFFICES ASSUME Init PROVE Service!Init
    OBVIOUS
  <1>1. lockQ = <<>> /\ \A c \in Caller : Status(c) = "new"
    BY StatusValue DEF Init, Task
  <1>2. QED
    BY <1>1 DEF Service!Init

\* A step is a step of the service or changes nothing it knows.
LEMMA ServiceStep ==
  ASSUME TypeInv, PendingInv, LoggedInv, ResponseAttribution', [Next]_vars
  PROVE  [Service!Next]_(Service!vars)
  <1> DEFINE status == [c \in Caller |-> Status(c)]
  <1>0. pc \in [Task -> PCs] /\ Caller \subseteq Task
    BY DEF TypeInv, TypeOK, Task
  <1>1. CASE log' = log /\ lockQ' = lockQ /\ \A c \in Caller : pc'[c] = pc[c]
    <2>1. \A c \in Caller : Status(c)' = Status(c)
      BY <1>1, StatusStays
    <2>2. QED
      BY <1>1, <2>1 DEF Service!vars
  <1>2. ASSUME NEW c \in Caller, CallStep(c)
        PROVE  [Service!Next]_(Service!vars)
    <2>1. ASSUME NEW where, pc' = [pc EXCEPT ![c] = where], NEW end, Status(c)' = end,
                 log' = log \/ \E o \in Outcome : Records(c, o)
          PROVE  status' = [status EXCEPT ![c] = end]
      <3>1. \A d \in Caller \ {c} : Status(d)' = Status(d)
        <4> SUFFICES ASSUME NEW d \in Caller \ {c} PROVE Status(d)' = Status(d)
          OBVIOUS
        <4>1. pc'[d] = pc[d]
          BY <1>0, <2>1
        <4>2. QED
          BY <2>1, <4>1, StatusStays
      <3>2. QED
        BY <2>1, <3>1
    <2>2. CASE Submits(c)
      <3>1. Status(c) = "new" /\ log' = log /\ lockQ' = Append(lockQ, c)
        BY <2>2, StatusValue DEF Submits, GoesOn
      <3>2. PICK where \in PCs : pc' = [pc EXCEPT ![c] = where]
        BY <2>2 DEF Submits, GoesOn
      <3>3. pc'[c] \notin {"new", "done"}
        BY <2>2 DEF Submits, GoesOn, InProgress
      <3>4. Status(c)' = "waiting"
        BY <3>3 DEF Status
      <3>5. status' = [status EXCEPT ![c] = "waiting"]
        BY <2>1, <3>1, <3>2, <3>4
      <3>6. Service!Submit(c)
        BY <3>1, <3>5 DEF Service!Submit
      <3>7. QED
        BY <3>6 DEF Service!Next
    <2>3. CASE Waits(c)
      <3>1. Status(c) = "waiting" /\ log' = log /\ lockQ' = lockQ
        BY <2>3, StatusValue DEF Waits, GoesOn, InProgress
      <3>2. PICK where \in PCs : pc' = [pc EXCEPT ![c] = where]
        BY <2>3 DEF Waits, GoesOn
      <3>3. pc'[c] \notin {"new", "done"}
        BY <2>3 DEF Waits, GoesOn, InProgress
      <3>4. Status(c)' = "waiting"
        BY <3>3 DEF Status
      <3>5. status' = status
        BY <2>1, <3>1, <3>2, <3>4
      <3>6. QED
        BY <3>1, <3>5 DEF Service!vars
    <2>4. CASE TurnedAway(c)
      <3>1. /\ pc[c] = "new" /\ pc' = [pc EXCEPT ![c] = "done"]
            /\ log' = log /\ lockQ' = lockQ /\ Status(c) = "new"
        BY <2>4, StatusValue DEF TurnedAway
      <3>2. ~GotOwnAnswer(c)' /\ ~GotFailure(c)'
        BY <3>1, NothingTold DEF GotOwnAnswer, GotFailure, Answered
      <3>3. Status(c)' = "rejected"
        BY <1>0, <3>1, <3>2 DEF Status
      <3>4. status' = [status EXCEPT ![c] = "rejected"]
        BY <2>1, <3>1, <3>3
      <3>5. Service!Reject(c)
        BY <3>1, <3>4 DEF Service!Reject
      <3>6. QED
        BY <3>5 DEF Service!Next
    <2>5. ASSUME NEW o \in Outcome, FailsAtOnce(c, o)
          PROVE  Service!FailAtOnce(c)
      <3>1. /\ pc[c] = "new" /\ lockQ = <<>> /\ lockQ' = lockQ /\ Status(c) = "new"
            /\ o.kind # "answered" /\ Records(c, o) /\ pc' = [pc EXCEPT ![c] = "done"]
        BY <2>5, StatusValue DEF FailsAtOnce, Records
      <3>2. Status(c)' = "failed"
        BY <3>1, StatusEnds
      <3>3. status' = [status EXCEPT ![c] = "failed"]
        BY <2>1, <3>1, <3>2
      <3>4. QED
        BY <3>1, <3>3 DEF Service!FailAtOnce
    <2>6. ASSUME NEW o \in Outcome, Completes(c, o)
          PROVE  Service!Complete
      <3>1. /\ pc[c] # "done" /\ lockQ # <<>> /\ Head(lockQ) = c /\ lockQ' = Tail(lockQ)
            /\ Records(c, o) /\ pc' = [pc EXCEPT ![c] = "done"]
        BY <2>6 DEF Completes, Records, InProgress
      <3>2. PICK end \in {"answered", "failed"} : Status(c)' = end
        BY <3>1, StatusEnds
      <3>3. status' = [status EXCEPT ![c] = end]
        BY <2>1, <3>1, <3>2
      <3>4. QED
        BY <3>1, <3>3 DEF Service!Complete
    <2>7. QED
      BY <1>2, <2>2, <2>3, <2>4, <2>5, <2>6 DEF CallStep, Service!Next
  <1>3. CASE UNCHANGED vars
    BY <1>1, <1>3 DEF vars, taskVars
  <1>4. QED
    BY <1>1, <1>2, <1>3, CallSteps, OtherSteps

\* Calls on a session are served one at a time in arrival order, and each ends
\* once, with its own answer or with a failure: no step of a runner, of a timer
\* or of the teardown makes execute() do anything else, as long as no answer is
\* torn (runner_pool.py:210-286).
THEOREM ServedOneByOne ==
  ASSUME ~TornFrame
  PROVE  Spec => Service!Init /\ [][Service!Next]_(Service!vars)
  <1>1. AllInv /\ AllInv' /\ [Next]_vars => [Service!Next]_(Service!vars)
    BY ServiceStep DEF AllInv, CallsInv, FlowInv
  <1>2. QED
    BY <1>1, ServiceInit, AllAlways, PTL DEF Spec
=============================================================================
