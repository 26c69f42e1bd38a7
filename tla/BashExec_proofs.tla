-------------------------- MODULE BashExec_proofs ---------------------------
(* Proofs about BashExec, for any calls, sessions and number of writes.    *)
EXTENDS BashExec, SequenceTheorems, TLAPS

(* What each call keeps to: every unit written is on the pipe, taken or     *)
(* lost, and a call that has returned has nothing left.  The task that has  *)
(* set the variable and not yet forked is the only one of its kind, and the *)
(* variable is still what it set.                                           *)
CallInv(c) ==
  /\ wrote[c] = pipe[c] + taken[c] + lost[c]
  /\ pc[c] \in {"new", "fork"} => bash[c] = "none"
  /\ pc[c] = "fork" => environ = session[c] /\ \A d \in Call : pc[d] = "fork" => d = c
  /\ bash[c] = "none" => ~heirs[c] /\ wrote[c] = 0
  /\ bash[c] # "none" => cwd[c] = <<session[c], session[c]>>
  /\ pc[c] \in {"done", "timed_out"} => Eof(c)
  /\ pc[c] \in {"new", "fork", "spawn", "read", "done"} => lost[c] = 0

(* Until calls cross, those in progress are nested: each will put back what *)
(* the one before it had set.                                               *)
Nested ==
  /\ \A c \in Call : InProgress(c) => \E i \in DOMAIN open : open[i] = c
  /\ \A i \in DOMAIN open : InProgress(open[i])
  /\ \A i, j \in DOMAIN open : open[i] = open[j] => i = j
  /\ \A i \in DOMAIN open :
       prev[open[i]] = IF i = 1 THEN Image ELSE session[open[i - 1]]
  /\ environ = IF open = <<>> THEN Image ELSE session[open[Len(open)]]

Inv == TypeOK /\ (\A c \in Call : CallInv(c)) /\ (~crossed => Nested)

-----------------------------------------------------------------------------
\* A sequence without its last element.
LEMMA WithoutLast ==
  ASSUME NEW S, NEW s \in Seq(S), s # <<>>
  PROVE  /\ SubSeq(s, 1, Len(s) - 1) \in Seq(S)
         /\ Len(SubSeq(s, 1, Len(s) - 1)) = Len(s) - 1
         /\ \A i \in 1..Len(s) - 1 : SubSeq(s, 1, Len(s) - 1)[i] = s[i]
  <1>1. Len(s) \in Nat /\ \A i \in 1..Len(s) : s[i] \in S
    BY ElementOfSeq, LenProperties
  <1>2. Len(s) # 0
    BY EmptySeq
  <1>3. 1 \in Int /\ Len(s) - 1 \in Int /\ \A i \in 1..Len(s) - 1 : s[i] \in S
    BY <1>1
  <1>4. /\ SubSeq(s, 1, Len(s) - 1) \in Seq(S)
        /\ Len(SubSeq(s, 1, Len(s) - 1)) =
             IF 1 <= Len(s) - 1 THEN Len(s) - 1 - 1 + 1 ELSE 0
        /\ \A i \in 1..Len(s) - 1 - 1 + 1 : SubSeq(s, 1, Len(s) - 1)[i] = s[1 + i - 1]
    BY <1>3, SubSeqProperties
  <1>5. Len(SubSeq(s, 1, Len(s) - 1)) = Len(s) - 1
    <2> DEFINE n == Len(s)  m == Len(SubSeq(s, 1, Len(s) - 1))
    <2>1. n \in Nat /\ n # 0 /\ m = IF 1 <= n - 1 THEN n - 1 - 1 + 1 ELSE 0
      BY <1>1, <1>2, <1>4
    <2> HIDE DEF n, m
    <2>2. m = n - 1
      BY <2>1
    <2> QED BY <2>2 DEF n, m
  <1>6. ASSUME NEW i \in 1..Len(s) - 1
        PROVE  SubSeq(s, 1, Len(s) - 1)[i] = s[i]
    <2>1. i \in 1..Len(s) - 1 - 1 + 1 /\ 1 + i - 1 = i
      BY <1>1
    <2> QED BY <1>4, <2>1
  <1> QED BY <1>4, <1>5, <1>6

\* Before any call.
THEOREM InitInv == Init => Inv
  <1> SUFFICES ASSUME Init PROVE Inv
    OBVIOUS
  <1>1. TypeOK
    <2>1. open \in Seq(Call)
      BY EmptySeq DEF Init
    <2>2. 0 \in 0..MaxWrites
      BY BashBounds
    <2>3. environ \in Session \cup {Image} /\ crossed \in BOOLEAN
      BY DEF Init
    <2>4. pc \in [Call -> {"new", "fork", "spawn", "read", "again", "done", "timed_out", "failed"}]
      BY DEF Init
    <2>5. bash \in [Call -> {"none", "run", "killed", "exited"}]
      BY DEF Init
    <2>6. session \in [Call -> Session \cup {Image}] /\ prev \in [Call -> Session \cup {Image}]
      BY DEF Init
    <2>7. cwd \in [Call -> (Session \cup {Image}) \X (Session \cup {Image})]
      BY DEF Init
    <2>8. heirs \in [Call -> BOOLEAN]
      BY DEF Init
    <2>9. wrote \in [Call -> 0..MaxWrites] /\ pipe \in [Call -> 0..MaxWrites]
          /\ taken \in [Call -> 0..MaxWrites] /\ lost \in [Call -> 0..MaxWrites]
      BY <2>2 DEF Init
    <2> QED BY <2>1, <2>2, <2>3, <2>4, <2>5, <2>6, <2>7, <2>8, <2>9 DEF TypeOK
  <1>2. \A c \in Call : CallInv(c)
    <2> SUFFICES ASSUME NEW c \in Call PROVE CallInv(c)
      OBVIOUS
    <2>1. wrote[c] = 0 /\ pipe[c] = 0 /\ taken[c] = 0 /\ lost[c] = 0
      BY DEF Init
    <2>2. pc[c] = "new" /\ bash[c] = "none"
      BY DEF Init
    <2>3. heirs[c] = FALSE
      BY DEF Init
    <2> QED BY <2>1, <2>2, <2>3 DEF CallInv
  <1>3. Nested
    <2>1. DOMAIN open = {}
      BY EmptySeq DEF Init
    <2> QED BY <2>1 DEF Init, Nested, InProgress
  <1> QED BY <1>1, <1>2, <1>3 DEF Inv

-----------------------------------------------------------------------------
(* One step of one call.                                                   *)

\* While calls are nested the one that returns is among them.
LEMMA SomeOpen ==
  ASSUME Inv, ~crossed, NEW c \in Call, InProgress(c)
  PROVE  open # <<>> /\ open \in Seq(Call)
  <1>1. PICK i \in DOMAIN open : open[i] = c
    BY DEF Inv, Nested
  <1> QED BY <1>1, EmptySeq DEF Inv, TypeOK

\* Every step keeps the accounts of every call.
LEMMA CallStep ==
  ASSUME Inv, NEW c \in Call, Serve(c) \/ Command(c), NEW d \in Call
  PROVE  CallInv(d)'
  <1> USE DEF Inv, TypeOK, CallInv, Eof, output, child
  <1>1. ASSUME NEW s \in Session, Begin(c, s)
        PROVE  CallInv(d)'
    BY <1>1 DEF Begin, LoopFree
  <1>2. CASE Fork(c)
    BY <1>2 DEF Fork
  <1>13. CASE ForkFails(c)
    BY <1>13 DEF ForkFails, Return
  <1>3. CASE Spawned(c)
    BY <1>3 DEF Spawned, LoopFree
  <1>4. CASE Take(c)
    BY <1>4 DEF Take
  <1>5. CASE CallEnds(c)
    BY <1>5 DEF CallEnds, Return, LoopFree
  <1>6. CASE TimeOut(c)
    BY <1>6 DEF TimeOut
  <1>7. CASE TimeOutTooLate(c)
    BY <1>7 DEF TimeOutTooLate, Return, LoopFree
  <1>8. CASE Write(c)
    <2>1. CASE d = c
      <3>1. bash[c] # "none" /\ pc[c] \notin {"new", "done", "timed_out"}
        BY <1>8 DEF Write
      <3>2. /\ wrote'[c] = wrote[c] + 1 /\ pipe'[c] = pipe[c] + 1
            /\ UNCHANGED <<pc, session, bash, cwd, heirs, taken, lost>>
        BY <1>8 DEF Write
      <3> QED BY <2>1, <3>1, <3>2
    <2>2. CASE d # c
      BY <1>8, <2>2 DEF Write
    <2> QED BY <2>1, <2>2
  <1>9. CASE StartHeir(c)
    BY <1>9 DEF StartHeir
  <1>10. CASE HeirEnds(c)
    BY <1>10 DEF HeirEnds
  <1>11. CASE BashEnds(c)
    BY <1>11 DEF BashEnds
  <1>12. CASE BashDies(c)
    BY <1>12 DEF BashDies
  <1> QED BY <1>1, <1>2, <1>3, <1>4, <1>5, <1>6, <1>7, <1>8, <1>9, <1>10, <1>11, <1>12, <1>13
          DEF Serve, Command

\* What the end of a call does to the history of open calls.
LEMMA ReturnStep ==
  ASSUME Inv, NEW c \in Call, NEW how, Return(c, how), InProgress(c)
  PROVE  /\ open' \in Seq(Call) /\ crossed' \in BOOLEAN
         /\ ~crossed' => /\ ~crossed /\ open # <<>> /\ open[Len(open)] = c
                         /\ Len(open') = Len(open) - 1
                         /\ \A i \in 1..Len(open) - 1 : open'[i] = open[i]
  <1>1. CASE crossed'
    BY <1>1, EmptySeq DEF Return
  <1>2. CASE ~crossed'
    <2>1. ~crossed /\ open[Len(open)] = c /\ open' = SubSeq(open, 1, Len(open) - 1)
      BY <1>2 DEF Return, Inv, TypeOK
    <2>2. open # <<>> /\ open \in Seq(Call)
      BY <2>1, SomeOpen
    <2>3. /\ SubSeq(open, 1, Len(open) - 1) \in Seq(Call)
          /\ Len(SubSeq(open, 1, Len(open) - 1)) = Len(open) - 1
          /\ \A i \in 1..Len(open) - 1 : SubSeq(open, 1, Len(open) - 1)[i] = open[i]
      BY <2>2, WithoutLast
    <2>4. crossed' \in BOOLEAN
      BY <1>2 DEF Return
    <2> QED BY <2>1, <2>2, <2>3, <2>4
  <1> QED BY <1>1, <1>2

\* Every step keeps the types.
LEMMA TypeStep ==
  ASSUME Inv, NEW c \in Call, Serve(c) \/ Command(c)
  PROVE  TypeOK'
  <1> USE DEF TypeOK, output, child
  <1>0. TypeOK /\ CallInv(c) /\ MaxWrites \in Nat
    BY BashBounds DEF Inv
  <1>1. ASSUME NEW s \in Session, Begin(c, s)
        PROVE  TypeOK'
    <2>1. open' \in Seq(Call)
      BY <1>0, <1>1, EmptySeq, AppendProperties DEF Begin
    <2> QED BY <1>0, <1>1, <2>1 DEF Begin
  <1>2. CASE Fork(c)
    BY <1>0, <1>2 DEF Fork
  <1>13. CASE ForkFails(c)
    <2>1. InProgress(c) /\ Return(c, "failed")
      BY <1>13 DEF ForkFails, InProgress
    <2>2. open' \in Seq(Call) /\ crossed' \in BOOLEAN
      BY <2>1, ReturnStep
    <2> QED BY <1>0, <1>13, <2>1, <2>2 DEF ForkFails, Return, PutBack
  <1>3. CASE Spawned(c)
    BY <1>0, <1>3 DEF Spawned
  <1>4. CASE Take(c)
    <2>1. taken[c] + pipe[c] \in 0..MaxWrites
      BY <1>0 DEF CallInv
    <2> QED BY <1>0, <1>4, <2>1 DEF Take
  <1>5. CASE CallEnds(c)
    <2>1. InProgress(c) /\ Return(c, IF pc[c] = "read" THEN "done" ELSE "timed_out")
      BY <1>5 DEF CallEnds, InProgress
    <2>2. open' \in Seq(Call) /\ crossed' \in BOOLEAN
      BY <2>1, ReturnStep
    <2> QED BY <1>0, <1>5, <2>1, <2>2 DEF CallEnds, Return, PutBack
  <1>6. CASE TimeOut(c)
    BY <1>0, <1>6 DEF TimeOut
  <1>7. CASE TimeOutTooLate(c)
    <2>1. InProgress(c) /\ Return(c, "failed")
      BY <1>7 DEF TimeOutTooLate, InProgress
    <2>2. open' \in Seq(Call) /\ crossed' \in BOOLEAN
      BY <2>1, ReturnStep
    <2> QED BY <1>0, <1>7, <2>1, <2>2 DEF TimeOutTooLate, Return, PutBack
  <1>8. CASE Write(c)
    <2>1. wrote[c] + 1 \in 0..MaxWrites /\ pipe[c] + 1 \in 0..MaxWrites
      BY <1>0, <1>8 DEF CallInv, Write
    <2> QED BY <1>0, <1>8, <2>1 DEF Write
  <1>9. CASE StartHeir(c)
    BY <1>0, <1>9 DEF StartHeir
  <1>10. CASE HeirEnds(c)
    BY <1>0, <1>10 DEF HeirEnds
  <1>11. CASE BashEnds(c)
    BY <1>0, <1>11 DEF BashEnds
  <1>12. CASE BashDies(c)
    BY <1>0, <1>12 DEF BashDies
  <1> QED BY <1>1, <1>2, <1>3, <1>4, <1>5, <1>6, <1>7, <1>8, <1>9, <1>10, <1>11, <1>12, <1>13
          DEF Serve, Command

\* A call that leaves the variable, the calls in progress and their sessions
\* alone leaves them nested.
LEMMA SameNesting ==
  ASSUME Nested, UNCHANGED <<environ, session, prev, open>>,
         \A d \in Call : InProgress(d)' <=> InProgress(d), open \in Seq(Call)
  PROVE  Nested'
  BY DEF Nested, InProgress

\* The end of the call that began last.
LEMMA NestedReturn ==
  ASSUME Inv, NEW c \in Call, NEW how \in {"done", "timed_out", "failed"},
         Return(c, how), InProgress(c), UNCHANGED <<session, prev>>, ~crossed'
  PROVE  Nested'
  <1> DEFINE n == Len(open)
  <1>1. /\ ~crossed /\ open # <<>> /\ open[n] = c /\ Len(open') = n - 1
        /\ \A i \in 1..n - 1 : open'[i] = open[i]
        /\ open' \in Seq(Call) /\ open \in Seq(Call)
    <2>1. open \in Seq(Call) /\ crossed \in BOOLEAN
      BY DEF Inv, TypeOK
    <2> QED BY <2>1, ReturnStep
  <1>2. Nested /\ n \in Nat /\ n # 0 /\ DOMAIN open = 1..n /\ DOMAIN open' = 1..n - 1
    BY <1>1, EmptySeq, LenProperties DEF Inv
  <1>3. environ' = prev[c] /\ \A d \in Call : pc'[d] = IF d = c THEN how ELSE pc[d]
    BY DEF Return, PutBack, Inv, TypeOK
  <1>4. \A d \in Call : InProgress(d)' <=> InProgress(d) /\ d # c
    BY <1>3 DEF InProgress
  <1> HIDE DEF n
  <1>5. \A i \in 1..n - 1 : open'[i] = open[i] /\ open[i] \in Call /\ i \in DOMAIN open
    BY <1>1, <1>2
  <1>6. ASSUME NEW d \in Call, InProgress(d)'
        PROVE  \E i \in DOMAIN open' : open'[i] = d
    <2>1. PICK i \in DOMAIN open : open[i] = d
      BY <1>2, <1>4, <1>6 DEF Nested
    <2>2. i # n
      BY <1>1, <1>4, <1>6, <2>1
    <2>3. i \in 1..n - 1
      BY <1>2, <2>1, <2>2
    <2> QED BY <1>2, <1>5, <2>1, <2>3
  <1>7. ASSUME NEW i \in DOMAIN open'
        PROVE  pc'[open'[i]] \in {"fork", "spawn", "read", "again"}
    <2>1. i # n /\ i \in DOMAIN open /\ n \in DOMAIN open /\ open'[i] = open[i]
      BY <1>2, <1>5
    <2>2. open[i] # c /\ InProgress(open[i]) /\ open[i] \in Call
      BY <1>1, <1>2, <1>5, <2>1 DEF Nested
    <2> QED BY <1>3, <2>1, <2>2 DEF InProgress
  <1>8. \A i, j \in DOMAIN open' : open'[i] = open'[j] => i = j
    BY <1>2, <1>5 DEF Nested
  <1>9. ASSUME NEW i \in DOMAIN open'
        PROVE  prev'[open'[i]] = IF i = 1 THEN Image ELSE session'[open'[i - 1]]
    <2>1. i \in DOMAIN open /\ open'[i] = open[i]
      BY <1>2, <1>5
    <2>2. i # 1 => open'[i - 1] = open[i - 1]
      BY <1>2, <1>5
    <2> QED BY <1>2, <2>1, <2>2 DEF Nested
  <1>10. environ' = IF open' = <<>> THEN Image ELSE session'[open'[Len(open')]]
    <2>1. n \in DOMAIN open
      BY <1>2
    <2>2. environ' = IF n = 1 THEN Image ELSE session[open[n - 1]]
      BY <1>1, <1>2, <1>3, <2>1 DEF Nested
    <2>3. open' = <<>> <=> n = 1
      BY <1>1, <1>2, EmptySeq
    <2>4. n # 1 => open'[n - 1] = open[n - 1]
      BY <1>2, <1>5
    <2> QED BY <1>1, <2>2, <2>3, <2>4
  <1> QED BY <1>6, <1>7, <1>8, <1>9, <1>10 DEF Nested, InProgress

\* A new call is nested in those in progress.
LEMMA NestedBegin ==
  ASSUME Inv, Nested, NEW c \in Call, NEW s \in Session, Begin(c, s), ~crossed
  PROVE  Nested'
  <1> DEFINE n == Len(open)
  <1>1. /\ open \in Seq(Call) /\ open' = Append(open, c) /\ pc[c] = "new"
        /\ environ' = s
    BY DEF Begin, Inv, TypeOK
  <1>2. /\ n \in Nat /\ DOMAIN open = 1..n /\ DOMAIN open' = 1..n + 1 /\ Len(open') = n + 1
        /\ \A i \in 1..n : open'[i] = open[i] /\ open[i] \in Call
        /\ open'[n + 1] = c
    BY <1>1, AppendProperties, LenProperties, ElementOfSeq
  <1>3. \A d \in Call : /\ pc'[d] = IF d = c THEN "fork" ELSE pc[d]
                        /\ session'[d] = IF d = c THEN s ELSE session[d]
                        /\ prev'[d] = IF d = c THEN environ ELSE prev[d]
    BY DEF Begin, Inv, TypeOK
  <1>4. (open = <<>> <=> n = 0) /\ open' # <<>>
    BY <1>1, <1>2, EmptySeq
  <1> HIDE DEF n
  <1>5. \A i \in 1..n : open[i] # c /\ pc'[open[i]] = pc[open[i]]
                         /\ pc[open[i]] \in {"fork", "spawn", "read", "again"}
    BY <1>1, <1>2, <1>3 DEF Nested, InProgress
  <1>6. ASSUME NEW d \in Call, pc'[d] \in {"fork", "spawn", "read", "again"}
        PROVE  \E i \in DOMAIN open' : open'[i] = d
    <2>1. CASE d = c
      BY <1>2, <2>1
    <2>2. CASE d # c
      <3>1. PICK i \in DOMAIN open : open[i] = d
        BY <1>3, <1>6, <2>2 DEF Nested, InProgress
      <3> QED BY <1>2, <3>1
    <2> QED BY <2>1, <2>2
  <1>7. \A i \in DOMAIN open' : pc'[open'[i]] \in {"fork", "spawn", "read", "again"}
    BY <1>2, <1>3, <1>5
  <1>8. \A i, j \in DOMAIN open' : open'[i] = open'[j] => i = j
    BY <1>2, <1>5 DEF Nested
  <1>9. ASSUME NEW i \in DOMAIN open'
        PROVE  prev'[open'[i]] = IF i = 1 THEN Image ELSE session'[open'[i - 1]]
    <2>1. CASE i \in 1..n
      <3>1. /\ open'[i] = open[i] /\ prev'[open[i]] = prev[open[i]]
            /\ i # 1 => /\ open'[i - 1] = open[i - 1] /\ i - 1 \in 1..n
                        /\ session'[open[i - 1]] = session[open[i - 1]]
        BY <1>2, <1>3, <1>5, <2>1
      <3> QED BY <1>2, <2>1, <3>1 DEF Nested
    <2>2. CASE i = n + 1
      <3>1. prev'[open'[i]] = environ
        BY <1>2, <1>3, <2>2
      <3>2. n # 0 => open'[n] = open[n] /\ session'[open[n]] = session[open[n]]
        BY <1>2, <1>3, <1>5
      <3>3. environ = IF n = 0 THEN Image ELSE session[open[n]]
        BY <1>4 DEF Nested, n
      <3> QED BY <1>2, <2>2, <3>1, <3>2, <3>3
    <2> QED BY <1>2, <2>1, <2>2
  <1>10. environ' = IF open' = <<>> THEN Image ELSE session'[open'[Len(open')]]
    BY <1>1, <1>2, <1>3, <1>4
  <1> QED BY <1>6, <1>7, <1>8, <1>9, <1>10 DEF Nested, InProgress

\* Every step keeps calls nested, or crosses them.
LEMMA NestedStep ==
  ASSUME Inv, NEW c \in Call, Serve(c) \/ Command(c), ~crossed'
  PROVE  Nested'
  <1> USE DEF output, child
  <1>0. TypeOK /\ (~crossed => Nested)
    BY DEF Inv
  <1>1. ASSUME NEW s \in Session, Begin(c, s)
        PROVE  Nested'
    <2>1. ~crossed
      BY <1>1 DEF Begin
    <2> QED BY <1>0, <1>1, <2>1, NestedBegin
  <1>2. CASE ForkFails(c)
    BY <1>2, NestedReturn DEF ForkFails, InProgress
  <1>3. CASE CallEnds(c)
    BY <1>3, NestedReturn DEF CallEnds, InProgress
  <1>4. CASE TimeOutTooLate(c)
    BY <1>4, NestedReturn DEF TimeOutTooLate, InProgress
  <1>5. CASE Fork(c) \/ Spawned(c) \/ TimeOut(c)
    <2>1. UNCHANGED <<environ, session, prev, open, crossed>>
      BY <1>5 DEF Fork, Spawned, TimeOut
    <2>2. \A d \in Call : InProgress(d)' <=> InProgress(d)
      BY <1>0, <1>5 DEF Fork, Spawned, TimeOut, TypeOK, InProgress
    <2> QED BY <1>0, <2>1, <2>2, SameNesting DEF TypeOK
  <1>6. CASE Take(c) \/ Command(c)
    <2>1. UNCHANGED <<environ, session, prev, open, crossed, pc>>
      BY <1>6 DEF Take, Command, Write, StartHeir, HeirEnds, BashEnds, BashDies
    <2> QED BY <1>0, <2>1, SameNesting DEF TypeOK, InProgress
  <1> QED BY <1>1, <1>2, <1>3, <1>4, <1>5, <1>6 DEF Serve

-----------------------------------------------------------------------------
\* Every step keeps the invariant.
LEMMA NextInv == Inv /\ [Next]_vars => Inv'
  <1> SUFFICES ASSUME Inv, [Next]_vars PROVE Inv'
    OBVIOUS
  <1>1. ASSUME NEW c \in Call, Serve(c) \/ Command(c)
        PROVE  Inv'
    BY <1>1, TypeStep, CallStep, NestedStep DEF Inv
  <1>2. CASE UNCHANGED vars
    BY <1>2 DEF vars, child, output, Inv, TypeOK, CallInv, Eof, Nested, InProgress
  <1> QED BY <1>1, <1>2 DEF Next

\* The inductive invariant holds throughout.
THEOREM Invariance == Spec => []Inv
  BY InitInv, NextInv, PTL DEF Spec

\* Types: no unit of output is counted twice.
THEOREM TypeCorrect == Spec => []TypeOK
  <1>1. Inv => TypeOK
    BY DEF Inv
  <1> QED BY <1>1, Invariance, PTL

\* A bash runs in the workspace of its own session, however calls interleave: the
\* variable that all of them set and put back is, when it forks, what it set.
THEOREM RunsInOwnWorkspace == Spec => []OwnWorkspace
  <1>1. Inv => OwnWorkspace
    BY DEF Inv, CallInv, OwnWorkspace
  <1> QED BY <1>1, Invariance, PTL

\* Calls that are nested leave the environment of the server as they found it.
THEOREM RestoresEnviron == Spec => []EnvironRestored
  <1>1. ASSUME Inv, ~crossed, \A c \in Call : ~InProgress(c)
        PROVE  environ = Image
    <2>1. open = <<>>
      <3>1. DOMAIN open = {} /\ open \in Seq(Call)
        BY <1>1, ElementOfSeq, LenProperties DEF Inv, Nested, TypeOK
      <3> QED BY <3>1, EmptySeq, LenProperties
    <2> QED BY <1>1, <2>1 DEF Inv, Nested
  <1>2. Inv => EnvironRestored
    BY <1>1 DEF EnvironRestored
  <1> QED BY <1>2, Invariance, PTL

\* A call that ends in time returns everything its bash and what it left behind
\* have written, and nothing twice (bash.py:29-31, :47-51).
THEOREM OutputComplete == Spec => []CompleteOutput
  <1>1. Inv => CompleteOutput
    BY DEF Inv, TypeOK, CallInv, Eof, CompleteOutput
  <1> QED BY <1>1, Invariance, PTL

\* When a call has ended there is nothing left of it that could still write:
\* bash has exited, no process holds its pipes, and every unit of output that was
\* written has been returned or, if the call timed out, was read before the
\* timeout and lost with the communicate() that it cancelled (bash.py:33-46).
THEOREM NothingWritesLater == Spec => []OutcomeIsFinal
  <1>1. Inv => OutcomeIsFinal
    BY DEF Inv, TypeOK, CallInv, Eof, OutcomeIsFinal
  <1> QED BY <1>1, Invariance, PTL
=============================================================================
