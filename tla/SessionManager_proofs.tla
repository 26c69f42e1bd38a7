----------------------- MODULE SessionManager_proofs -----------------------
(* Proofs about SessionManager, for any sets of ids and clients, any cap    *)
(* and any time limits.                                                     *)
EXTENDS SessionManager, FiniteSetTheorems, TLAPS

(* The registry: an id is registered, then popped, and never comes back; a  *)
(* teardown is always of a popped id.                                       *)
OncePopped ==
  /\ sessions \cap popped = {}
  /\ inUse \subseteq popped
  /\ \A t \in Task : pc[t] = "teardown" => on[t] \in popped
  /\ \A s \in Sid : runner[s] = "stopping" => s \in popped

CapInv == IsFiniteSet(sessions) /\ CapHolds

(* The requests: what a client holds was popped under its hands if it is    *)
(* not registered, and only a request at work leaves anything behind.       *)
AtWork == {"create", "queued", "respawn", "bash", "upload"}

BusyInv == \A c \in Client : pc[c] \in AtWork => on[c] \in sessions \cup inUse

SpawnInv ==
  \A s \in Sid : runner[s] = "spawning" =>
    \E c \in Client : pc[c] \in {"create", "respawn"} /\ on[c] = s

LateInv ==
  /\ stray \subseteq inUse
  /\ \A s \in Sid : runner[s] \in {"spawning", "up"} => s \in sessions \cup inUse
  /\ \A s \in booting : runner[s] = "none" => s \in inUse

RegistryInv == TypeOK /\ OncePopped /\ OneTeardown /\ RegisteredHasDir /\ CapInv
LeakInv == BusyInv /\ SpawnInv /\ LateInv /\ NothingElseLeaks
Inv == RegistryInv /\ LeakInv

RunnerStates == {"none", "spawning", "up", "stopping"}
-----------------------------------------------------------------------------
(* What one stretch of a loop over destroy() does.                          *)

\* The ids that a step pops.
Leaving == sessions \ sessions'

\* Popped sessions leave the registry for good; each has nothing left but the
\* one whose stop() task t now waits for.
DestroyOutcome(t, gone, r) ==
  /\ sessions' \subseteq sessions /\ popped' = popped \cup Leaving
  /\ inUse' = inUse \cup {s \in Leaving : Busy(s)}
  /\ dirs' \subseteq dirs /\ gone \cap dirs' = {}
  /\ dirs \ dirs' \subseteq gone \cup Leaving
  /\ \A s \in Leaving :
       \/ s \notin dirs' /\ r[s] # "up" /\ runner'[s] = r[s]
       \/ pc'[t] = "teardown" /\ on'[t] = s /\ runner'[s] = "stopping"
  /\ \A s \in Sid \ Leaving : runner'[s] = r[s]
  /\ \/ pc'[t] = "teardown" /\ on'[t] \in Leaving
     \/ pc'[t] \in {"sleep", "down", "ready"} /\ on'[t] = None
  /\ \A u \in Task \ {t} : pc'[u] = pc[u] /\ on'[u] = on[u]

\* Destroying keeps the types of what it changes.
DestroyTypes ==
  /\ runner' \in [Sid -> RunnerStates]
  /\ idle' \in [Sid -> 0..IdleTimeout + 1] /\ age' \in [Sid -> 0..MaxLifetime + 1]
  /\ pc' \in [Task -> PCs] /\ on' \in [Task -> Sid \cup {None}]
  /\ rest' \in [Task -> SUBSET Sid]

\* What a destroy() of the sessions todo leaves, and its types.
LEMMA DestroyingFacts ==
  ASSUME TypeOK, NEW t \in Task, NEW todo \in SUBSET Sid, NEW gone \in SUBSET Sid,
         NEW r \in [Sid -> RunnerStates], Destroying(t, todo, gone, r)
  PROVE  DestroyOutcome(t, gone, r) /\ DestroyTypes
  <1>a. IdleTimeout \in Nat /\ MaxLifetime \in Nat
    BY ManagerBounds
  <1>b. ASSUME Drop
        PROVE  /\ idle' \in [Sid -> 0..IdleTimeout + 1]
               /\ age' \in [Sid -> 0..MaxLifetime + 1]
               /\ popped' = popped \cup Leaving
               /\ inUse' = inUse \cup {s \in Leaving : Busy(s)}
    BY <1>a, <1>b DEF Drop, TypeOK, Leaving
  <1>0. PICK quick \in SUBSET todo :
          /\ \A s \in quick : s \notin sessions \/ r[s] # "up"
          /\ \/ /\ quick = todo
                /\ DestroyEach(quick, gone, {})
                /\ runner' = r
                /\ Suspend(t, AtRest(t), None)
                /\ rest' = [rest EXCEPT ![t] = {}]
             \/ \E s \in (todo \ quick) \cap sessions :
                  /\ r[s] = "up"
                  /\ DestroyEach(quick \cup {s}, gone, {s})
                  /\ runner' = [r EXCEPT ![s] = "stopping"]
                  /\ Suspend(t, "teardown", s)
                  /\ rest' = [rest EXCEPT ![t] = todo \ (quick \cup {s})]
    BY DEF Destroying
  <1>1. ASSUME quick = todo, DestroyEach(quick, gone, {}), runner' = r,
               Suspend(t, AtRest(t), None), rest' = [rest EXCEPT ![t] = {}]
        PROVE  DestroyOutcome(t, gone, r) /\ DestroyTypes
    <2>1. AtRest(t) \in {"sleep", "down", "ready"}
      BY DEF AtRest
    <2>2. pc' = [pc EXCEPT ![t] = AtRest(t)] /\ on' = [on EXCEPT ![t] = None]
      BY <1>1 DEF Suspend
    <2>3. /\ sessions' = sessions \ todo
          /\ dirs' = dirs \ (gone \cup (todo \cap sessions))
          /\ Drop
      BY <1>1 DEF DestroyEach
    <2>4. /\ \A u \in Task \ {t} : pc'[u] = pc[u] /\ on'[u] = on[u]
          /\ pc'[t] = AtRest(t) /\ on'[t] = None
      BY <2>2 DEF TypeOK
    <2>5. \A s \in Leaving : s \notin dirs' /\ r[s] # "up" /\ runner'[s] = r[s]
      BY <1>0, <1>1, <2>3 DEF Leaving
    <2>6. DestroyOutcome(t, gone, r)
      BY <1>1, <1>b, <2>1, <2>3, <2>4, <2>5 DEF DestroyOutcome, Leaving
    <2>7. pc' \in [Task -> PCs] /\ on' \in [Task -> Sid \cup {None}]
      BY <2>1, <2>2 DEF TypeOK, PCs
    <2>8. rest' \in [Task -> SUBSET Sid] /\ runner' \in [Sid -> RunnerStates]
      BY <1>1 DEF TypeOK
    <2>9. QED
      BY <1>b, <2>3, <2>6, <2>7, <2>8 DEF DestroyTypes
  <1>2. ASSUME NEW x \in (todo \ quick) \cap sessions, r[x] = "up",
               DestroyEach(quick \cup {x}, gone, {x}),
               runner' = [r EXCEPT ![x] = "stopping"],
               Suspend(t, "teardown", x),
               rest' = [rest EXCEPT ![t] = todo \ (quick \cup {x})]
        PROVE  DestroyOutcome(t, gone, r) /\ DestroyTypes
    <2>0. x \in Sid
      BY DEF TypeOK
    <2>2. pc' = [pc EXCEPT ![t] = "teardown"] /\ on' = [on EXCEPT ![t] = x]
      BY <1>2 DEF Suspend
    <2>3. /\ sessions' = sessions \ (quick \cup {x})
          /\ dirs' = dirs \ (gone \cup (((quick \cup {x}) \ {x}) \cap sessions))
          /\ Drop
      BY <1>2 DEF DestroyEach
    <2>4. /\ \A u \in Task \ {t} : pc'[u] = pc[u] /\ on'[u] = on[u]
          /\ pc'[t] = "teardown" /\ on'[t] = x
      BY <2>2 DEF TypeOK
    <2>5. runner'[x] = "stopping" /\ \A s \in Sid \ {x} : runner'[s] = r[s]
      BY <1>2, <2>0
    <2>6. ASSUME NEW s \in Leaving
          PROVE  \/ s \notin dirs' /\ r[s] # "up" /\ runner'[s] = r[s]
                 \/ pc'[t] = "teardown" /\ on'[t] = s /\ runner'[s] = "stopping"
      BY <1>0, <2>0, <2>3, <2>4, <2>5 DEF Leaving, TypeOK
    <2>7. /\ sessions' \subseteq sessions /\ dirs' \subseteq dirs
          /\ gone \cap dirs' = {} /\ dirs \ dirs' \subseteq gone \cup Leaving
          /\ x \in Leaving
      BY <2>3 DEF Leaving
    <2>8. DestroyOutcome(t, gone, r)
      BY <1>b, <2>3, <2>4, <2>5, <2>6, <2>7 DEF DestroyOutcome
    <2>9. pc' \in [Task -> PCs] /\ on' \in [Task -> Sid \cup {None}]
      BY <2>0, <2>2 DEF TypeOK, PCs
    <2>10. rest' \in [Task -> SUBSET Sid] /\ runner' \in [Sid -> RunnerStates]
      BY <1>2 DEF TypeOK, RunnerStates
    <2>11. QED
      BY <1>b, <2>3, <2>8, <2>9, <2>10 DEF DestroyTypes
  <1>3. QED
    BY <1>0, <1>1, <1>2

\* Cardinalities: a registry that only shrinks stays finite and under the cap.
LEMMA ShrinkKeepsCap ==
  ASSUME CapInv, sessions' \subseteq sessions
  PROVE  CapInv'
  <1>1. MaxSessions \in Nat
    BY ManagerBounds
  <1>2. IsFiniteSet(sessions') /\ Cardinality(sessions') <= Cardinality(sessions)
    BY FS_Subset DEF CapInv
  <1>3. Cardinality(sessions) \in Nat /\ Cardinality(sessions') \in Nat
    BY <1>2, FS_CardinalityType DEF CapInv
  <1>4. QED
    BY <1>1, <1>2, <1>3 DEF CapInv, CapHolds

\* A stretch of a loop over destroy() keeps the invariant, if the directory it
\* removes belongs to the id that task t was tearing down.
LEMMA DestroyKeeps ==
  ASSUME Inv, NEW t \in Task, NEW gone \in SUBSET popped, NEW r \in [Sid -> RunnerStates],
         DestroyOutcome(t, gone, r), DestroyTypes,
         \A s \in Sid : r[s] = runner[s] \/ (s \in gone /\ r[s] = "none"),
         \A s \in gone : r[s] \in {"none", "spawning"},
         pc[t] \notin {"create", "respawn"},
         pc[t] = "teardown" => on[t] \in gone,
         stray' \subseteq inUse, booting' \subseteq booting, heirs' = heirs,
         \A s \in booting' : r[s] = "none" => s \in inUse,
         known' = known, abandoned' = abandoned
  PROVE  Inv'
  <1> USE DEF Inv, RegistryInv, LeakInv
  <1>1. /\ sessions \subseteq Sid /\ popped \subseteq Sid /\ inUse \subseteq Sid
        /\ booting \subseteq Sid /\ Leaving \subseteq sessions
        /\ gone \cap sessions = {}
    BY DEF TypeOK, Leaving, OncePopped
  <1>2. TypeOK'
    BY <1>1 DEF TypeOK, DestroyTypes, DestroyOutcome, RunnerStates, Leaving
  <1>3. OncePopped'
    <2>1. (sessions \cap popped = {})' /\ (inUse \subseteq popped)'
      BY <1>1 DEF OncePopped, DestroyOutcome, Leaving
    <2>2. ASSUME NEW u \in Task, pc'[u] = "teardown"
          PROVE  on'[u] \in popped'
      BY <2>2 DEF OncePopped, DestroyOutcome
    <2>3. ASSUME NEW s \in Sid, runner'[s] = "stopping"
          PROVE  s \in popped'
      BY <2>3 DEF OncePopped, DestroyOutcome
    <2>4. QED
      BY <2>1, <2>2, <2>3 DEF OncePopped
  <1>4. OneTeardown'
    <2>1. ASSUME NEW u \in Task \ {t}, pc'[u] = "teardown", pc'[t] = "teardown"
          PROVE  on'[u] # on'[t]
      BY <1>1, <2>1 DEF OncePopped, DestroyOutcome
    <2>2. ASSUME NEW u \in Task \ {t}, NEW v \in Task \ {t},
                 pc'[u] = "teardown", pc'[v] = "teardown", on'[u] = on'[v]
          PROVE  u = v
      BY <2>2 DEF OneTeardown, DestroyOutcome
    <2>3. QED
      BY <2>1, <2>2 DEF OneTeardown
  <1>5. RegisteredHasDir'
    BY <1>1 DEF RegisteredHasDir, DestroyOutcome, Leaving
  <1>6. CapInv'
    BY ShrinkKeepsCap DEF DestroyOutcome
  <1>7. BusyInv'
    <2>1. ASSUME NEW c \in Client, pc'[c] \in AtWork
          PROVE  on'[c] \in sessions' \cup inUse'
      <3>1. c \in Task
        BY DEF Task
      <3>2. CASE c = t
        BY <2>1, <3>2, ManagerTasks DEF DestroyOutcome, AtWork, AtRest
      <3>3. CASE c # t
        <4>1. pc'[c] = pc[c] /\ on'[c] = on[c]
          BY <3>1, <3>3 DEF DestroyOutcome
        <4>2. on[c] \in sessions \cup inUse
          BY <2>1, <4>1 DEF BusyInv
        <4>3. on[c] \in Leaving => Busy(on[c])
          BY <2>1, <4>1 DEF Busy, AtWork
        <4>4. QED
          BY <4>1, <4>2, <4>3 DEF DestroyOutcome, Leaving
      <3>4. QED
        BY <3>2, <3>3
    <2>2. QED
      BY <2>1 DEF BusyInv
  <1>8. ASSUME NEW s \in Sid, runner[s] = "spawning"
        PROVE  /\ \E c \in Client : pc'[c] \in {"create", "respawn"} /\ on'[c] = s
               /\ Busy(s)
    <2>1. PICK c \in Client : pc[c] \in {"create", "respawn"} /\ on[c] = s
      BY <1>8 DEF SpawnInv
    <2>2. c \in Task \ {t}
      BY <2>1 DEF Task
    <2>3. QED
      BY <2>1, <2>2 DEF DestroyOutcome, Busy
  <1>9. ASSUME NEW s \in Sid, runner'[s] \notin {"none", "stopping"}
        PROVE  runner[s] = runner'[s] /\ (s \in Leaving => runner[s] = "spawning")
    <2>1. runner'[s] = r[s]
      BY <1>9 DEF DestroyOutcome
    <2>2. s \in Leaving => r[s] # "up"
      BY <1>9 DEF DestroyOutcome
    <2>3. r[s] = runner[s] /\ runner[s] \in RunnerStates
      BY <1>9, <2>1
    <2>4. QED
      BY <1>9, <2>1, <2>2, <2>3 DEF RunnerStates
  <1>10. SpawnInv'
    BY <1>8, <1>9 DEF SpawnInv
  <1>11. LateInv'
    <2>1. (stray \subseteq inUse)'
      BY DEF DestroyOutcome
    <2>2. ASSUME NEW s \in Sid, runner'[s] \in {"spawning", "up"}
          PROVE  s \in sessions' \cup inUse'
      <3>1. s \in sessions \cup inUse
        BY <1>9, <2>2 DEF LateInv
      <3>2. s \in Leaving => Busy(s)
        BY <1>8, <1>9, <2>2
      <3>3. QED
        BY <3>1, <3>2 DEF DestroyOutcome, Leaving
    <2>3. ASSUME NEW s \in booting', runner'[s] = "none"
          PROVE  s \in inUse'
      BY <1>1, <2>3 DEF DestroyOutcome
    <2>4. QED
      BY <2>1, <2>2, <2>3 DEF LateInv
  <1>12. ASSUME NEW s \in Sid \ sessions', ~BeingTornDown(s)'
         PROVE  /\ s \in stray' \/ runner'[s] # "none" \/ RunsBash(s)' => s \in inUse' \cup abandoned'
                /\ s \in dirs' => s \in inUse' \cup abandoned' \cup heirs'
    <2>1. s \in stray' => s \in inUse'
      BY <1>11 DEF LateInv
    <2>2. runner'[s] \in {"spawning", "up"} => s \in inUse'
      BY <1>11, <1>12 DEF LateInv
    <2>3. RunsBash(s)' => s \in inUse'
      BY <1>7, <1>12 DEF BusyInv, RunsBash, AtWork
    <2>4. runner'[s] \in RunnerStates
      BY <1>2 DEF TypeOK, RunnerStates
    <2>5. CASE s \in Leaving
      <3>1. runner[s] # "stopping"
        BY <2>5 DEF OncePopped, Leaving
      <3>2. ~(pc'[t] = "teardown" /\ on'[t] = s)
        BY <1>12 DEF BeingTornDown
      <3>3. s \notin dirs' /\ runner'[s] = r[s]
        BY <2>5, <3>2 DEF DestroyOutcome
      <3>4. runner'[s] # "stopping"
        BY <1>1, <2>5, <3>1, <3>3
      <3>5. QED
        BY <2>1, <2>2, <2>3, <2>4, <3>3, <3>4 DEF RunnerStates
    <2>6. CASE s \in gone
      <3>1. s \notin dirs' /\ s \notin Leaving
        BY <1>1, <2>6 DEF DestroyOutcome
      <3>2. runner'[s] \in {"none", "spawning"}
        BY <2>6, <3>1 DEF DestroyOutcome
      <3>3. QED
        BY <2>1, <2>2, <2>3, <3>1, <3>2
    <2>7. CASE s \notin Leaving /\ s \notin gone
      <3>1. runner'[s] = runner[s] /\ (s \in dirs' => s \in dirs) /\ s \notin sessions
        BY <1>12, <2>7 DEF DestroyOutcome, Leaving
      <3>2. BeingTornDown(s) => BeingTornDown(s)'
        BY <2>7 DEF BeingTornDown, DestroyOutcome
      <3>3. /\ runner[s] # "none" => s \in inUse \cup abandoned
            /\ s \in dirs => s \in inUse \cup abandoned \cup heirs
        BY <1>12, <3>1, <3>2 DEF NothingElseLeaks
      <3>4. inUse \subseteq inUse'
        BY DEF DestroyOutcome
      <3>5. QED
        BY <2>1, <2>2, <2>3, <3>1, <3>3, <3>4
    <2>8. QED
      BY <2>5, <2>6, <2>7
  <1>14. NothingElseLeaks'
    BY <1>12 DEF NothingElseLeaks
  <1>13. QED
    BY <1>2, <1>3, <1>4, <1>5, <1>6, <1>7, <1>10, <1>11, <1>14

-----------------------------------------------------------------------------
(* Steps that pop nothing.  Only what they make need be looked at.          *)

\* A client moves on: it takes hold of s, which is registered or was popped
\* under its hands, or lets go of what it held.
Moves(c, where, s) ==
  /\ pc' = [pc EXCEPT ![c] = where] /\ on' = [on EXCEPT ![c] = s]
  /\ pc[c] # "teardown"

\* A request goes from one await to the next.
LEMMA MovesKeeps ==
  ASSUME Inv, NEW c \in Client, NEW where \in PCs \ {"teardown"}, NEW s \in Sid \cup {None},
         Moves(c, where, s), where \in AtWork => s \in sessions' \cup inUse',
         sessions \subseteq sessions', popped' = popped, inUse' = inUse
  PROVE  /\ pc' \in [Task -> PCs] /\ on' \in [Task -> Sid \cup {None}]
         /\ \A t \in Task : pc'[t] = "teardown" => pc[t] = "teardown" /\ on'[t] = on[t]
         /\ \A x : BeingTornDown(x) => BeingTornDown(x)'
         /\ OneTeardown' /\ BusyInv'
         /\ pc'[c] = where /\ on'[c] = s
         /\ \A d \in Client \ {c} : pc'[d] = pc[d] /\ on'[d] = on[d]
  <1>1. c \in Task /\ Client \subseteq Task
    BY DEF Task
  <1>2. /\ pc'[c] = where /\ on'[c] = s
        /\ \A t \in Task \ {c} : pc'[t] = pc[t] /\ on'[t] = on[t]
    BY <1>1 DEF Moves, Inv, RegistryInv, TypeOK
  <1>3. pc' \in [Task -> PCs] /\ on' \in [Task -> Sid \cup {None}]
    BY <1>1 DEF Moves, Inv, RegistryInv, TypeOK
  <1>4. \A t \in Task : pc'[t] = "teardown" => pc[t] = "teardown" /\ on'[t] = on[t]
    BY <1>2
  <1>5. OneTeardown'
    BY <1>4 DEF OneTeardown, Inv, RegistryInv
  <1>6. BusyInv'
    BY <1>1, <1>2 DEF BusyInv, Inv, LeakInv
  <1>7. ASSUME NEW x, BeingTornDown(x)
        PROVE  BeingTornDown(x)'
    BY <1>2, <1>7 DEF BeingTornDown, Moves
  <1>8. QED
    BY <1>1, <1>2, <1>3, <1>4, <1>5, <1>6, <1>7

\* Registering a new session keeps the cap: create() has just checked it.
LEMMA CreateKeepsCap ==
  ASSUME CapInv, HasRoom, NEW s, sessions' = sessions \cup {s}
  PROVE  CapInv'
  <1>1. MaxSessions \in Nat
    BY ManagerBounds
  <1>2. IsFiniteSet(sessions') /\ Cardinality(sessions') <= Cardinality(sessions) + 1
    <2>1. /\ IsFiniteSet(sessions \cup {s})
          /\ Cardinality(sessions \cup {s}) =
               IF s \in sessions THEN Cardinality(sessions) ELSE Cardinality(sessions) + 1
      BY FS_AddElement DEF CapInv
    <2>2. Cardinality(sessions) \in Nat
      BY FS_CardinalityType DEF CapInv
    <2>3. QED
      BY <2>1, <2>2
  <1>3. Cardinality(sessions) \in Nat /\ Cardinality(sessions') \in Nat
    BY <1>2, FS_CardinalityType DEF CapInv
  <1>4. QED
    BY <1>1, <1>2, <1>3 DEF CapInv, CapHolds, HasRoom

\* create() registers a session.
LEMMA CreateSessionKeeps ==
  ASSUME Inv, NEW c \in Client, NEW s \in Sid, CreateSession(c, s)
  PROVE  Inv'
  <1> USE DEF Inv, RegistryInv, LeakInv
  <1>1. /\ pc[c] = "ready" /\ s \notin sessions \cup popped /\ HasRoom
        /\ sessions' = sessions \cup {s} /\ dirs' = dirs \cup {s}
        /\ UNCHANGED <<known, stray, heirs, idle, age, rest, popped, inUse, abandoned>>
    BY DEF CreateSession, clocks, history
  <1>2. CapInv'
    BY <1>1, CreateKeepsCap
  <1>3. RegisteredHasDir'
    BY <1>1 DEF RegisteredHasDir
  <1>4. CASE /\ runner' = [runner EXCEPT ![s] = "spawning"]
             /\ booting' = booting \cup {s}
             /\ Suspend(c, "create", s)
    <2>1. Moves(c, "create", s)
      BY <1>1, <1>4 DEF Moves, Suspend
    <2>2. /\ pc' \in [Task -> PCs] /\ on' \in [Task -> Sid \cup {None}]
          /\ \A t \in Task : pc'[t] = "teardown" => pc[t] = "teardown" /\ on'[t] = on[t]
          /\ \A x : BeingTornDown(x) => BeingTornDown(x)'
          /\ OneTeardown' /\ BusyInv'
          /\ pc'[c] = "create" /\ on'[c] = s
          /\ \A d \in Client \ {c} : pc'[d] = pc[d] /\ on'[d] = on[d]
      BY <1>1, <2>1, MovesKeeps DEF PCs
    <2>3. runner'[s] = "spawning" /\ \A x \in Sid \ {s} : runner'[x] = runner[x]
      BY <1>4 DEF TypeOK
    <2>4. TypeOK'
      BY <1>1, <1>4, <2>2 DEF TypeOK
    <2>5. OncePopped'
      BY <1>1, <2>2, <2>3 DEF OncePopped
    <2>6. SpawnInv'
      BY <1>1, <2>2, <2>3 DEF SpawnInv
    <2>7. LateInv'
      BY <1>1, <1>4, <2>3, <2>4 DEF LateInv, TypeOK
    <2>8. NothingElseLeaks'
      <3>1. ASSUME NEW x, RunsBash(x)'
            PROVE  RunsBash(x)
        BY <2>2, <3>1 DEF RunsBash
      <3>2. QED
        BY <1>1, <2>2, <2>3, <3>1 DEF NothingElseLeaks
    <2>9. QED
      BY <1>2, <1>3, <2>2, <2>4, <2>5, <2>6, <2>7, <2>8
  <1>5. CASE UNCHANGED <<runner, booting, pc, on>>
    <2>1. TypeOK' /\ OncePopped' /\ OneTeardown'
      BY <1>1, <1>5 DEF TypeOK, OncePopped, OneTeardown
    <2>2. BusyInv' /\ SpawnInv' /\ LateInv'
      BY <1>1, <1>5 DEF BusyInv, SpawnInv, LateInv
    <2>3. NothingElseLeaks'
      BY <1>1, <1>5 DEF NothingElseLeaks, BeingTornDown, RunsBash
    <2>4. QED
      BY <1>2, <1>3, <2>1, <2>2, <2>3
  <1>6. QED
    BY <1>4, <1>5 DEF CreateSession

\* What the steps of a request that is past its creation have in common: they
\* make directories and runners of sessions that are registered or inUse.
LEMMA WorkKeeps ==
  ASSUME Inv, NEW c \in Client, NEW where \in PCs \ {"teardown"}, NEW s \in Sid \cup {None},
         Moves(c, where, s), where \in AtWork => s \in sessions \cup inUse,
         UNCHANGED <<sessions, stray, heirs, rest, age, history>>,
         known' \subseteq Sid, idle' \in [Sid -> 0..IdleTimeout + 1],
         dirs \subseteq dirs', dirs' \subseteq dirs \cup sessions \cup inUse,
         runner' \in [Sid -> RunnerStates], booting' \subseteq Sid,
         \A x \in Sid : \/ runner'[x] = runner[x]
                        \/ x \in sessions \cup inUse /\ runner'[x] \in {"spawning", "up"},
         \A x \in booting' : x \in booting \/ runner'[x] # "none",
         SpawnInv'
  PROVE  Inv'
  <1> USE DEF Inv, RegistryInv, LeakInv
  <1>1. /\ pc' \in [Task -> PCs] /\ on' \in [Task -> Sid \cup {None}]
        /\ \A t \in Task : pc'[t] = "teardown" => pc[t] = "teardown" /\ on'[t] = on[t]
        /\ \A x : BeingTornDown(x) => BeingTornDown(x)'
        /\ OneTeardown' /\ BusyInv'
    BY MovesKeeps DEF history
  <1>2. TypeOK'
    BY <1>1 DEF TypeOK, RunnerStates, history
  <1>3. OncePopped'
    BY <1>1 DEF OncePopped, history
  <1>4. RegisteredHasDir' /\ CapInv'
    BY DEF RegisteredHasDir, CapInv, CapHolds
  <1>5. LateInv'
    BY <1>2 DEF LateInv, history, TypeOK, RunnerStates
  <1>6. NothingElseLeaks'
    <2>1. ASSUME NEW x \in Sid \ sessions', RunsBash(x)'
          PROVE  x \in inUse'
      BY <1>1, <2>1 DEF BusyInv, RunsBash, AtWork
    <2>2. QED
      BY <1>1, <2>1 DEF NothingElseLeaks, history
  <1>7. QED
    BY <1>1, <1>2, <1>3, <1>4, <1>5, <1>6

\* Every step of a request handler keeps the invariant.
LEMMA RequestKeeps ==
  ASSUME Inv, NEW c \in Client, Request(c)
  PROVE  Inv'
  <1> USE DEF Inv, RegistryInv, LeakInv
  <1>0. /\ c \in Task /\ on[c] \in Sid \cup {None}
        /\ runner \in [Sid -> RunnerStates]
        /\ sessions \subseteq Sid /\ inUse \subseteq Sid /\ booting \subseteq Sid
        /\ IdleTimeout \in Nat /\ MaxLifetime \in Nat
    BY ManagerBounds DEF Task, TypeOK, RunnerStates
  <1>a. pc[c] \in AtWork => on[c] \in sessions \cup inUse
    BY DEF BusyInv
  <1>b. ASSUME NEW where \in PCs \ {"teardown"}, NEW s \in Sid \cup {None}, Suspend(c, where, s),
               pc[c] # "teardown"
        PROVE  /\ Moves(c, where, s)
               /\ pc'[c] = where /\ on'[c] = s
               /\ \A d \in Client \ {c} : pc'[d] = pc[d] /\ on'[d] = on[d]
    BY <1>b, <1>0 DEF Suspend, Moves, TypeOK, Task
  <1>1. ASSUME NEW s \in Sid, CreateSession(c, s)
        PROVE  Inv'
    BY <1>1, CreateSessionKeeps
  <1>2. CASE CreateReturns(c)
    <2>1. /\ pc[c] = "create" /\ on[c] \in sessions \cup inUse
          /\ runner' = [runner EXCEPT ![on[c]] = "up"]
          /\ Moves(c, "ready", None)
          /\ \A d \in Client \ {c} : pc'[d] = pc[d] /\ on'[d] = on[d]
      BY <1>2, <1>a, <1>b DEF CreateReturns, AtWork, PCs
    <2>2. SpawnInv'
      BY <1>0, <2>1 DEF SpawnInv
    <2>3. known' = known \cup {on[c]} /\ booting' = booting
      BY <1>2 DEF CreateReturns
    <2>4. \A x \in Sid : runner'[x] = IF x = on[c] THEN "up" ELSE runner[x]
      BY <1>0, <2>1
    <2>5. runner' \in [Sid -> RunnerStates]
      BY <1>0, <2>1 DEF RunnerStates
    <2>6. \A x \in booting' : x \in booting \/ runner'[x] # "none"
      BY <2>3
    <2>7. \A x \in Sid : \/ runner'[x] = runner[x]
                         \/ x \in sessions \cup inUse /\ runner'[x] \in {"spawning", "up"}
      BY <2>1, <2>4
    <2>8. QED
      BY <1>0, <1>2, <2>1, <2>2, <2>3, <2>5, <2>6, <2>7, WorkKeeps
      DEF CreateReturns, TypeOK, clocks, AtWork, PCs
  <1>3. ASSUME NEW s \in Sid, ShortRequest(c, s)
        PROVE  Inv'
    <2>1. /\ idle' = [idle EXCEPT ![s] = 0]
          /\ UNCHANGED <<sessions, known, dirs, runner, stray, booting, heirs, age, pc, on, rest,
                         popped, inUse, abandoned>>
      BY <1>3 DEF ShortRequest, Touch, procs, tasks, history
    <2>2. TypeOK' /\ OncePopped' /\ OneTeardown' /\ RegisteredHasDir' /\ CapInv'
      BY <1>0, <2>1 DEF TypeOK, OncePopped, OneTeardown, RegisteredHasDir, CapInv, CapHolds
    <2>3. BusyInv' /\ SpawnInv' /\ LateInv' /\ NothingElseLeaks'
      BY <2>1 DEF BusyInv, SpawnInv, LateInv, NothingElseLeaks, BeingTornDown, RunsBash
    <2>4. QED
      BY <2>2, <2>3
  <1>4. ASSUME NEW s \in Sid, ExecBegins(c, s) \/ BashBegins(c, s) \/ UploadBegins(c, s)
        PROVE  Inv'
    <2>1. PICK where \in {"queued", "bash", "upload"} :
            /\ Touch(c, s) /\ Suspend(c, where, s)
            /\ UNCHANGED <<sessions, known, dirs, runner, stray, booting, heirs, age, rest, history>>
      BY <1>4 DEF ExecBegins, BashBegins, UploadBegins, procs
    <2>2. /\ pc[c] = "ready" /\ s \in sessions
          /\ idle' = [idle EXCEPT ![s] = 0]
      BY <2>1 DEF Touch
    <2>3. /\ Moves(c, where, s)
          /\ \A d \in Client \ {c} : pc'[d] = pc[d] /\ on'[d] = on[d]
      BY <1>b, <2>1, <2>2 DEF PCs
    <2>4. SpawnInv'
      BY <2>1, <2>2, <2>3 DEF SpawnInv
    <2>5. idle' \in [Sid -> 0..IdleTimeout + 1]
      BY <1>0, <2>2 DEF TypeOK
    <2>6. where \in PCs \ {"teardown"}
      BY DEF PCs
    <2>7. QED
      BY <1>0, <2>1, <2>2, <2>3, <2>4, <2>5, <2>6, WorkKeeps DEF TypeOK
  <1>5. CASE ExecRuns(c) \/ ExecEnds(c) \/ BashEnds(c)
    <2>1. PICK where \in {"running", "ready"}, s \in Sid \cup {None} :
            /\ Suspend(c, where, s) /\ pc[c] \in {"queued", "running", "bash"}
            /\ UNCHANGED <<sessions, known, dirs, runner, stray, booting, heirs, idle, age, rest, history>>
      BY <1>0, <1>5 DEF ExecRuns, Locks, ExecEnds, BashEnds, procs, clocks
    <2>2. where \in PCs \ {"teardown"} /\ where \notin AtWork
      BY DEF PCs, AtWork
    <2>3. /\ Moves(c, where, s)
          /\ \A d \in Client \ {c} : pc'[d] = pc[d] /\ on'[d] = on[d]
      BY <1>b, <2>1, <2>2
    <2>4. SpawnInv'
      BY <2>1, <2>3 DEF SpawnInv
    <2>5. QED
      BY <1>0, <2>1, <2>2, <2>3, <2>4, WorkKeeps DEF TypeOK
  <1>6. CASE ExecSpawns(c)
    <2>1. /\ pc[c] = "queued" /\ on[c] \in sessions \cup inUse
          /\ runner' = [runner EXCEPT ![on[c]] = "spawning"]
          /\ booting' = booting \cup {on[c]}
          /\ Suspend(c, "respawn", on[c])
          /\ UNCHANGED <<sessions, known, dirs, stray, heirs, idle, age, rest, history>>
      BY <1>6, <1>a DEF ExecSpawns, Locks, AtWork, clocks
    <2>2. /\ Moves(c, "respawn", on[c])
          /\ pc'[c] = "respawn" /\ on'[c] = on[c]
          /\ \A d \in Client \ {c} : pc'[d] = pc[d] /\ on'[d] = on[d]
      BY <1>0, <1>b, <2>1 DEF PCs
    <2>3. \A x \in Sid : runner'[x] = IF x = on[c] THEN "spawning" ELSE runner[x]
      BY <1>0, <2>1
    <2>4. SpawnInv'
      BY <2>1, <2>2, <2>3 DEF SpawnInv
    <2>5. runner' \in [Sid -> RunnerStates] /\ booting' \subseteq Sid /\ on[c] \in Sid
      BY <1>0, <2>1 DEF RunnerStates
    <2>6. \A x \in booting' : x \in booting \/ runner'[x] # "none"
      BY <2>1, <2>3, <2>5
    <2>7. QED
      BY <1>0, <2>1, <2>2, <2>3, <2>4, <2>5, <2>6, WorkKeeps DEF TypeOK, PCs
  <1>7. CASE ExecSpawned(c)
    <2>1. /\ pc[c] = "respawn" /\ on[c] \in sessions \cup inUse
          /\ runner' = [runner EXCEPT ![on[c]] = "up"]
          /\ Suspend(c, "running", on[c])
          /\ UNCHANGED <<sessions, known, dirs, stray, booting, heirs, idle, age, rest, history>>
      BY <1>7, <1>a DEF ExecSpawned, AtWork, clocks
    <2>2. /\ Moves(c, "running", on[c])
          /\ \A d \in Client \ {c} : pc'[d] = pc[d] /\ on'[d] = on[d]
      BY <1>0, <1>b, <2>1 DEF PCs
    <2>3. \A x \in Sid : runner'[x] = IF x = on[c] THEN "up" ELSE runner[x]
      BY <1>0, <2>1
    <2>4. SpawnInv'
      BY <2>1, <2>2, <2>3 DEF SpawnInv
    <2>5. runner' \in [Sid -> RunnerStates]
      BY <1>0, <2>1 DEF RunnerStates
    <2>6. QED
      BY <1>0, <2>1, <2>2, <2>3, <2>4, <2>5, WorkKeeps DEF TypeOK, PCs
  <1>8. CASE UploadEnds(c)
    <2>1. /\ pc[c] = "upload" /\ on[c] \in sessions \cup inUse
          /\ dirs' = dirs \cup {on[c]}
          /\ Suspend(c, "ready", None)
          /\ UNCHANGED <<sessions, known, runner, stray, booting, heirs, idle, age, rest, history>>
      BY <1>8, <1>a DEF UploadEnds, AtWork, procs, clocks
    <2>2. /\ Moves(c, "ready", None)
          /\ \A d \in Client \ {c} : pc'[d] = pc[d] /\ on'[d] = on[d]
      BY <1>b, <2>1 DEF PCs
    <2>3. SpawnInv'
      BY <2>1, <2>2 DEF SpawnInv
    <2>4. QED
      BY <1>0, <2>1, <2>2, <2>3, WorkKeeps DEF TypeOK, PCs, AtWork
  <1>9. ASSUME NEW s \in Sid, DeleteSession(c, s)
        PROVE  Inv'
    <2>1. /\ pc[c] = "ready" /\ Destroying(c, {s}, {}, runner)
          /\ UNCHANGED <<known, stray, booting, heirs, abandoned>>
      BY <1>9 DEF DeleteSession
    <2>2. DestroyOutcome(c, {}, runner) /\ DestroyTypes
      BY <1>0, <2>1, DestroyingFacts
    <2>3. QED
      BY <1>0, <2>1, <2>2, DestroyKeeps DEF LateInv
  <1>10. QED
    BY <1>1, <1>2, <1>3, <1>4, <1>5, <1>6, <1>7, <1>8, <1>9 DEF Request

-----------------------------------------------------------------------------
(* The background tasks, the subprocesses and time.                         *)

\* The end of a stop(): the runner it waited for is gone; one that took its
\* place belongs to a request that was at work when the session was popped.
LEMMA StopEndsKeeps ==
  ASSUME Inv, NEW t \in Task, StopEnds(t)
  PROVE  Inv'
  <1> USE DEF Inv, RegistryInv, LeakInv
  <1> DEFINE s == on[t]
             r == [runner EXCEPT ![s] = IF @ \in {"stopping", "up"} THEN "none" ELSE @]
  <1>1. /\ pc[t] = "teardown" /\ s \in popped /\ s \in Sid /\ s \notin sessions
        /\ Destroying(t, rest[t], {s}, r)
        /\ stray' = IF runner[s] = "up" THEN stray \cup {s} ELSE stray
        /\ booting' = IF runner[s] = "stopping" THEN booting \ {s} ELSE booting
        /\ UNCHANGED <<known, heirs, abandoned>>
    BY DEF StopEnds, OncePopped, TypeOK
  <1>2. /\ r \in [Sid -> RunnerStates]
        /\ \A x \in Sid : r[x] = runner[x] \/ (x = s /\ r[x] = "none")
        /\ r[s] \in {"none", "spawning"}
    BY <1>1 DEF TypeOK, RunnerStates
  <1>3. DestroyOutcome(t, {s}, r) /\ DestroyTypes
    <2>1. rest[t] \in SUBSET Sid /\ {s} \in SUBSET Sid
      BY <1>1 DEF TypeOK
    <2>2. QED
      BY <1>1, <1>2, <2>1, DestroyingFacts
  <1>4. runner[s] \in {"spawning", "up"} => s \in inUse
    BY <1>1 DEF LateInv
  <1>5. stray' \subseteq inUse
    BY <1>1, <1>4 DEF LateInv
  <1>6. ASSUME NEW x \in booting', r[x] = "none"
        PROVE  x \in inUse
    <2>1. x \in booting /\ x \in Sid
      BY <1>1, <1>6 DEF TypeOK
    <2>2. CASE x = s
      <3>1. runner[s] # "stopping"
        BY <1>1, <1>6, <2>2
      <3>2. runner[s] \in {"none", "up"}
        BY <1>1, <1>2, <1>6, <2>2, <3>1 DEF TypeOK
      <3>3. QED
        BY <1>4, <2>1, <2>2, <3>2 DEF LateInv
    <2>3. CASE x # s
      BY <1>2, <1>6, <2>1, <2>3 DEF LateInv
    <2>4. QED
      BY <2>2, <2>3
  <1>7. {s} \in SUBSET popped /\ booting' \subseteq booting
    BY <1>1
  <1>8. /\ \A x \in Sid : r[x] = runner[x] \/ (x \in {s} /\ r[x] = "none")
        /\ \A x \in {s} : r[x] \in {"none", "spawning"}
    BY <1>2
  <1> HIDE DEF r
  <1>9. QED
    BY <1>1, <1>2, <1>3, <1>5, <1>6, <1>7, <1>8, DestroyKeeps

\* The loops of the collector and of the shutdown start with nothing to clear.
LEMMA LoopStartKeeps ==
  ASSUME Inv, NEW t \in {Gc, Main}, NEW todo \in SUBSET Sid, pc[t] \in {"sleep", "joining"},
         Destroying(t, todo, {}, runner),
         UNCHANGED <<known, stray, booting, heirs, abandoned>>
  PROVE  Inv'
  <1>1. t \in Task /\ runner \in [Sid -> RunnerStates]
    BY DEF Task, Inv, RegistryInv, TypeOK, RunnerStates
  <1>2. DestroyOutcome(t, {}, runner) /\ DestroyTypes
    BY <1>1, DestroyingFacts DEF Inv, RegistryInv
  <1>3. /\ stray' \subseteq inUse /\ booting' \subseteq booting
        /\ \A s \in booting' : runner[s] = "none" => s \in inUse
    BY DEF Inv, LeakInv, LateInv
  <1>4. pc[t] \notin {"create", "respawn"} /\ pc[t] # "teardown"
    OBVIOUS
  <1>5. {} \in SUBSET popped /\ known' = known /\ heirs' = heirs /\ abandoned' = abandoned
    OBVIOUS
  <1>6. QED
    BY <1>1, <1>2, <1>3, <1>4, <1>5, DestroyKeeps

\* Cancelling the collector: its victim, if it has one, is abandoned.
LEMMA CancelGcKeeps ==
  ASSUME Inv, CancelGc
  PROVE  Inv'
  <1> USE DEF Inv, RegistryInv, LeakInv
  <1>1. /\ pc' = [pc EXCEPT ![Gc] = "cancelled", ![Main] = "joining"]
        /\ on' = [on EXCEPT ![Gc] = None]
        /\ rest' = [rest EXCEPT ![Gc] = {}]
        /\ abandoned' = abandoned \cup {s \in Sid : on[Gc] = s}
        /\ UNCHANGED <<sessions, known, dirs, runner, stray, booting, heirs, idle, age, popped,
                       inUse>>
        /\ pc[Main] = "serving"
    BY DEF CancelGc, procs, clocks, Serving
  <1>2. /\ Gc \in Task /\ Main \in Task /\ Gc # Main
        /\ Client \subseteq Task \ {Gc, Main}
    BY ManagerTasks DEF Task
  <1>3. /\ pc' \in [Task -> PCs] /\ on' \in [Task -> Sid \cup {None}]
        /\ rest' \in [Task -> SUBSET Sid]
    BY <1>1, <1>2 DEF TypeOK, PCs
  <1>4. /\ \A t \in Task \ {Gc, Main} : pc'[t] = pc[t]
        /\ \A t \in Task \ {Gc} : on'[t] = on[t]
        /\ pc'[Gc] = "cancelled" /\ pc'[Main] = "joining"
    BY <1>1, <1>2 DEF TypeOK
  <1>5. TypeOK' /\ RegisteredHasDir' /\ CapInv'
    BY <1>1, <1>3 DEF TypeOK, RegisteredHasDir, CapInv, CapHolds
  <1>a. ASSUME NEW t \in Task, pc'[t] = "teardown"
        PROVE  pc[t] = "teardown" /\ on'[t] = on[t]
    BY <1>4, <1>a
  <1>b. ASSUME NEW c \in Client
        PROVE  pc'[c] = pc[c] /\ on'[c] = on[c]
    BY <1>2, <1>4
  <1>c. sessions' = sessions /\ runner' = runner /\ popped' = popped /\ inUse' = inUse
    BY <1>1
  <1>6. OncePopped' /\ OneTeardown'
    <2>1. OncePopped'
      BY <1>a, <1>c DEF OncePopped
    <2>2. OneTeardown'
      BY <1>a DEF OneTeardown
    <2>3. QED
      BY <2>1, <2>2
  <1>7. BusyInv' /\ SpawnInv'
    <2>1. BusyInv'
      BY <1>b, <1>c DEF BusyInv
    <2>2. SpawnInv'
      BY <1>b, <1>c DEF SpawnInv
    <2>3. QED
      BY <2>1, <2>2
  <1>8. LateInv'
    BY <1>1 DEF LateInv
  <1>9. ASSUME NEW s \in Sid, BeingTornDown(s)
        PROVE  BeingTornDown(s)' \/ s \in abandoned'
    <2>1. PICK t \in Task : pc[t] = "teardown" /\ on[t] = s
      BY <1>9 DEF BeingTornDown
    <2>2. CASE t = Gc
      BY <1>1, <2>1, <2>2
    <2>3. CASE t # Gc
      BY <1>1, <1>4, <2>1, <2>3 DEF BeingTornDown
    <2>4. QED
      BY <2>2, <2>3
  <1>10. NothingElseLeaks'
    <2>1. ASSUME NEW s \in Sid, RunsBash(s)'
          PROVE  RunsBash(s)
      BY <1>b, <2>1 DEF RunsBash
    <2>2. QED
      BY <1>1, <1>9, <2>1 DEF NothingElseLeaks
  <1>11. QED
    BY <1>5, <1>6, <1>7, <1>8, <1>10

\* A subprocess that gets to make its directory has a runner to its name or was
\* forked by a request at work.
LEMMA BootKeeps ==
  ASSUME Inv, NEW s \in Sid, Boot(s)
  PROVE  Inv'
  <1> USE DEF Inv, RegistryInv, LeakInv
  <1>1. /\ s \in booting /\ booting' = booting \ {s} /\ dirs' = dirs \cup {s}
        /\ UNCHANGED <<sessions, known, runner, stray, heirs, idle, age, pc, on, rest,
                       popped, inUse, abandoned>>
    BY DEF Boot, clocks, tasks, history
  <1>2. TypeOK' /\ OncePopped' /\ OneTeardown' /\ RegisteredHasDir' /\ CapInv'
    BY <1>1 DEF TypeOK, OncePopped, OneTeardown, RegisteredHasDir, CapInv, CapHolds
  <1>3. BusyInv' /\ SpawnInv' /\ LateInv'
    BY <1>1 DEF BusyInv, SpawnInv, LateInv
  <1>4. NothingElseLeaks'
    <2>1. s \in inUse \/ runner[s] # "none"
      BY <1>1 DEF LateInv
    <2>2. QED
      BY <1>1, <2>1 DEF NothingElseLeaks, BeingTornDown, RunsBash
  <1>5. QED
    BY <1>2, <1>3, <1>4

\* A runner dies of itself.
LEMMA RunnerDiesKeeps ==
  ASSUME Inv, NEW s \in Sid, RunnerDies(s)
  PROVE  Inv'
  <1> USE DEF Inv, RegistryInv, LeakInv
  <1>1. /\ runner' = [runner EXCEPT ![s] = "none"] /\ booting' = booting \ {s}
        /\ UNCHANGED <<sessions, known, dirs, stray, heirs, idle, age, pc, on, rest,
                       popped, inUse, abandoned>>
        /\ runner[s] \in {"up", "stopping"}
    BY DEF RunnerDies, clocks, tasks, history
  <1>2. \A x \in Sid : runner'[x] = IF x = s THEN "none" ELSE runner[x]
    BY <1>1 DEF TypeOK
  <1>3. TypeOK' /\ OneTeardown' /\ RegisteredHasDir' /\ CapInv'
    BY <1>1 DEF TypeOK, OneTeardown, RegisteredHasDir, CapInv, CapHolds
  <1>4. OncePopped'
    BY <1>1, <1>2 DEF OncePopped
  <1>5. BusyInv' /\ SpawnInv'
    BY <1>1, <1>2 DEF BusyInv, SpawnInv
  <1>6. LateInv'
    BY <1>1, <1>2 DEF LateInv, TypeOK
  <1>7. NothingElseLeaks'
    BY <1>1, <1>2 DEF NothingElseLeaks, BeingTornDown, RunsBash
  <1>8. QED
    BY <1>3, <1>4, <1>5, <1>6, <1>7

\* User code that runs makes the directory of a session whose user code may be left
\* behind: a registered one has its directory.
LEMMA UserWritesKeeps ==
  ASSUME Inv, NEW s \in Sid, UserWrites(s)
  PROVE  Inv'
  <1> USE DEF Inv, RegistryInv, LeakInv
  <1>1. /\ dirs' = dirs \cup {s} /\ s \notin dirs
        /\ runner[s] \in {"up", "stopping"} \/ s \in stray \cup heirs \/ RunsBash(s)
        /\ UNCHANGED <<sessions, known, runner, stray, booting, heirs, idle, age, pc, on, rest,
                       popped, inUse, abandoned>>
    BY DEF UserWrites, UserCode, procs, clocks, tasks, history
  <1>2. TypeOK' /\ OncePopped' /\ OneTeardown' /\ RegisteredHasDir' /\ CapInv'
    BY <1>1 DEF TypeOK, OncePopped, OneTeardown, RegisteredHasDir, CapInv, CapHolds
  <1>3. BusyInv' /\ SpawnInv' /\ LateInv'
    BY <1>1 DEF BusyInv, SpawnInv, LateInv
  <1>4. NothingElseLeaks'
    <2>1. ~BeingTornDown(s) => s \in inUse \cup abandoned \cup heirs
      BY <1>1 DEF RegisteredHasDir, NothingElseLeaks
    <2>2. QED
      BY <1>1, <2>1 DEF NothingElseLeaks, BeingTornDown, RunsBash
  <1>5. QED
    BY <1>2, <1>3, <1>4

\* A detached process changes nothing by its birth.
LEMMA LeavesHeirKeeps ==
  ASSUME Inv, NEW s \in Sid, LeavesHeir(s)
  PROVE  Inv'
  <1> USE DEF Inv, RegistryInv, LeakInv
  <1>1. /\ heirs' = heirs \cup {s}
        /\ UNCHANGED <<sessions, known, dirs, runner, stray, booting, idle, age, pc, on, rest,
                       popped, inUse, abandoned>>
    BY DEF LeavesHeir, clocks, tasks, history
  <1>2. TypeOK' /\ OncePopped' /\ OneTeardown' /\ RegisteredHasDir' /\ CapInv'
    BY <1>1 DEF TypeOK, OncePopped, OneTeardown, RegisteredHasDir, CapInv, CapHolds
  <1>3. BusyInv' /\ SpawnInv' /\ LateInv'
    BY <1>1 DEF BusyInv, SpawnInv, LateInv
  <1>4. NothingElseLeaks'
    BY <1>1 DEF NothingElseLeaks, BeingTornDown, RunsBash
  <1>5. QED
    BY <1>2, <1>3, <1>4

\* Time passes.
LEMMA TickKeeps ==
  ASSUME Inv, Tick
  PROVE  Inv'
  <1> USE DEF Inv, RegistryInv, LeakInv
  <1>1. UNCHANGED <<sessions, known, dirs, runner, stray, booting, heirs, pc, on, rest,
                    popped, inUse, abandoned>>
    BY DEF Tick, procs, tasks, history
  <1>2. /\ idle' \in [Sid -> 0..IdleTimeout + 1]
        /\ age' \in [Sid -> 0..MaxLifetime + 1]
    BY ManagerBounds DEF Tick, TypeOK
  <1>3. TypeOK' /\ OncePopped' /\ OneTeardown' /\ RegisteredHasDir' /\ CapInv'
    BY <1>1, <1>2 DEF TypeOK, OncePopped, OneTeardown, RegisteredHasDir, CapInv, CapHolds
  <1>4. BusyInv' /\ SpawnInv' /\ LateInv' /\ NothingElseLeaks'
    BY <1>1 DEF BusyInv, SpawnInv, LateInv, NothingElseLeaks, BeingTornDown, RunsBash
  <1>5. QED
    BY <1>3, <1>4

\* Nothing happens.
LEMMA StutterKeeps ==
  ASSUME Inv, UNCHANGED vars
  PROVE  Inv'
  <1>1. UNCHANGED <<sessions, known, dirs, runner, stray, booting, heirs, idle, age, pc, on, rest,
                    popped, inUse, abandoned>>
    BY DEF vars, procs, clocks, tasks, history
  <1>2. RegistryInv'
    BY <1>1 DEF Inv, RegistryInv, TypeOK, OncePopped, OneTeardown, RegisteredHasDir,
                CapInv, CapHolds
  <1>3. LeakInv'
    BY <1>1 DEF Inv, LeakInv, BusyInv, SpawnInv, LateInv, NothingElseLeaks, BeingTornDown, RunsBash
  <1>4. QED
    BY <1>2, <1>3 DEF Inv

-----------------------------------------------------------------------------
(* The theorems.                                                           *)

\* Before the server takes requests.
LEMMA InitHolds == Init => Inv
  <1> SUFFICES ASSUME Init PROVE Inv
    OBVIOUS
  <1>1. TypeOK
    BY ManagerBounds DEF Init, TypeOK, PCs
  <1>2. \A t \in Task : pc[t] \in {"sleep", "serving", "ready"}
    BY DEF Init
  <1>3. OncePopped /\ OneTeardown /\ RegisteredHasDir
    BY <1>2 DEF Init, OncePopped, OneTeardown, RegisteredHasDir
  <1>4. CapInv
    BY FS_EmptySet, ManagerBounds DEF Init, CapInv, CapHolds
  <1>5. LeakInv
    <2>1. Client \subseteq Task
      BY DEF Task
    <2>2. BusyInv
      BY <1>2, <2>1 DEF BusyInv, AtWork
    <2>3. SpawnInv /\ LateInv /\ NothingElseLeaks
      BY <1>2, <2>1 DEF Init, SpawnInv, LateInv, NothingElseLeaks, RunsBash
    <2>4. QED
      BY <2>2, <2>3 DEF LeakInv
  <1>6. QED
    BY <1>1, <1>3, <1>4, <1>5 DEF Inv, RegistryInv

\* Every step, by who takes it.
LEMMA NextKeeps == Inv /\ [Next]_vars => Inv'
  <1> SUFFICES ASSUME Inv, [Next]_vars PROVE Inv'
    OBVIOUS
  <1>1. ASSUME NEW c \in Client, Request(c)
        PROVE  Inv'
    BY <1>1, RequestKeeps
  <1>2. ASSUME NEW t \in Task, StopEnds(t)
        PROVE  Inv'
    BY <1>2, StopEndsKeeps
  <1>3. CASE GcScans
    <2>1. {s \in sessions : Stale(s)} \in SUBSET Sid
      BY DEF Inv, RegistryInv, TypeOK
    <2>2. QED
      BY <1>3, <2>1, LoopStartKeeps DEF GcScans
  <1>4. CASE CancelGc
    BY <1>4, CancelGcKeeps
  <1>5. CASE Shutdown
    <2>1. Doomed \in SUBSET Sid
      BY DEF Inv, RegistryInv, TypeOK, Doomed
    <2>2. QED
      BY <1>5, <2>1, LoopStartKeeps DEF Shutdown
  <1>6. CASE Tick
    BY <1>6, TickKeeps
  <1>7. ASSUME NEW s \in Sid, Boot(s) \/ RunnerDies(s) \/ UserWrites(s) \/ LeavesHeir(s)
        PROVE  Inv'
    BY <1>7, BootKeeps, RunnerDiesKeeps, UserWritesKeeps, LeavesHeirKeeps
  <1>8. CASE UNCHANGED vars
    BY <1>8, StutterKeeps
  <1>9. QED
    BY <1>1, <1>2, <1>3, <1>4, <1>5, <1>6, <1>7, <1>8 DEF Next

\* It holds in every state.
LEMMA Invariance == Spec => []Inv
  BY InitHolds, NextKeeps, PTL DEF Spec

\* The model is well typed.
THEOREM ManagerTypes == Spec => []TypeOK
  <1>1. Inv => TypeOK
    BY DEF Inv, RegistryInv
  <1>2. QED
    BY <1>1, Invariance, PTL

\* However many clients race to create sessions, the registry never holds more
\* than max_sessions of them.
THEOREM CapIsNeverExceeded == Spec => []CapHolds
  <1>1. Inv => CapHolds
    BY DEF Inv, RegistryInv, CapInv
  <1>2. QED
    BY <1>1, Invariance, PTL

\* No session is torn down by two tasks, whoever else wants it gone.
THEOREM TeardownIsExclusive == Spec => []OneTeardown
  <1>1. Inv => OneTeardown
    BY DEF Inv, RegistryInv
  <1>2. QED
    BY <1>1, Invariance, PTL

\* A session that can be looked up has its directory.
THEOREM LookupFindsDirectory == Spec => []RegisteredHasDir
  <1>1. Inv => RegisteredHasDir
    BY DEF Inv, RegistryInv
  <1>2. QED
    BY <1>1, Invariance, PTL

\* A runner, a bash under way and a directory outlive their session only if a request
\* was at work in it when it was popped or its teardown was cancelled, the directory
\* also if user code of the session has left a process behind, which nothing stops.
THEOREM LeaksAreAccountedFor == Spec => []NothingElseLeaks
  <1>1. Inv => NothingElseLeaks
    BY DEF Inv, LeakInv
  <1>2. QED
    BY <1>1, Invariance, PTL
=============================================================================
