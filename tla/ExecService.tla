---------------------------- MODULE ExecService ----------------------------
(* What RunnerProcess.execute promises its callers, with no process, pipe  *)
(* or timer in sight: calls are served one at a time in arrival order, and *)
(* each ends at most once, with the answer to its own code or with a       *)
(* failure, never with the answer to another call.  The one being served   *)
(* does end, unless whatever executes it holds the service for ever.       *)
EXTENDS Sequences

CONSTANT Caller     \* the execute() calls made on one session

VARIABLES
  status,           \* "new", "waiting", "answered", "failed" or "rejected"
  queue,            \* calls taken in and not ended, the one served first
  held              \* may the call being served stay where it is?

vars == <<status, queue>>

Statuses == {"new", "waiting", "answered", "failed", "rejected"}

Init == /\ status = [c \in Caller |-> "new"]
        /\ queue = <<>>

\* A call is taken in and waits for its turn (at once, when nobody waits).
Submit(c) == /\ status[c] = "new"
             /\ status' = [status EXCEPT ![c] = "waiting"]
             /\ queue' = Append(queue, c)

\* A call on a session that is gone is turned away.
Reject(c) == /\ status[c] = "new"
             /\ status' = [status EXCEPT ![c] = "rejected"]
             /\ UNCHANGED queue

\* A call that finds no one waiting may fail before it ever waits.
FailAtOnce(c) == /\ status[c] = "new"
                 /\ queue = <<>>
                 /\ status' = [status EXCEPT ![c] = "failed"]
                 /\ UNCHANGED queue

\* The call at the head of the queue ends, in one of the two allowed ways.
Complete == /\ queue # <<>>
            /\ \E end \in {"answered", "failed"} :
                 status' = [status EXCEPT ![Head(queue)] = end]
            /\ queue' = Tail(queue)

Next == \/ \E c \in Caller : Submit(c) \/ Reject(c) \/ FailAtOnce(c)
        \/ Complete

Spec == Init /\ [][Next]_vars /\ WF_vars(~held /\ Complete)
=============================================================================
